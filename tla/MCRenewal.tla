------------------------------ MODULE MCRenewal ------------------------------
(* Both gates, the ratio with no floor, one that caps it, and one that does not. *)
EXTENDS Renewal

MCGates ==
    {[kind |-> "fixed", days |-> 2], [kind |-> "ratio", days |-> 0],
     [kind |-> "ratio", days |-> 2], [kind |-> "ratio", days |-> 5]}
=============================================================================
