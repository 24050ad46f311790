------------------------------ MODULE MCUpkeep -------------------------------
(***************************************************************************)
(* What a caller keeps from one issuance to the next: the account file and *)
(* the certificate in use.  They share no state, so each is explored on    *)
(* its own: saves by two threads of one process and one thread of another, *)
(* and the renewal loop with either gate.                                  *)
(***************************************************************************)
EXTENDS AccountStore, MCRenewal, TLC

CONSTANTS t1, t2, t3, p1, p2

VARIABLE kept   \* the part explored

upkeepVars == <<vars, renewalVars, kept>>

MCInit ==
    /\ kept \in {"account", "certificate"}
    /\ Init /\ RenewalInit
    /\ kept = "account" => gate.kind = "fixed" /\ cert.notAfter = 24 - Backdate

MCNext ==
    /\ \/ kept = "account" /\ Next /\ UNCHANGED renewalVars
       \/ kept = "certificate" /\ RenewalNext /\ UNCHANGED vars
    /\ UNCHANGED kept

MCSpec == MCInit /\ [][MCNext]_upkeepVars

TwoProcesses == [t \in {t1, t2, t3} |-> IF t = t3 THEN p2 ELSE p1]

(* The two threads of p1 are alike, and so are process ids. *)
Symmetry ==
    {[x \in Threads \cup Pids |-> IF x \in Threads THEN f[x] ELSE g[x]] :
        f \in {h \in Permutations(Threads) : h[t3] = t3}, g \in Permutations(Pids)}
=============================================================================
