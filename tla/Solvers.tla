------------------------------ MODULE Solvers --------------------------------
(***************************************************************************)
(* Solves of one kind at work at the same time, DNS-01 or TLS-ALPN-01,     *)
(* over the guards and the CA the two solvers share.                       *)
(***************************************************************************)
EXTENDS Dns01Solver, TlsAlpn01Solver

VARIABLE method   \* the kind of the solves, fixed

allVars == <<vars, method>>

Dns01(A) == method = "dns-01" /\ A /\ UNCHANGED method
TlsAlpn01(A) == method = "tls-alpn-01" /\ A /\ UNCHANGED <<driverVars, method>>

SolversInit == method \in {"dns-01", "tls-alpn-01"} /\ Init

SolversNext == Dns01(Next) \/ TlsAlpn01(TlsNext)

SolversSpec == SolversInit /\ [][SolversNext]_allVars

-----------------------------------------------------------------------------

(* ReadyWaitsForAll of Dns01Solver: no DNS-01 challenge is set ready before
   every record of its order was placed, and seen unless the check is skipped. *)
DnsReadyWaitsForAll == method = "dns-01" => ReadyWaitsForAll
=============================================================================
