------------------------------ MODULE MCSolvers ------------------------------
(***************************************************************************)
(* Two solves of one kind at work at the same time, with one challenge in  *)
(* common.  In the DNS-01 case s1 checks the propagation of its records    *)
(* and s2 waits for a fixed time.  Of the two authorizations of s2 one is  *)
(* valid and one pending at the start; those of s1 have every combination  *)
(* of statuses.                                                            *)
(***************************************************************************)
EXTENDS Solvers

CONSTANTS s1, s2, v1, v2, v3

TwoOrders == [s \in {s1, s2} |-> IF s = s1 THEN <<v1, v2>> ELSE <<v3, v2>>]
SecondSkips == [s \in {s1, s2} |-> s = s2]

MCInit == SolversInit /\ authz[s2] = <<"valid", "pending">>

(* The fairness of the two specifications. *)
MCSpec ==
    /\ MCInit /\ [][SolversNext]_allVars
    /\ \A s \in Solves :
          /\ WF_allVars(Dns01(Collect(s) \/ NextChallenge(s) \/ NextError(s) \/ Present(s) \/ AllPresented(s)))
          /\ WF_allVars(Dns01(Sleep(s) \/ WaitForPropagation(s) \/ SetReady(s)))
          /\ WF_allVars(Dns01((Finalize(s) \/ Teardown(s) \/ SpawnedTask(s)) /\ UNCHANGED driverVars))
          /\ WF_allVars(TlsAlpn01(TlsCollect(s) \/ TlsNextChallenge(s) \/ BuildFails(s)
                           \/ TlsPresent(s) \/ SetReadyByUrl(s) \/ AllReady(s)))
          /\ WF_allVars(TlsAlpn01(Finalize(s) \/ Teardown(s) \/ SpawnedTask(s)))
=============================================================================
