-------------------------- MODULE TlsAlpn01Solver ----------------------------
(***************************************************************************)
(* TlsAlpn01Solver::solve_and_finalize: collect the challenges, then for   *)
(* each one build its certificate, present it and set it ready; finalize;  *)
(* tear down.  An item is a domain whose certificate is served.            *)
(***************************************************************************)
EXTENDS AcmeSolver

tlsVars == <<guardVars, solverVars>>

TlsTypeOK == SolverTypeOK({"collect", "next", "present", "ready", "finalize", "run",
                        "done", "dropped"})

TlsInit == SolverInit

(* present_all's first loop: any error ends the solve before anything is
   presented. *)
TlsCollect(s) ==
    /\ pc[s] = "collect"
    /\ \/ /\ ReadsAll(s)
          /\ queue' = [queue EXCEPT ![s] = PendingBefore(s, N + 1)]
          /\ pc' = [pc EXCEPT ![s] = "next"]
          /\ UNCHANGED outcome
       \/ /\ FailWith(s)
          /\ UNCHANGED queue
    /\ UNCHANGED <<guardVars, authz, current, readied>>

(* Mutant: the domain is not recorded. *)
NextUnrecorded(s) ==
    /\ pc[s] = "next"
    /\ \E i \in 1..N :
          /\ IsNext(s, i)
          /\ queue' = [queue EXCEPT ![s] = @ \ {i}]
          /\ current' = [current EXCEPT ![s] = i]
    /\ pc' = [pc EXCEPT ![s] = "present"]
    /\ UNCHANGED <<guardVars, authz, readied, outcome>>

(* Mutant: the challenge is set ready before its certificate is presented. *)
NextReadyFirst(s) ==
    /\ pc[s] = "next"
    /\ \E i \in 1..N :
          /\ IsNext(s, i)
          /\ queue' = [queue EXCEPT ![s] = @ \ {i}]
          /\ current' = [current EXCEPT ![s] = i]
          /\ readied' = [readied EXCEPT ![s] = @ \cup {i}]
          /\ Push(s, ItemOf[s][i])
    /\ pc' = [pc EXCEPT ![s] = "present"]
    /\ UNCHANGED <<authz, outcome>>

(* The next domain: it is pushed before present, once its certificate is
   built. *)
TlsNextChallenge(s) ==
    /\ pc[s] = "next"
    /\ \E i \in 1..N :
          /\ IsNext(s, i)
          /\ queue' = [queue EXCEPT ![s] = @ \ {i}]
          /\ current' = [current EXCEPT ![s] = i]
          /\ Push(s, ItemOf[s][i])
    /\ pc' = [pc EXCEPT ![s] = "present"]
    /\ UNCHANGED <<authz, readied, outcome>>

(* build_challenge_certificate fails. *)
BuildFails(s) ==
    /\ pc[s] = "next"
    /\ queue[s] # {}
    /\ FailWith(s)
    /\ UNCHANGED <<guardVars, authz, queue, current, readied>>

(* responder.present returns. *)
TlsPresent(s) ==
    /\ pc[s] = "present"
    /\ \/ /\ Presented(ItemOf[s][current[s]], TRUE)
          /\ pc' = [pc EXCEPT ![s] = "ready"]
          /\ UNCHANGED outcome
       \/ /\ Presented(ItemOf[s][current[s]], FALSE)
          /\ FailWith(s)
    /\ UNCHANGED <<authz, queue, current, readied>>

(* set_ready_by_url: Ok, or an error on the way (an authorization that cannot
   be read, a challenge that is gone), which may come after the CA heard. *)
SetReadyByUrl(s) ==
    LET heard == [readied EXCEPT ![s] = @ \cup {current[s]}] IN
    /\ pc[s] = "ready"
    /\ \/ /\ readied' = heard
          /\ pc' = [pc EXCEPT ![s] = "next"]
          /\ UNCHANGED outcome
       \/ /\ readied' \in {readied, heard}
          /\ FailWith(s)
    /\ UNCHANGED <<guardVars, authz, queue, current>>

(* present_all returns Ok. *)
AllReady(s) ==
    /\ pc[s] = "next"
    /\ queue[s] = {}
    /\ pc' = [pc EXCEPT ![s] = "finalize"]
    /\ UNCHANGED <<guardVars, authz, queue, current, readied, outcome>>

TlsNext ==
    \/ \E s \in Solves :
          \/ TlsCollect(s) \/ TlsNextChallenge(s) \/ BuildFails(s) \/ TlsPresent(s)
          \/ SetReadyByUrl(s) \/ AllReady(s)
          \/ Finalize(s) \/ Teardown(s) \/ DropSolve(s) \/ SpawnedTask(s) \/ Validate(s)
    \/ Shutdown \/ LateCall

TlsSpec == TlsInit /\ [][TlsNext]_tlsVars

(* Every await of a solve ends, and the runtime runs spawned tasks. *)
TlsFairness == \A s \in Solves :
    /\ WF_tlsVars(TlsCollect(s) \/ TlsNextChallenge(s) \/ BuildFails(s) \/ TlsPresent(s)
                  \/ SetReadyByUrl(s) \/ AllReady(s))
    /\ WF_tlsVars(Finalize(s) \/ Teardown(s) \/ SpawnedTask(s))

TlsFairSpec == TlsSpec /\ TlsFairness
=============================================================================
