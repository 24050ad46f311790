---------------------------- MODULE Dns01Solver ------------------------------
(***************************************************************************)
(* Dns01Solver::solve_with_driver over InstantAcmeDriver: collect the      *)
(* challenges, place every record, wait for propagation, set all the       *)
(* challenges ready in a second pass, finalize, clean up.                  *)
(***************************************************************************)
EXTENDS AcmeSolver

CONSTANT SkipCheck   \* SkipCheck[s]: its solver has skip_propagation_check

ASSUME SkipCheckAssumption == SkipCheck \in [Solves -> BOOLEAN]

VARIABLES
    queueError, \* queueError[s]: an error is queued after the challenges
    tokens,     \* tokens[s]: the challenges whose record was placed
    confirmed,  \* confirmed[s]: how many pending records were seen in DNS
    targets,    \* targets[s]: what set_ready still has to find
    visited     \* visited[s]: authorizations seen by set_ready's pass

driverVars == <<queueError, tokens, confirmed, targets, visited>>
vars == <<guardVars, solverVars, driverVars>>

TypeOK ==
    /\ SolverTypeOK({"collect", "next", "present", "sleep", "propagate", "ready",
                     "finalize", "run", "done", "dropped"})
    /\ queueError \in [Solves -> BOOLEAN]
    /\ tokens \in [Solves -> SUBSET (1..N)]
    /\ confirmed \in [Solves -> 0..N]
    /\ targets \in [Solves -> SUBSET (1..N)]
    /\ visited \in [Solves -> 0..N]

Init ==
    /\ SolverInit
    /\ queueError = [s \in Solves |-> FALSE]
    /\ tokens = [s \in Solves |-> {}]
    /\ confirmed = [s \in Solves |-> 0]
    /\ targets = [s \in Solves |-> {}]
    /\ visited = [s \in Solves |-> 0]

(* collect: stops at the first error, which is queued after the challenges
   found before it. *)
Collect(s) ==
    /\ pc[s] = "collect"
    /\ \E k \in 1..N + 1 :
          /\ StopsAt(s, k)
          /\ queue' = [queue EXCEPT ![s] = PendingBefore(s, k)]
          /\ queueError' = [queueError EXCEPT ![s] = k <= N]
    /\ pc' = [pc EXCEPT ![s] = "next"]
    /\ UNCHANGED <<guardVars, authz, current, readied, outcome, tokens, confirmed, targets, visited>>

(* next_dns01 yields a challenge: its record is pushed before present. *)
NextChallenge(s) ==
    /\ pc[s] = "next"
    /\ \E i \in 1..N :
          /\ IsNext(s, i)
          /\ queue' = [queue EXCEPT ![s] = @ \ {i}]
          /\ current' = [current EXCEPT ![s] = i]
          /\ Push(s, ItemOf[s][i])
    /\ pc' = [pc EXCEPT ![s] = "present"]
    /\ UNCHANGED <<authz, readied, outcome, driverVars>>

(* next_dns01 yields the queued error. *)
NextError(s) ==
    /\ pc[s] = "next"
    /\ queue[s] = {} /\ queueError[s]
    /\ FailWith(s)
    /\ UNCHANGED <<guardVars, authz, queue, current, readied, driverVars>>

(* provider.present returns. *)
Present(s) ==
    /\ pc[s] = "present"
    /\ \/ /\ Presented(ItemOf[s][current[s]], TRUE)
          /\ tokens' = [tokens EXCEPT ![s] = @ \cup {current[s]}]
          /\ pc' = [pc EXCEPT ![s] = "next"]
          /\ UNCHANGED outcome
       \/ /\ Presented(ItemOf[s][current[s]], FALSE)
          /\ FailWith(s)
          /\ UNCHANGED tokens
    /\ UNCHANGED <<authz, queue, current, readied, queueError, confirmed, targets, visited>>

(* Mutant: the queued error is ignored. *)
AllPresentedDespiteError(s) ==
    /\ pc[s] = "next"
    /\ queue[s] = {}
    /\ pc' = [pc EXCEPT ![s] = IF SkipCheck[s] THEN "sleep" ELSE "propagate"]
    /\ UNCHANGED <<guardVars, authz, queue, current, readied, outcome, driverVars>>

(* next_dns01 yields None. *)
AllPresented(s) ==
    /\ pc[s] = "next"
    /\ queue[s] = {} /\ ~queueError[s]
    /\ pc' = [pc EXCEPT ![s] = IF SkipCheck[s] THEN "sleep" ELSE "propagate"]
    /\ UNCHANGED <<guardVars, authz, queue, current, readied, outcome, driverVars>>

(* set_ready(&tokens) is called. *)
BeginReady(s) ==
    /\ pc' = [pc EXCEPT ![s] = "ready"]
    /\ targets' = [targets EXCEPT ![s] = tokens[s]]

Sleep(s) ==
    /\ pc[s] = "sleep"
    /\ BeginReady(s)
    /\ UNCHANGED <<guardVars, authz, queue, current, readied, outcome, queueError, tokens, confirmed, visited>>

(* wait_for_propagation for each pending record in turn. *)
WaitForPropagation(s) ==
    /\ pc[s] = "propagate"
    /\ \/ /\ confirmed[s] < Len(pending[s])
          /\ pending[s][confirmed[s] + 1] \in inPlace
          /\ confirmed' = [confirmed EXCEPT ![s] = @ + 1]
          /\ UNCHANGED <<pc, outcome, targets>>
       \/ /\ confirmed[s] < Len(pending[s])
          /\ FailWith(s)
          /\ UNCHANGED <<confirmed, targets>>
       \/ /\ confirmed[s] = Len(pending[s])
          /\ BeginReady(s)
          /\ UNCHANGED <<confirmed, outcome>>
    /\ UNCHANGED <<guardVars, authz, queue, current, readied, queueError, tokens, visited>>

(* set_ready's pass over the authorizations.  One may fail to be read, its
   challenge may have gone, and telling the CA may fail after the CA heard. *)
SetReady(s) ==
    LET i == visited[s] + 1 IN
    /\ pc[s] = "ready"
    /\ \/ /\ i <= N
          /\ visited' = [visited EXCEPT ![s] = i]
          /\ \/ /\ i \in targets[s]
                /\ readied' = [readied EXCEPT ![s] = @ \cup {i}]
                /\ targets' = [targets EXCEPT ![s] = @ \ {i}]
             \/ UNCHANGED <<readied, targets>>
          /\ UNCHANGED <<pc, outcome>>
       \/ /\ i <= N
          /\ readied' \in {readied} \cup {[readied EXCEPT ![s] = @ \cup ({i} \cap targets[s])]}
          /\ FailWith(s)
          /\ UNCHANGED <<visited, targets>>
       \/ /\ i > N /\ targets[s] = {}
          /\ pc' = [pc EXCEPT ![s] = "finalize"]
          /\ UNCHANGED <<readied, visited, targets, outcome>>
       \/ /\ i > N /\ targets[s] # {}
          /\ FailWith(s)
          /\ UNCHANGED <<readied, visited, targets>>
    /\ UNCHANGED <<guardVars, authz, queue, current, queueError, tokens, confirmed>>

Shared(s) == Finalize(s) \/ Teardown(s) \/ DropSolve(s) \/ SpawnedTask(s) \/ Validate(s)

Next ==
    \/ \E s \in Solves :
          \/ Collect(s) \/ NextChallenge(s) \/ NextError(s) \/ Present(s)
          \/ AllPresented(s) \/ Sleep(s) \/ WaitForPropagation(s) \/ SetReady(s)
          \/ Shared(s) /\ UNCHANGED driverVars
    \/ (Shutdown \/ LateCall) /\ UNCHANGED driverVars

Spec == Init /\ [][Next]_vars

(* Requests time out, propagation has a deadline and polling the CA a retry
   policy, so every await of a solve ends; the runtime runs spawned tasks. *)
Fairness == \A s \in Solves :
    /\ WF_vars(Collect(s) \/ NextChallenge(s) \/ NextError(s) \/ Present(s) \/ AllPresented(s))
    /\ WF_vars(Sleep(s) \/ WaitForPropagation(s) \/ SetReady(s))
    /\ WF_vars((Finalize(s) \/ Teardown(s) \/ SpawnedTask(s)) /\ UNCHANGED driverVars)

FairSpec == Spec /\ Fairness

-----------------------------------------------------------------------------

(* solver.rs:168-170: no challenge is set ready before every record of the
   order was placed, and seen in DNS unless the check is skipped. *)
ReadyWaitsForAll ==
    \A s \in Solves : readied[s] # {} =>
        /\ queue[s] = {} /\ ~queueError[s]
        /\ readied[s] \subseteq tokens[s]
        /\ SkipCheck[s] \/ confirmed[s] = Cardinality(tokens[s])
=============================================================================
