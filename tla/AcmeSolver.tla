----------------------------- MODULE AcmeSolver ------------------------------
(***************************************************************************)
(* What the two solvers share: the ACME order behind them, the end of a    *)
(* solve (finalize, then the guard's run), and the drop of its future.     *)
(*                                                                         *)
(* The CA is external.  Its view of an order is `authz`, one status per    *)
(* authorization: "pending", "valid", "invalid" (every other status), or   *)
(* "unusable" (pending, but not a DNS identifier, or without a challenge   *)
(* of the solver's type).                                                  *)
(***************************************************************************)
EXTENDS CleanupGuard

CONSTANTS N,       \* authorizations in an order
          ItemOf   \* ItemOf[s][i]: what proves authorization i of solve s

ASSUME NAssumption == N \in Nat
ASSUME ItemOfAssumption == ItemOf \in [Solves -> [1..N -> Items]]

VARIABLES
    pc,       \* where each solve is
    authz,    \* authz[s]: the authorizations of its order
    queue,    \* queue[s]: challenges collected and not yet taken
    current,  \* current[s]: the challenge being worked on, or 0
    readied,  \* readied[s]: the challenges the CA was told to validate
    outcome   \* outcome[s]: what the solve returns

solverVars == <<pc, authz, queue, current, readied, outcome>>

Statuses == {"pending", "valid", "invalid", "unusable"}

SolverTypeOK(states) ==
    /\ GuardTypeOK
    /\ pc \in [Solves -> states]
    /\ authz \in [Solves -> [1..N -> Statuses]]
    /\ queue \in [Solves -> SUBSET (1..N)]
    /\ current \in [Solves -> 0..N]
    /\ readied \in [Solves -> SUBSET (1..N)]
    /\ outcome \in [Solves -> {"none", "ok", "err"}]

SolverInit ==
    /\ GuardInit
    /\ pc = [s \in Solves |-> "collect"]
    /\ authz \in [Solves -> [1..N -> Statuses]]
    /\ queue = [s \in Solves |-> {}]
    /\ current = [s \in Solves |-> 0]
    /\ readied = [s \in Solves |-> {}]
    /\ outcome = [s \in Solves |-> "none"]

(* Reading the authorizations in order ends at k, because k cannot be fetched
   or is of no use, or at N + 1 after all of them. *)
StopsAt(s, k) == \A i \in 1..N : i < k => authz[s][i] \in {"pending", "valid"}
ReadsAll(s) == StopsAt(s, N + 1)
PendingBefore(s, k) == {i \in 1..N : i < k /\ authz[s][i] = "pending"}

(* The first challenge of the queue. *)
IsNext(s, i) == i \in queue[s] /\ \A j \in queue[s] : i <= j

(* An error of any step before the end: on to the guard's run. *)
FailWith(s) ==
    /\ pc' = [pc EXCEPT ![s] = "run"]
    /\ outcome' = [outcome EXCEPT ![s] = "err"]

(* finalize: the order is ready once every authorization is valid; polling,
   finalizing or fetching the certificate may fail. *)
Finalize(s) ==
    /\ pc[s] = "finalize"
    /\ \/ /\ \A i \in 1..N : authz[s][i] = "valid"
          /\ pc' = [pc EXCEPT ![s] = "run"]
          /\ outcome' = [outcome EXCEPT ![s] = "ok"]
       \/ FailWith(s)
    /\ UNCHANGED <<guardVars, authz, queue, current, readied>>

(* placed.run().await, then the outcome is returned. *)
Teardown(s) ==
    /\ pc[s] = "run"
    /\ \/ /\ RunStep(s)
          /\ UNCHANGED pc
       \/ /\ pending[s] = <<>>
          /\ pc' = [pc EXCEPT ![s] = "done"]
          /\ UNCHANGED guardVars
    /\ UNCHANGED <<authz, queue, current, readied, outcome>>

Gone == {"done", "dropped"}

(* The provider call the solve is waiting for. *)
InFlight(s) ==
    IF pc[s] = "present" THEN {[op |-> "present", item |-> ItemOf[s][current[s]]]}
    ELSE IF pc[s] = "run" /\ pending[s] # <<>>
         THEN {[op |-> "cleanup", item |-> Head(pending[s])]}
    ELSE {}

(* The solving future is dropped at whatever await it has reached. *)
DropSolve(s) ==
    /\ pc[s] \notin Gone
    /\ Drop(s, InFlight(s))
    /\ pc' = [pc EXCEPT ![s] = "dropped"]
    /\ UNCHANGED <<authz, queue, current, readied, outcome>>

SpawnedTask(s) == SpawnedStep(s) /\ UNCHANGED solverVars

Shutdown ==
    /\ RuntimeStops(UNION {InFlight(s) : s \in Solves})
    /\ pc' = [s \in Solves |-> IF pc[s] = "done" THEN "done" ELSE "dropped"]
    /\ UNCHANGED <<authz, queue, current, readied, outcome>>

LateCall == Land /\ UNCHANGED solverVars

(* The CA looks for the proof of a challenge it was told is ready. *)
Validate(s) ==
    /\ \E i \in readied[s] :
          /\ authz[s][i] = "pending"
          /\ authz' = [authz EXCEPT ![s][i] = IF ItemOf[s][i] \in inPlace THEN "valid" ELSE "invalid"]
    /\ UNCHANGED <<guardVars, pc, queue, current, readied, outcome>>

-----------------------------------------------------------------------------

(* Another solve whose order has the same challenge has begun its teardown:
   nothing counts the users of a record. *)
Withdrawn(s, item) ==
    \E u \in Solves \ {s} :
        pc[u] \in {"run"} \cup Gone /\ \E i \in 1..N : ItemOf[u][i] = item

(* solver.rs:168-170, tls_alpn.rs:183-184: until a solve starts to tear down,
   every challenge that it set ready, and that the CA has yet to look at, has
   its proof in place.  Only a solve that shares the challenge can take it
   away. *)
ProofStaysInPlace ==
    \A s \in Solves : pc[s] \notin {"run"} \cup Gone =>
        \A i \in readied[s] : authz[s][i] = "pending" =>
            ItemOf[s][i] \in inPlace \/ Withdrawn(s, ItemOf[s][i])

(* solver.rs:127-133, tls_alpn.rs:143-149: every solve ends, and every item it
   pushed has had its cleanup by then, or gets it from the spawned task. *)
EverySolveTornDown ==
    \A s \in Solves : <>[](pc[s] \in Gone /\ pending[s] = <<>> /\ spawned[s] = <<>>)
=============================================================================
