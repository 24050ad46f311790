---------------------------- MODULE ProviderCall -----------------------------
(***************************************************************************)
(* The part of `present` and `cleanup` that every HTTP provider shares:    *)
(* check the arguments and resolve the zone, take the KeyedMutex guard of  *)
(* the record, and drop it when the call returns or its future is dropped. *)
(*                                                                         *)
(* One record (one lock key) is modelled; its lock is KeyedLock's, which   *)
(* KeyedMutex implements.                                                  *)
(***************************************************************************)
EXTENDS Naturals, FiniteSets

CONSTANTS Tasks,     \* callers sharing one record
          Values,    \* ACME challenge values (apex and wildcard share a name)
          MaxCalls,  \* bound on the number of calls
          MaxLate,   \* bound on the requests in flight after their caller left
          NoTask

ASSUME NoTaskAssumption == NoTask \notin Tasks
ASSUME ValuesAssumption == Values # {}
ASSUME BoundsAssumption == MaxCalls \in Nat /\ MaxLate \in Nat

VARIABLES
    pc,        \* where each task is; "idle" between calls
    call,      \* call[t]: the operation and its value
    lock,      \* the task that has the record's guard, or NoTask
    calls,     \* number of calls so far
    result,    \* how the last call of each task ended
    done,      \* done[t]: the call of t already had its effect on the zone
    late       \* requests nobody waits for any more that may still be applied

callVars == <<pc, call, lock, calls, result, done, late>>

Ops == {"present", "cleanup"}
Calls == [op : Ops, val : Values]

CallTypeOK(states) ==
    /\ pc \in [Tasks -> states]
    /\ call \in [Tasks -> Calls]
    /\ lock \in Tasks \cup {NoTask}
    /\ calls \in 0..MaxCalls
    /\ result \in [Tasks -> {"none", "ok", "err", "dropped"}]
    /\ done \in [Tasks -> BOOLEAN]

CallInit ==
    /\ pc = [t \in Tasks |-> "idle"]
    /\ call = [t \in Tasks |-> CHOOSE c \in Calls : TRUE]
    /\ lock = NoTask
    /\ calls = 0
    /\ result = [t \in Tasks |-> "none"]
    /\ done = [t \in Tasks |-> FALSE]
    /\ late = {}

(* A solver, or its cleanup guard, calls the provider. *)
Begin(t) ==
    /\ pc[t] = "idle"
    /\ calls < MaxCalls
    /\ call' \in {[call EXCEPT ![t] = c] : c \in Calls}
    /\ pc' = [pc EXCEPT ![t] = "resolve"]
    /\ calls' = calls + 1
    /\ result' = [result EXCEPT ![t] = "none"]
    /\ UNCHANGED <<lock, done, late>>

(* validate_fqdn, validate_acme_value, resolve_zone and relative_name came to
   an answer: nothing was written yet. *)
Resolved(t) ==
    /\ pc[t] = "resolve"
    /\ pc' = [pc EXCEPT ![t] = "lock"]
    /\ UNCHANGED <<call, lock, calls, result, done, late>>

(* Mutant: the call goes on without the guard. *)
AcquireUnlocked(t) ==
    /\ pc[t] = "lock"
    /\ pc' = [pc EXCEPT ![t] = "fetch"]
    /\ UNCHANGED <<call, lock, calls, result, done, late>>

(* self.locks.lock(..).await returns the guard. *)
Acquire(t) ==
    /\ pc[t] = "lock"
    /\ lock = NoTask
    /\ lock' = t
    /\ pc' = [pc EXCEPT ![t] = "fetch"]
    /\ UNCHANGED <<call, calls, result, done, late>>

(* The call goes on to another request. *)
Goto(t, state) ==
    /\ pc' = [pc EXCEPT ![t] = state]
    /\ UNCHANGED <<call, lock, calls, result, late>>

(* The call returns, or its future is dropped, and its guard goes with it. *)
Finish(t, res) ==
    /\ pc' = [pc EXCEPT ![t] = "idle"]
    /\ lock' = IF lock = t THEN NoTask ELSE lock
    /\ result' = [result EXCEPT ![t] = res]
    /\ done' = [done EXCEPT ![t] = FALSE]
    /\ UNCHANGED <<call, calls>>

Return(t, res) == Finish(t, res) /\ UNCHANGED late

(* The caller leaves while request r is in flight: it may arrive later. *)
Abandon(t, res, r) ==
    /\ Cardinality(late) < MaxLate
    /\ late' = late \cup {[call |-> call[t], req |-> r]}
    /\ Finish(t, res)

(* The calls in progress, as TxtRecord has them. *)
Running == [t \in Tasks |->
    IF pc[t] = "idle" THEN [op |-> "none"]
    ELSE [op |-> call[t].op, val |-> call[t].val, done |-> done[t]]]

(* The calls given up, as TxtRecord has them. *)
Orphans == {l.call : l \in late}
=============================================================================
