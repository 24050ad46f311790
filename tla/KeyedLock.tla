------------------------------ MODULE KeyedLock ------------------------------
(***************************************************************************)
(* What KeyedMutex promises to the providers: for every key, the guard is  *)
(* in the hands of at most one task, which got it while nobody else had    *)
(* it.  Nothing is said about the lock table, the waiters or the order in  *)
(* which they are served.                                                  *)
(***************************************************************************)
CONSTANTS Tasks, Keys

VARIABLE holders  \* holders[k]: the tasks that have the guard of key k

Init == holders = [k \in Keys |-> {}]

Acquire(t, k) == /\ holders[k] = {}
                 /\ holders' = [holders EXCEPT ![k] = {t}]

Release(t, k) == /\ holders[k] = {t}
                 /\ holders' = [holders EXCEPT ![k] = {}]

Next == \E t \in Tasks, k \in Keys : Acquire(t, k) \/ Release(t, k)

Spec == Init /\ [][Next]_holders
=============================================================================
