----------------------------- MODULE KeyedMutex ------------------------------
(***************************************************************************)
(* providers/common.rs: KeyedMutex, the process-wide table of async        *)
(* mutexes that serializes the GET -> merge -> PUT of a record.            *)
(*                                                                         *)
(* The table maps a key to an Arc of a mutex.  `lock` prunes, looks up or  *)
(* inserts, and clones the Arc under the table's std mutex (one action),   *)
(* then awaits the async mutex outside of it.  A task that is given the    *)
(* guard keeps its Arc; dropping the guard first gives the permit back and *)
(* only then drops the Arc, and a prune may come in between.  A future may *)
(* be dropped while it waits, and also after it was handed the permit but  *)
(* before it was polled again.                                             *)
(***************************************************************************)
EXTENDS Naturals, Sequences, FiniteSets

CONSTANTS Tasks,     \* tasks that call KeyedMutex::lock
          Keys,      \* "{namespace}|{key}"
          Mutexes,   \* heap cells an Arc<AsyncMutex<()>> can live in
          NoTask, NoMutex

ASSUME TasksAssumption == IsFiniteSet(Tasks)
ASSUME NoTaskAssumption == NoTask \notin Tasks
ASSUME NoMutexAssumption == NoMutex \notin Mutexes

VARIABLES
    table,    \* table[k]: the mutex of key k in the HashMap, or NoMutex
    pc,       \* where each task is in `lock` or in the life of its guard
    key,      \* the key the task asked for
    arc,      \* the mutex the task's own Arc points to, or NoMutex
    owner,    \* owner[m]: the task that has m's single permit, or NoTask
    waiters   \* waiters[m]: the semaphore's queue, first come first served

vars == <<table, pc, key, arc, owner, waiters>>

(***************************************************************************)
(* "idle"      not in `lock`, no guard                                     *)
(* "entry"     has cloned the Arc, has not polled lock_owned yet           *)
(* "waiting"   in the semaphore's queue, or handed the permit but not woken *)
(* "held"      has the OwnedMutexGuard                                     *)
(* "released"  the permit is given back, the Arc not dropped yet           *)
(***************************************************************************)
States == {"idle", "entry", "waiting", "held", "released"}

TypeOK ==
    /\ table \in [Keys -> Mutexes \cup {NoMutex}]
    /\ pc \in [Tasks -> States]
    /\ key \in [Tasks -> Keys]
    /\ arc \in [Tasks -> Mutexes \cup {NoMutex}]
    /\ owner \in [Mutexes -> Tasks \cup {NoTask}]
    /\ waiters \in [Mutexes -> Seq(Tasks)]

Init ==
    /\ table = [k \in Keys |-> NoMutex]
    /\ pc = [t \in Tasks |-> "idle"]
    /\ key \in [Tasks -> Keys]
    /\ arc = [t \in Tasks |-> NoMutex]
    /\ owner = [m \in Mutexes |-> NoTask]
    /\ waiters = [m \in Mutexes |-> << >>]

-----------------------------------------------------------------------------

(* Arc::strong_count(m) > 1 for a mutex of the table: some task has a clone. *)
Shared(m) == \E t \in Tasks : arc[t] = m

(* Mutant: the prune keeps an entry only while two tasks have it. *)
RetainedOffByOne ==
    [k \in Keys |-> IF Cardinality({t \in Tasks : arc[t] = table[k]}) > 1
                    THEN table[k] ELSE NoMutex]

(* Mutant: no prune. *)
RetainedAll == table

(* map.retain: the entries nobody holds or waits on go. *)
Retained == [k \in Keys |-> IF Shared(table[k]) THEN table[k] ELSE NoMutex]

(* A cell that no table entry and no task refers to. *)
Fresh(tab, m) == (\A k \in Keys : tab[k] # m) /\ ~Shared(m)

(* KeyedMutex::lock up to the end of the block that holds the table: prune,
   entry().or_insert_with(), clone. *)
Enter(t, k) ==
    /\ pc[t] = "idle"
    /\ pc' = [pc EXCEPT ![t] = "entry"]
    /\ key' = [key EXCEPT ![t] = k]
    /\ \/ /\ Retained[k] # NoMutex
          /\ table' = Retained
          /\ arc' = [arc EXCEPT ![t] = Retained[k]]
          /\ UNCHANGED <<owner, waiters>>
       \/ /\ Retained[k] = NoMutex
          /\ \E m \in Mutexes :
                /\ Fresh(Retained, m)
                /\ table' = [Retained EXCEPT ![k] = m]
                /\ arc' = [arc EXCEPT ![t] = m]
                /\ owner' = [owner EXCEPT ![m] = NoTask]
                /\ waiters' = [waiters EXCEPT ![m] = << >>]

(* First poll of lock_owned(): the permit if it is free, else the queue. *)
Poll(t) ==
    /\ pc[t] = "entry"
    /\ \/ /\ owner[arc[t]] = NoTask
          /\ owner' = [owner EXCEPT ![arc[t]] = t]
          /\ pc' = [pc EXCEPT ![t] = "held"]
          /\ UNCHANGED waiters
       \/ /\ owner[arc[t]] # NoTask
          /\ waiters' = [waiters EXCEPT ![arc[t]] = Append(@, t)]
          /\ pc' = [pc EXCEPT ![t] = "waiting"]
          /\ UNCHANGED owner
    /\ UNCHANGED <<table, key, arc>>

(* The waiter that was handed the permit is polled again: lock() returns. *)
Wake(t) ==
    /\ pc[t] = "waiting"
    /\ owner[arc[t]] = t
    /\ pc' = [pc EXCEPT ![t] = "held"]
    /\ UNCHANGED <<table, key, arc, owner, waiters>>

(* Mutant: the permit is freed although somebody is queued for it. *)
GiveBackToNobody(m) ==
    /\ owner' = [owner EXCEPT ![m] = NoTask]
    /\ UNCHANGED waiters

(* Giving m's permit back: the first waiter gets it, ahead of any newcomer. *)
GiveBack(m) ==
    \/ /\ waiters[m] = << >>
       /\ owner' = [owner EXCEPT ![m] = NoTask]
       /\ UNCHANGED waiters
    \/ /\ waiters[m] # << >>
       /\ owner' = [owner EXCEPT ![m] = Head(waiters[m])]
       /\ waiters' = [waiters EXCEPT ![m] = Tail(@)]

(* The queue q without its i-th waiter. *)
Unlinked(q, i) == SubSeq(q, 1, i - 1) \o SubSeq(q, i + 1, Len(q))

(* Drop of the OwnedMutexGuard, at the end of the operation or because the
   future that owns it is dropped: the permit first. *)
Release(t) ==
    /\ pc[t] = "held"
    /\ GiveBack(arc[t])
    /\ pc' = [pc EXCEPT ![t] = "released"]
    /\ UNCHANGED <<table, key, arc>>

(* ... then the Arc. *)
DropArc(t) ==
    /\ pc[t] = "released"
    /\ pc' = [pc EXCEPT ![t] = "idle"]
    /\ arc' = [arc EXCEPT ![t] = NoMutex]
    /\ UNCHANGED <<table, key, owner, waiters>>

(* The future is dropped before lock() returned.  In the queue, the waiter is
   unlinked; already handed the permit, it passes it on; the Arc goes last. *)
Cancel(t) ==
    /\ \/ /\ pc[t] = "entry"
          /\ UNCHANGED <<owner, waiters>>
       \/ /\ pc[t] = "waiting"
          /\ owner[arc[t]] # t
          /\ \E i \in 1..Len(waiters[arc[t]]) :
                /\ waiters[arc[t]][i] = t
                /\ waiters' = [waiters EXCEPT ![arc[t]] = Unlinked(@, i)]
          /\ UNCHANGED owner
       \/ /\ pc[t] = "waiting"
          /\ owner[arc[t]] = t
          /\ GiveBack(arc[t])
    /\ pc' = [pc EXCEPT ![t] = "released"]
    /\ UNCHANGED <<table, key, arc>>

Next ==
    \E t \in Tasks :
        \/ \E k \in Keys : Enter(t, k)
        \/ Poll(t)
        \/ Wake(t)
        \/ Release(t)
        \/ DropArc(t)
        \/ Cancel(t)

Spec == Init /\ [][Next]_vars

(* The runtime polls a future that can make progress, and a guard is dropped:
   every request made under it has a timeout. *)
Fairness == \A t \in Tasks :
    WF_vars(Poll(t)) /\ WF_vars(Wake(t)) /\ WF_vars(Release(t)) /\ WF_vars(DropArc(t))

FairSpec == Spec /\ Fairness

-----------------------------------------------------------------------------

(* common.rs:121: "Serializes operations sharing the same key".  Two tasks
   never hold guards of the same key, although the table may have dropped and
   re-created the key's entry since the first of them locked it. *)
MutualExclusion ==
    \A t, u \in Tasks :
        pc[t] = "held" /\ pc[u] = "held" /\ key[t] = key[u] => t = u

(* common.rs:150: the prune never drops the entry of a mutex somebody still
   holds, waits on or is about to wait on, so a key has one mutex at a time. *)
OneMutexPerKey ==
    \A t \in Tasks : pc[t] # "idle" => arc[t] # NoMutex /\ table[key[t]] = arc[t]

(* common.rs:148: "so the table does not grow with every name ever locked".
   The table never has more entries than there are tasks. *)
TableBounded ==
    Cardinality({k \in Keys : table[k] # NoMutex}) <= Cardinality(Tasks)

(* The permit is never lost by a future dropped while it waits (common.rs:155):
   it belongs to a task that holds the guard or is about to be woken with it,
   and a task that waits without it is queued behind such a task. *)
PermitNotLost ==
    /\ \A m \in Mutexes :
          owner[m] # NoTask => /\ arc[owner[m]] = m
                              /\ pc[owner[m]] \in {"held", "waiting"}
    /\ \A t \in Tasks :
          pc[t] = "waiting" /\ owner[arc[t]] # t =>
              /\ owner[arc[t]] # NoTask
              /\ \E i \in 1..Len(waiters[arc[t]]) : waiters[arc[t]][i] = t

(* Tasks that have the guard of key k: the state of KeyedLock. *)
HoldersOf == [k \in Keys |-> {t \in Tasks : pc[t] = "held" /\ key[t] = k}]

Lock == INSTANCE KeyedLock WITH holders <- HoldersOf

(* KeyedMutex implements the abstract per-key lock the providers rely on. *)
ImplementsKeyedLock == Lock!Spec

(* A task that asked for a key gets its guard, unless its future is dropped:
   the queue is served in order, so no stream of newcomers starves it. *)
EveryLockServed ==
    \A t \in Tasks :
        pc[t] \in {"entry", "waiting"} ~> pc[t] \in {"held", "released"}
=============================================================================
