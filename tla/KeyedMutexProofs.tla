--------------------------- MODULE KeyedMutexProofs --------------------------
(***************************************************************************)
(* KeyedMutex excludes, for any sets of tasks, keys and mutexes.           *)
(*                                                                         *)
(* MutualExclusion is not inductive: it speaks of keys, and the permit is a *)
(* matter of mutexes.  It follows from two facts that are: every task in   *)
(* `lock` or with a guard refers to the mutex the table has for its key    *)
(* (the prune spares it), and a task with a guard owns the permit of the   *)
(* mutex it refers to.                                                     *)
(***************************************************************************)
EXTENDS KeyedMutex, FiniteSetTheorems, TLAPS

(* common.rs:127: "unrelated providers never wait on each other".  Different
   keys never share a mutex, even when a freed cell is reused. *)
KeysIndependent ==
    \A j, k \in Keys : table[j] # NoMutex /\ table[j] = table[k] => j = k

(* A task with the guard has the permit of its mutex. *)
HeldOwnsPermit == \A t \in Tasks : pc[t] = "held" => owner[arc[t]] = t

IInv == TypeOK /\ OneMutexPerKey /\ KeysIndependent /\ HeldOwnsPermit

(* What the prune keeps: the entry of every task that refers to a mutex. *)
LEMMA RetainedFacts ==
    ASSUME TypeOK, OneMutexPerKey
    PROVE  /\ Retained \in [Keys -> Mutexes \cup {NoMutex}]
           /\ \A t \in Tasks : pc[t] # "idle" => Retained[key[t]] = arc[t]
           /\ \A k \in Keys : Retained[k] # NoMutex => Retained[k] = table[k]
BY Zenon DEF TypeOK, OneMutexPerKey, Retained, Shared

(* Unlinking a waiter leaves a queue of tasks. *)
LEMMA UnlinkedType ==
    ASSUME NEW q \in Seq(Tasks), NEW i \in 1..Len(q)
    PROVE  Unlinked(q, i) \in Seq(Tasks)
<1>1. SubSeq(q, 1, i - 1) \in Seq(Tasks)
  OBVIOUS
<1>2. SubSeq(q, i + 1, Len(q)) \in Seq(Tasks)
  OBVIOUS
<1> QED  BY <1>1, <1>2 DEF Unlinked

(* Giving a permit back keeps owners and queues well typed, and changes the
   owner of one mutex only. *)
LEMMA GiveBackFacts ==
    ASSUME TypeOK, NEW m \in Mutexes, GiveBack(m)
    PROVE  /\ owner' \in [Mutexes -> Tasks \cup {NoTask}]
           /\ waiters' \in [Mutexes -> Seq(Tasks)]
           /\ \A n \in Mutexes : n # m => owner'[n] = owner[n]
<1>1. CASE waiters[m] = << >>
  BY <1>1, Zenon DEF GiveBack, TypeOK
<1>2. CASE waiters[m] # << >>
  <2>1. Head(waiters[m]) \in Tasks /\ Tail(waiters[m]) \in Seq(Tasks)
    BY <1>2 DEF TypeOK
  <2> QED  BY <1>2, <2>1, ZenonT(30) DEF GiveBack, TypeOK
<1> QED  BY <1>1, <1>2, Zenon

(* The table of a new provider is empty. *)
LEMMA InitIInv == Init => IInv
BY DEF Init, IInv, TypeOK, OneMutexPerKey, KeysIndependent, HeldOwnsPermit, States

(* Every poll of lock, every drop of a guard or of a waiting future keeps the
   invariant: one step per action. *)
LEMMA NextIInv == IInv /\ [Next]_vars => IInv'
<1> SUFFICES ASSUME IInv, [Next]_vars PROVE IInv'
  BY Zenon
<1> USE NoMutexAssumption, NoTaskAssumption DEF IInv
<1>1. ASSUME NEW t \in Tasks, NEW k \in Keys, Enter(t, k) PROVE IInv'
  <2>1. CASE Retained[k] # NoMutex
    <3>1. Retained[k] \in Mutexes
      BY <2>1, RetainedFacts, Zenon
    <3>2. table' = Retained /\ arc' = [arc EXCEPT ![t] = Retained[k]] /\ UNCHANGED <<owner, waiters>>
      BY <1>1, <2>1, Zenon DEF Enter
    <3>3. TypeOK'
      BY <1>1, <3>1, <3>2, RetainedFacts, Zenon DEF Enter, TypeOK, States
    <3>4. OneMutexPerKey'
      BY <1>1, <3>1, <3>2, RetainedFacts, Zenon DEF Enter, TypeOK, OneMutexPerKey
    <3>5. KeysIndependent'
      BY <3>2, RetainedFacts, ZenonT(30) DEF KeysIndependent
    <3>6. HeldOwnsPermit'
      BY <1>1, <3>2, Zenon DEF Enter, TypeOK, HeldOwnsPermit
    <3> QED  BY <3>3, <3>4, <3>5, <3>6, Zenon
  <2>2. CASE Retained[k] = NoMutex
    <3>1. PICK m \in Mutexes :
             /\ Fresh(Retained, m)
             /\ table' = [Retained EXCEPT ![k] = m]
             /\ arc' = [arc EXCEPT ![t] = m]
             /\ owner' = [owner EXCEPT ![m] = NoTask]
             /\ waiters' = [waiters EXCEPT ![m] = << >>]
      BY <1>1, <2>2, Zenon DEF Enter
    <3>2. TypeOK'
      BY <1>1, <3>1, RetainedFacts DEF Enter, TypeOK, States
    <3>3. OneMutexPerKey'
      <4>1. \A u \in Tasks : pc[u] # "idle" => key[u] # k
        BY <2>2, RetainedFacts, Zenon DEF OneMutexPerKey
      <4> QED  BY <1>1, <3>1, <4>1, RetainedFacts, ZenonT(30) DEF Enter, TypeOK, OneMutexPerKey
    <3>4. KeysIndependent'
      BY <3>1, RetainedFacts, ZenonT(90) DEF KeysIndependent, Fresh
    <3>5. HeldOwnsPermit'
      BY <1>1, <3>1, ZenonT(90) DEF Enter, TypeOK, OneMutexPerKey, HeldOwnsPermit, Fresh, Shared
    <3> QED  BY <3>2, <3>3, <3>4, <3>5, Zenon
  <2> QED  BY <2>1, <2>2, Zenon
<1>2. ASSUME NEW t \in Tasks, Poll(t) PROVE IInv'
  <2>1. arc[t] \in Mutexes
    BY <1>2, Zenon DEF Poll, TypeOK, OneMutexPerKey
  <2>2. TypeOK'
    <3>1. Append(waiters[arc[t]], t) \in Seq(Tasks)
      BY <2>1 DEF TypeOK
    <3>2. CASE owner[arc[t]] = NoTask
      BY <1>2, <2>1, <3>2, ZenonT(90) DEF Poll, TypeOK, States
    <3>3. CASE owner[arc[t]] # NoTask
      <4>1. waiters' = [waiters EXCEPT ![arc[t]] = Append(waiters[arc[t]], t)] /\ UNCHANGED owner
        BY <1>2, <3>3, Zenon DEF Poll
      <4>2. waiters' \in [Mutexes -> Seq(Tasks)]
        BY <3>1, <4>1, Zenon DEF TypeOK
      <4> QED  BY <1>2, <3>3, <4>1, <4>2, Zenon DEF Poll, TypeOK, States
    <3> QED  BY <3>2, <3>3, Zenon
  <2>3. OneMutexPerKey' /\ KeysIndependent'
    BY <1>2, Zenon DEF Poll, TypeOK, OneMutexPerKey, KeysIndependent
  <2>4. HeldOwnsPermit'
    BY <1>2, <2>1 DEF Poll, TypeOK, OneMutexPerKey, HeldOwnsPermit
  <2> QED  BY <2>2, <2>3, <2>4, Zenon
<1>3. ASSUME NEW t \in Tasks, Wake(t) PROVE IInv'
  BY <1>3, Zenon DEF Wake, TypeOK, States, OneMutexPerKey, KeysIndependent, HeldOwnsPermit
<1>4. ASSUME NEW t \in Tasks, Release(t) PROVE IInv'
  <2>1. arc[t] \in Mutexes
    BY <1>4, Zenon DEF Release, TypeOK, OneMutexPerKey
  <2>2. TypeOK'
    BY <1>4, <2>1, GiveBackFacts, Zenon DEF Release, TypeOK, States
  <2>3. OneMutexPerKey' /\ KeysIndependent'
    BY <1>4, Zenon DEF Release, TypeOK, OneMutexPerKey, KeysIndependent
  <2>4. HeldOwnsPermit'
    <3> SUFFICES ASSUME NEW u \in Tasks, pc'[u] = "held" PROVE owner'[arc'[u]] = u
      BY Zenon DEF HeldOwnsPermit
    <3>1. u # t /\ pc[u] = "held" /\ pc[t] = "held" /\ arc' = arc
      BY <1>4, Zenon DEF Release, TypeOK
    <3>2. owner[arc[u]] = u /\ arc[u] # arc[t] /\ arc[u] \in Mutexes
      BY <3>1, Zenon DEF HeldOwnsPermit, OneMutexPerKey, TypeOK
    <3> QED  BY <1>4, <2>1, <3>1, <3>2, GiveBackFacts, Zenon DEF Release
  <2> QED  BY <2>2, <2>3, <2>4
<1>5. ASSUME NEW t \in Tasks, DropArc(t) PROVE IInv'
  BY <1>5, Zenon DEF DropArc, TypeOK, States, OneMutexPerKey, KeysIndependent, HeldOwnsPermit
<1>6. ASSUME NEW t \in Tasks, Cancel(t) PROVE IInv'
  <2>1. arc[t] \in Mutexes /\ pc[t] # "held"
    BY <1>6, Zenon DEF Cancel, TypeOK, OneMutexPerKey
  <2>2. /\ owner' \in [Mutexes -> Tasks \cup {NoTask}]
        /\ waiters' \in [Mutexes -> Seq(Tasks)]
        /\ \A u \in Tasks : pc[u] = "held" => owner'[arc[u]] = u
    <3>1. CASE UNCHANGED <<owner, waiters>>
      BY <3>1, Zenon DEF TypeOK, HeldOwnsPermit
    <3>2. ASSUME NEW i \in 1..Len(waiters[arc[t]]),
                 waiters' = [waiters EXCEPT ![arc[t]] = Unlinked(@, i)],
                 UNCHANGED owner
          PROVE  <2>2!1 /\ <2>2!2 /\ <2>2!3
      BY <2>1, <3>2, UnlinkedType, Zenon DEF TypeOK, HeldOwnsPermit
    <3>3. CASE owner[arc[t]] = t /\ GiveBack(arc[t])
      <4>1. ASSUME NEW u \in Tasks, pc[u] = "held" PROVE owner'[arc[u]] = u
        <5>1. owner[arc[u]] = u /\ arc[u] \in Mutexes /\ u # t
          BY <2>1, <4>1, Zenon DEF HeldOwnsPermit, OneMutexPerKey, TypeOK
        <5> QED  BY <2>1, <3>3, <5>1, GiveBackFacts, Zenon
      <4> QED  BY <2>1, <3>3, <4>1, GiveBackFacts, Zenon
    <3> QED  BY <1>6, <3>1, <3>2, <3>3, Zenon DEF Cancel
  <2>3. TypeOK'
    BY <1>6, <2>2, Zenon DEF Cancel, TypeOK, States
  <2>4. OneMutexPerKey' /\ KeysIndependent'
    BY <1>6, Zenon DEF Cancel, TypeOK, OneMutexPerKey, KeysIndependent
  <2>5. HeldOwnsPermit'
    BY <1>6, <2>2, Zenon DEF Cancel, TypeOK, HeldOwnsPermit
  <2> QED  BY <2>3, <2>4, <2>5
<1>7. CASE UNCHANGED vars
  BY <1>7, Zenon DEF vars, TypeOK, OneMutexPerKey, KeysIndependent, HeldOwnsPermit
<1> QED  BY <1>1, <1>2, <1>3, <1>4, <1>5, <1>6, <1>7, Zenon DEF Next

(* common.rs:121-156.  The inductive invariant holds throughout: it adds to the
   table's exactness that a guard goes with the permit of its mutex. *)
THEOREM Invariance == Spec => []IInv
BY InitIInv, NextIInv, PTL DEF Spec

(* One mutex per key and one permit per mutex make one guard per key. *)
LEMMA IInvExcludes == IInv => MutualExclusion
BY DEF IInv, OneMutexPerKey, HeldOwnsPermit, MutualExclusion

(* common.rs:121-156.  For any number of tasks, keys and mutexes, two tasks
   never hold guards of one key. *)
THEOREM MutexExcludes == Spec => []MutualExclusion
BY Invariance, IInvExcludes, PTL

(* common.rs:148-153.  The prune spares the mutex of every task that is in
   `lock` or has a guard. *)
THEOREM TableIsExact == Spec => []OneMutexPerKey
<1>1. IInv => OneMutexPerKey
  BY Zenon DEF IInv
<1> QED  BY <1>1, Invariance, PTL

(* A table whose entries are all in use, each by a task of its own, is no
   larger than the set of tasks. *)
LEMMA UsedTableBounded ==
    ASSUME NEW tab \in [Keys -> Mutexes \cup {NoMutex}], NEW held \in [Tasks -> Mutexes \cup {NoMutex}],
           \A k \in Keys : tab[k] # NoMutex => \E t \in Tasks : held[t] = tab[k],
           \A j, k \in Keys : tab[j] # NoMutex /\ tab[j] = tab[k] => j = k
    PROVE  Cardinality({k \in Keys : tab[k] # NoMutex}) <= Cardinality(Tasks)
<1> DEFINE S == {k \in Keys : tab[k] # NoMutex}
           f == [k \in S |-> CHOOSE t \in Tasks : held[t] = tab[k]]
<1>1. \A k \in S : f[k] \in Tasks /\ held[f[k]] = tab[k]
  BY Zenon
<1>2. f \in Injection(S, Tasks)
  BY <1>1 DEF Injection, IsInjective
<1> HIDE DEF f
<1> QED  BY <1>2, FS_Injection, TasksAssumption, Zenon

(* A task outside of `lock`, without a guard, refers to no mutex. *)
IdleHasNoArc == \A t \in Tasks : pc[t] = "idle" => arc[t] = NoMutex

(* common.rs:148-153.  For any number of keys, the table has no more entries
   than there are tasks: each prune leaves only the entries in use. *)
THEOREM TableStaysSmall == Spec => []TableBounded
<1>1. Init => TableBounded /\ IdleHasNoArc
  <2> SUFFICES ASSUME Init PROVE TableBounded /\ IdleHasNoArc
    BY Zenon
  <2>1. {k \in Keys : table[k] # NoMutex} = {}
    BY Zenon DEF Init
  <2>2. Cardinality({}) = 0 /\ Cardinality(Tasks) \in Nat
    BY FS_EmptySet, FS_CardinalityType, TasksAssumption, Zenon
  <2>3. TableBounded
    BY <2>1, <2>2 DEF TableBounded
  <2>4. IdleHasNoArc
    BY Zenon DEF Init, IdleHasNoArc
  <2> QED  BY <2>3, <2>4, Zenon
<1>2. IInv /\ IdleHasNoArc /\ [Next]_vars => IdleHasNoArc'
  BY ZenonT(30) DEF IInv, TypeOK, IdleHasNoArc, Next, vars, Enter, Poll, Wake, Release, DropArc, Cancel
<1>3. IInv /\ IInv' /\ IdleHasNoArc /\ TableBounded /\ [Next]_vars => TableBounded'
  <2> SUFFICES ASSUME IInv, IInv', IdleHasNoArc, TableBounded, [Next]_vars PROVE TableBounded'
    BY Zenon
  <2>1. ASSUME NEW t \in Tasks, NEW k \in Keys, Enter(t, k) PROVE TableBounded'
    <3>1. ASSUME NEW j \in Keys, table'[j] # NoMutex PROVE \E u \in Tasks : arc'[u] = table'[j]
      <4>1. pc[t] = "idle"
        BY <2>1, Zenon DEF Enter
      <4>2. CASE table'[j] = arc'[t]
        BY <4>2, Zenon
      <4>3. CASE table'[j] = Retained[j] /\ Retained[j] # arc'[t]
        <5>1. Shared(table[j]) /\ Retained[j] = table[j]
          BY <3>1, <4>3, Zenon DEF Retained
        <5>2. PICK u \in Tasks : arc[u] = table[j]
          BY <5>1, Zenon DEF Shared
        <5>3. CASE u = t
          BY <2>1, <3>1, <4>1, <4>3, <5>1, <5>2, <5>3, Zenon DEF IdleHasNoArc
        <5>4. CASE u # t
          BY <2>1, <4>3, <5>1, <5>2, <5>4, ZenonT(30) DEF Enter, IInv, TypeOK
        <5> QED  BY <5>3, <5>4, Zenon
      <4>4. table'[j] = Retained[j] \/ table'[j] = arc'[t]
        <5>1. Retained \in [Keys -> Mutexes \cup {NoMutex}] /\ arc \in [Tasks -> Mutexes \cup {NoMutex}]
          BY RetainedFacts, Zenon DEF IInv, TypeOK
        <5> HIDE DEF Retained
        <5> QED  BY <2>1, <5>1, ZenonT(30) DEF Enter
      <4> QED  BY <4>2, <4>3, <4>4, Zenon
    <3>2. /\ table' \in [Keys -> Mutexes \cup {NoMutex}] /\ arc' \in [Tasks -> Mutexes \cup {NoMutex}]
          /\ \A i, j \in Keys : table'[i] # NoMutex /\ table'[i] = table'[j] => i = j
      BY Zenon DEF IInv, TypeOK, KeysIndependent
    <3> QED  BY <3>1, <3>2, UsedTableBounded, Zenon DEF TableBounded
  <2>2. CASE UNCHANGED table
    BY <2>2, Zenon DEF TableBounded
  <2> QED  BY <2>1, <2>2, Zenon DEF Next, vars, Poll, Wake, Release, DropArc, Cancel
<1> QED  BY <1>1, <1>2, <1>3, Invariance, PTL DEF Spec

-----------------------------------------------------------------------------

(* The guards of one key change hands as in KeyedLock. *)
LEMMA NextRefines ==
    IInv /\ [Next]_vars => [Lock!Next]_HoldersOf
<1> SUFFICES ASSUME IInv, [Next]_vars PROVE [Lock!Next]_HoldersOf
  BY Zenon
<1> USE NoMutexAssumption, NoTaskAssumption
<1>a. TypeOK /\ OneMutexPerKey /\ HeldOwnsPermit /\ MutualExclusion
  BY IInvExcludes, Zenon DEF IInv
<1>b. ASSUME NEW t \in Tasks, pc[t] \in {"entry", "waiting"},
             owner[arc[t]] \in {NoTask, t}, pc' = [pc EXCEPT ![t] = "held"], UNCHANGED key
      PROVE  Lock!Next
  <2>1. HoldersOf[key[t]] = {} /\ key[t] \in Keys
    BY <1>a, <1>b, SMTT(30) DEF HoldersOf, TypeOK, OneMutexPerKey, HeldOwnsPermit
  <2>2. HoldersOf' = [HoldersOf EXCEPT ![key[t]] = {t}]
    <3>1. ASSUME NEW k \in Keys
          PROVE  {u \in Tasks : pc'[u] = "held" /\ key'[u] = k}
                   = IF k = key[t] THEN {t} ELSE {u \in Tasks : pc[u] = "held" /\ key[u] = k}
      BY <1>a, <1>b, <2>1, ZenonT(30) DEF HoldersOf, TypeOK
    <3> QED  BY <2>1, <3>1, ZenonT(30) DEF HoldersOf
  <2> QED  BY <2>1, <2>2, Zenon DEF Lock!Next, Lock!Acquire
<1>c. ASSUME NEW t \in Tasks, pc[t] # "held", pc'[t] # "held",
             \A u \in Tasks \ {t} : pc'[u] = pc[u] /\ key'[u] = key[u]
      PROVE  UNCHANGED HoldersOf
  <2>1. ASSUME NEW k \in Keys
        PROVE  {u \in Tasks : pc'[u] = "held" /\ key'[u] = k}
                 = {u \in Tasks : pc[u] = "held" /\ key[u] = k}
    BY <1>c, Zenon
  <2> QED  BY <2>1, Zenon DEF HoldersOf
<1>1. ASSUME NEW t \in Tasks, NEW k \in Keys, Enter(t, k) PROVE UNCHANGED HoldersOf
  BY <1>a, <1>1, <1>c, Zenon DEF Enter, TypeOK
<1>2. ASSUME NEW t \in Tasks, Poll(t) PROVE [Lock!Next]_HoldersOf
  <2>1. CASE owner[arc[t]] = NoTask
    BY <1>2, <2>1, <1>b, Zenon DEF Poll
  <2>2. CASE owner[arc[t]] # NoTask
    <3>1. UNCHANGED HoldersOf
      BY <1>a, <1>2, <2>2, <1>c, Zenon DEF Poll, TypeOK
    <3> QED  BY <3>1, Zenon
  <2> QED  BY <2>1, <2>2, Zenon
<1>3. ASSUME NEW t \in Tasks, Wake(t) PROVE Lock!Next
  BY <1>3, <1>b, Zenon DEF Wake
<1>4. ASSUME NEW t \in Tasks, Release(t) PROVE Lock!Next
  <2>1. HoldersOf[key[t]] = {t} /\ key[t] \in Keys
    BY <1>a, <1>4, ZenonT(30) DEF HoldersOf, TypeOK, MutualExclusion, Release
  <2>2. HoldersOf' = [HoldersOf EXCEPT ![key[t]] = {}]
    <3>1. ASSUME NEW k \in Keys
          PROVE  {u \in Tasks : pc'[u] = "held" /\ key'[u] = k}
                   = IF k = key[t] THEN {} ELSE {u \in Tasks : pc[u] = "held" /\ key[u] = k}
      BY <1>a, <1>4, <2>1, Zenon DEF HoldersOf, TypeOK, Release
    <3> QED  BY <2>1, <3>1, ZenonT(30) DEF HoldersOf
  <2> QED  BY <2>1, <2>2, Zenon DEF Lock!Next, Lock!Release
<1>5. ASSUME NEW t \in Tasks, DropArc(t) PROVE UNCHANGED HoldersOf
  BY <1>a, <1>5, <1>c, Zenon DEF DropArc, TypeOK
<1>6. ASSUME NEW t \in Tasks, Cancel(t) PROVE UNCHANGED HoldersOf
  BY <1>a, <1>6, <1>c, Zenon DEF Cancel, TypeOK
<1>7. CASE UNCHANGED vars
  BY <1>7, Zenon DEF vars, HoldersOf
<1> QED  BY <1>1, <1>2, <1>3, <1>4, <1>5, <1>6, <1>7, Zenon DEF Next

(* common.rs:129-156.  KeyedMutex implements the abstract per-key lock: its
   table, its waiters and its prune are invisible to the providers. *)
THEOREM MutexRefinesLock == Spec => ImplementsKeyedLock
<1>1. Init => Lock!Init
  BY Zenon DEF Init, Lock!Init, HoldersOf
<1> QED  BY <1>1, NextRefines, Invariance, PTL DEF Spec, Lock!Spec, ImplementsKeyedLock

-----------------------------------------------------------------------------

(* The queue of a mutex: its waiters wait for it, behind somebody else, each
   of them once. *)
Queued ==
    /\ \A m \in Mutexes : \A i \in 1..Len(waiters[m]) :
          /\ pc[waiters[m][i]] = "waiting" /\ arc[waiters[m][i]] = m
          /\ owner[m] \notin {NoTask, waiters[m][i]}
    /\ \A m \in Mutexes : \A i, j \in 1..Len(waiters[m]) :
          waiters[m][i] = waiters[m][j] => i = j

PermitInv == PermitNotLost /\ Queued

(* Where the waiters of a queue are once its i-th is unlinked. *)
LEMMA UnlinkedFacts ==
    ASSUME NEW q \in Seq(Tasks), NEW i \in 1..Len(q)
    PROVE  /\ Len(Unlinked(q, i)) = Len(q) - 1
           /\ \A j \in 1..Len(q) - 1 : Unlinked(q, i)[j] = IF j < i THEN q[j] ELSE q[j + 1]
<1>1. Len(q) \in Nat /\ i \in 1..Len(q)
  OBVIOUS
<1>2. /\ SubSeq(q, 1, i - 1) \in Seq(Tasks) /\ Len(SubSeq(q, 1, i - 1)) = i - 1
      /\ \A j \in 1..i - 1 : SubSeq(q, 1, i - 1)[j] = q[j]
  BY <1>1
<1>3. /\ SubSeq(q, i + 1, Len(q)) \in Seq(Tasks) /\ Len(SubSeq(q, i + 1, Len(q))) = Len(q) - i
      /\ \A j \in 1..Len(q) - i : SubSeq(q, i + 1, Len(q))[j] = q[i + j]
  BY <1>1
<1> DEFINE a == SubSeq(q, 1, i - 1)
           b == SubSeq(q, i + 1, Len(q))
<1>4. /\ Len(a \o b) = Len(a) + Len(b)
      /\ \A j \in 1..Len(a) + Len(b) : (a \o b)[j] = IF j <= Len(a) THEN a[j] ELSE b[j - Len(a)]
  <2>1. a \in Seq(Tasks) /\ b \in Seq(Tasks)
    BY <1>2, <1>3, Zenon
  <2> HIDE DEF a, b
  <2> QED BY <2>1
<1>5. Len(a) = i - 1 /\ Len(b) = Len(q) - i
  BY <1>2, <1>3, Zenon
<1> HIDE DEF a, b
<1>6. ASSUME NEW j \in 1..Len(q) - 1 PROVE (a \o b)[j] = IF j < i THEN q[j] ELSE q[j + 1]
  <2>1. CASE j < i
    <3>1. j <= Len(a) /\ j \in 1..Len(a) + Len(b) /\ j \in 1..i - 1
      BY <1>1, <1>5, <2>1
    <3>2. a[j] = q[j]
      BY <1>2, <3>1, Zenon DEF a
    <3> QED BY <1>4, <2>1, <3>1, <3>2, Zenon
  <2>2. CASE ~(j < i)
    <3>1. ~(j <= Len(a)) /\ j \in 1..Len(a) + Len(b) /\ j - (i - 1) \in 1..Len(q) - i
      BY <1>1, <1>5, <2>2
    <3>2. b[j - (i - 1)] = q[i + (j - (i - 1))] /\ i + (j - (i - 1)) = j + 1
      BY <1>1, <1>3, <3>1 DEF b
    <3> QED BY <1>4, <1>5, <2>2, <3>1, <3>2, Zenon
  <2> QED BY <2>1, <2>2, Zenon
<1>7. Len(a \o b) = Len(q) - 1
  BY <1>1, <1>4, <1>5
<1> QED BY <1>6, <1>7, Zenon DEF Unlinked, a, b

(* Giving a permit back hands it to a waiter that is still there, or frees it
   when nobody waits. *)
LEMMA GiveBackKeeps ==
    ASSUME TypeOK, OneMutexPerKey, PermitInv, NEW t \in Tasks, NEW m \in Mutexes,
           arc[t] = m, owner[m] = t,
           GiveBack(m), pc' = [pc EXCEPT ![t] = "released"], UNCHANGED arc
    PROVE  PermitInv'
<1> USE NoTaskAssumption DEF TypeOK
<1>1. \A u \in Tasks : u # t => pc'[u] = pc[u]
  BY Zenon
<1>2. \A n \in Mutexes : n # m => owner'[n] = owner[n] /\ waiters'[n] = waiters[n] /\ owner[n] # t
  BY ZenonT(30) DEF GiveBack, PermitInv, PermitNotLost
<1>a. ASSUME NEW u \in Tasks, pc'[u] = "waiting" PROVE u # t /\ pc[u] = "waiting" /\ arc[u] \in Mutexes
  BY <1>a, Zenon DEF OneMutexPerKey
<1>3. CASE waiters[m] = << >>
  <2>1. owner'[m] = NoTask /\ waiters' = waiters /\ Len(waiters[m]) = 0
    BY <1>3, Zenon DEF GiveBack
  <2>2. PermitNotLost'
    <3>1. ASSUME NEW n \in Mutexes, owner'[n] # NoTask
          PROVE  arc'[owner'[n]] = n /\ pc'[owner'[n]] \in {"held", "waiting"}
      <4>1. n # m /\ owner'[n] = owner[n] /\ owner[n] # t
        BY <1>2, <2>1, <3>1, Zenon
      <4> QED BY <3>1, <4>1, SMTT(30) DEF PermitInv, PermitNotLost
    <3>2. ASSUME NEW u \in Tasks, pc'[u] = "waiting", owner'[arc'[u]] # u
          PROVE  /\ owner'[arc'[u]] # NoTask
                 /\ \E i \in 1..Len(waiters'[arc'[u]]) : waiters'[arc'[u]][i] = u
      <4>1. u # t /\ pc[u] = "waiting" /\ arc[u] \in Mutexes
        BY <1>a, <3>2, Zenon
      <4>2. arc[u] # m
        BY <2>1, <4>1, SMTT(30) DEF PermitInv, PermitNotLost
      <4>3. arc'[u] = arc[u] /\ owner'[arc[u]] = owner[arc[u]] /\ waiters'[arc[u]] = waiters[arc[u]]
        BY <1>2, <4>1, <4>2, Zenon
      <4>4. owner[arc[u]] # u
        BY <3>2, <4>3, Zenon
      <4>5. owner[arc[u]] # NoTask /\ \E i \in 1..Len(waiters[arc[u]]) : waiters[arc[u]][i] = u
        BY <4>1, <4>4, Zenon DEF PermitInv, PermitNotLost
      <4> QED BY <4>3, <4>5
    <3> QED BY <3>1, <3>2, Zenon DEF PermitNotLost
  <2>3. Queued'
    BY <1>1, <1>2, <2>1, SMTT(30) DEF PermitInv, Queued
  <2> QED BY <2>2, <2>3, Zenon DEF PermitInv
<1>4. CASE waiters[m] # << >>
  <2> DEFINE q == waiters[m]
  <2>1. /\ q \in Seq(Tasks) /\ Len(q) \in Nat \ {0}
        /\ owner'[m] = q[1] /\ waiters'[m] = Tail(q)
        /\ Len(Tail(q)) = Len(q) - 1
        /\ \A i \in 1..Len(q) - 1 : Tail(q)[i] = q[i + 1]
    BY <1>4 DEF GiveBack
  <2>2. /\ \A i \in 1..Len(q) : /\ q[i] \in Tasks /\ pc[q[i]] = "waiting" /\ arc[q[i]] = m
                                /\ q[i] # t
        /\ \A i, j \in 1..Len(q) : q[i] = q[j] => i = j
    <3>1. \A i \in 1..Len(q) : q[i] \in Tasks
      BY <2>1
    <3> QED BY <3>1, SMTT(30) DEF PermitInv, Queued
  <2>3. ASSUME NEW i \in 1..Len(q) - 1
        PROVE  i + 1 \in 1..Len(q) /\ Tail(q)[i] = q[i + 1] /\ q[i + 1] # q[1]
    <3>1. i + 1 \in 1..Len(q) /\ 1 \in 1..Len(q) /\ i + 1 # 1
      BY <2>1
    <3> QED BY <2>1, <2>2, <3>1, Zenon
  <2>4. q[1] \in Tasks /\ pc'[q[1]] = "waiting" /\ arc[q[1]] = m /\ q[1] # t
    <3>1. 1 \in 1..Len(q)
      BY <2>1
    <3> QED BY <1>1, <2>2, <3>1, Zenon
  <2>5. ASSUME NEW i \in 1..Len(q), q[i] # q[1]
        PROVE  i - 1 \in 1..Len(q) - 1 /\ Tail(q)[i - 1] = q[i]
    <3>1. i # 1
      BY <2>5, Zenon
    <3>2. i - 1 \in 1..Len(q) - 1 /\ (i - 1) + 1 = i
      BY <2>1, <3>1
    <3> QED BY <2>1, <3>2, Zenon
  <2> HIDE DEF q
  <2>6. Queued'
    <3>1. ASSUME NEW n \in Mutexes, NEW i \in 1..Len(waiters'[n])
          PROVE  /\ pc'[waiters'[n][i]] = "waiting" /\ arc'[waiters'[n][i]] = n
                 /\ owner'[n] \notin {NoTask, waiters'[n][i]}
      <4>1. CASE n = m
        <5>1. i \in 1..Len(q) - 1 /\ waiters'[n][i] = q[i + 1] /\ owner'[n] = q[1]
          BY <2>1, <2>3, <3>1, <4>1, Zenon
        <5>2. /\ q[i + 1] \in Tasks /\ pc[q[i + 1]] = "waiting" /\ arc[q[i + 1]] = m /\ q[i + 1] # t
              /\ q[i + 1] # q[1]
          BY <2>2, <2>3, <5>1, Zenon
        <5> QED BY <1>1, <2>4, <4>1, <5>1, <5>2, ZenonT(30)
      <4>2. CASE n # m
        <5>1. /\ waiters[n][i] \in Tasks /\ pc[waiters[n][i]] = "waiting" /\ arc[waiters[n][i]] = n
              /\ owner[n] \notin {NoTask, waiters[n][i]}
          BY <1>2, <3>1, <4>2 DEF PermitInv, Queued
        <5> QED BY <1>1, <1>2, <4>2, <5>1, Zenon
      <4> QED BY <4>1, <4>2, Zenon
    <3>2. ASSUME NEW n \in Mutexes, NEW i \in 1..Len(waiters'[n]), NEW j \in 1..Len(waiters'[n]),
                 waiters'[n][i] = waiters'[n][j]
          PROVE  i = j
      <4>1. CASE n = m
        <5>1. /\ i \in 1..Len(q) - 1 /\ waiters'[n][i] = q[i + 1] /\ i + 1 \in 1..Len(q)
              /\ j \in 1..Len(q) - 1 /\ waiters'[n][j] = q[j + 1] /\ j + 1 \in 1..Len(q)
          BY <2>1, <2>3, <3>2, <4>1, Zenon
        <5>2. i + 1 = j + 1
          BY <2>2, <3>2, <5>1, ZenonT(30)
        <5> QED BY <5>1, <5>2
      <4>2. CASE n # m
        <5>1. i \in 1..Len(waiters[n]) /\ j \in 1..Len(waiters[n]) /\ waiters[n][i] = waiters[n][j]
          BY <1>2, <3>2, <4>2, Zenon
        <5> QED BY <5>1, Zenon DEF PermitInv, Queued
      <4> QED BY <4>1, <4>2, Zenon
    <3> QED BY <3>1, <3>2, Zenon DEF Queued
  <2>7. PermitNotLost'
    <3>1. ASSUME NEW n \in Mutexes, owner'[n] # NoTask
          PROVE  arc'[owner'[n]] = n /\ pc'[owner'[n]] \in {"held", "waiting"}
      <4>1. CASE n = m
        BY <2>1, <2>4, <4>1, Zenon
      <4>2. CASE n # m
        <5>1. owner'[n] = owner[n] /\ owner[n] # t /\ owner[n] \in Tasks
          BY <1>2, <3>1, <4>2, Zenon
        <5> QED BY <1>1, <3>1, <5>1, ZenonT(30) DEF PermitInv, PermitNotLost
      <4> QED BY <4>1, <4>2, Zenon
    <3>2. ASSUME NEW u \in Tasks, pc'[u] = "waiting", owner'[arc'[u]] # u
          PROVE  /\ owner'[arc'[u]] # NoTask
                 /\ \E i \in 1..Len(waiters'[arc'[u]]) : waiters'[arc'[u]][i] = u
      <4>1. pc[u] = "waiting" /\ u # t /\ arc[u] \in Mutexes
        BY <1>a, <3>2, Zenon
      <4>2. CASE arc[u] = m
        <5>1. u # q[1]
          BY <2>1, <3>2, <4>2, Zenon
        <5>2. PICK i \in 1..Len(q) : q[i] = u
          BY <4>1, <4>2, Zenon DEF PermitInv, PermitNotLost, q
        <5>3. i - 1 \in 1..Len(q) - 1 /\ Tail(q)[i - 1] = u
          BY <2>5, <5>1, <5>2, Zenon
        <5>4. owner'[m] \in Tasks /\ waiters'[m] = Tail(q) /\ Len(Tail(q)) = Len(q) - 1
          BY <2>1, <2>4, Zenon
        <5> QED BY <4>2, <5>3, <5>4, Zenon
      <4>3. CASE arc[u] # m
        <5>1. arc'[u] = arc[u] /\ owner'[arc[u]] = owner[arc[u]] /\ waiters'[arc[u]] = waiters[arc[u]]
          BY <1>2, <4>1, <4>3, Zenon
        <5>2. owner[arc[u]] # u
          BY <3>2, <5>1, Zenon
        <5>3. /\ owner[arc[u]] # NoTask
              /\ \E i \in 1..Len(waiters[arc[u]]) : waiters[arc[u]][i] = u
          BY <4>1, <5>2, Zenon DEF PermitInv, PermitNotLost
        <5> QED BY <5>1, <5>3, Zenon
      <4> QED BY <4>2, <4>3, Zenon
    <3> QED BY <3>1, <3>2, Zenon DEF PermitNotLost
  <2> QED BY <2>6, <2>7, Zenon DEF PermitInv
<1> QED BY <1>3, <1>4, Zenon

(* A future dropped in the queue leaves the other waiters in it, in order. *)
LEMMA UnlinkKeeps ==
    ASSUME TypeOK, OneMutexPerKey, PermitInv, NEW t \in Tasks, pc[t] = "waiting", owner[arc[t]] # t,
           NEW p \in 1..Len(waiters[arc[t]]), waiters[arc[t]][p] = t,
           waiters' = [waiters EXCEPT ![arc[t]] = Unlinked(@, p)], UNCHANGED <<owner, arc>>,
           pc' = [pc EXCEPT ![t] = "released"]
    PROVE  PermitInv'
<1> USE NoTaskAssumption DEF TypeOK
<1> DEFINE m == arc[t]
           q == waiters[m]
<1>1. m \in Mutexes /\ \A u \in Tasks : u # t => pc'[u] = pc[u]
  BY Zenon DEF OneMutexPerKey
<1>2. /\ q \in Seq(Tasks) /\ Len(q) \in Nat /\ p \in 1..Len(q) /\ q[p] = t
      /\ waiters'[m] = Unlinked(q, p) /\ \A n \in Mutexes : n # m => waiters'[n] = waiters[n]
      /\ \A i \in 1..Len(q) : q[i] \in Tasks
  BY <1>1
<1> HIDE DEF m, q
<1>3. /\ Len(waiters'[m]) = Len(q) - 1
      /\ \A j \in 1..Len(q) - 1 : waiters'[m][j] = IF j < p THEN q[j] ELSE q[j + 1]
  <2>1. /\ Len(Unlinked(q, p)) = Len(q) - 1
        /\ \A j \in 1..Len(q) - 1 : Unlinked(q, p)[j] = IF j < p THEN q[j] ELSE q[j + 1]
    BY <1>2, UnlinkedFacts, Zenon
  <2> QED BY <1>2, <2>1, Zenon
<1>4. /\ \A i \in 1..Len(q) : pc[q[i]] = "waiting" /\ arc[q[i]] = m /\ owner[m] \notin {NoTask, q[i]}
      /\ \A i, j \in 1..Len(q) : q[i] = q[j] => i = j
  BY <1>1, Zenon DEF PermitInv, Queued, m, q
<1>5. ASSUME NEW j \in 1..Len(q) - 1
      PROVE  \E i \in 1..Len(q) : /\ waiters'[m][j] = q[i] /\ q[i] # t
                                  /\ i = IF j < p THEN j ELSE j + 1
  <2>1. CASE j < p
    <3>1. j \in 1..Len(q) /\ j # p
      BY <1>2, <2>1
    <3> QED BY <1>2, <1>3, <1>4, <2>1, <3>1, Zenon
  <2>2. CASE ~(j < p)
    <3>1. j + 1 \in 1..Len(q) /\ j + 1 # p
      BY <1>2, <2>2
    <3> QED BY <1>2, <1>3, <1>4, <2>2, <3>1, ZenonT(30)
  <2> QED BY <2>1, <2>2, Zenon
<1>6. Queued'
  <2>1. ASSUME NEW n \in Mutexes, NEW i \in 1..Len(waiters'[n])
        PROVE  /\ pc'[waiters'[n][i]] = "waiting" /\ arc'[waiters'[n][i]] = n
               /\ owner'[n] \notin {NoTask, waiters'[n][i]}
    <3>1. CASE n = m
      <4>1. PICK j \in 1..Len(q) : waiters'[n][i] = q[j] /\ q[j] # t
        BY <1>3, <1>5, <2>1, <3>1, ZenonT(30)
      <4> QED BY <1>1, <1>2, <1>4, <3>1, <4>1
    <3>2. CASE n # m
      <4>1. /\ i \in 1..Len(waiters[n]) /\ waiters'[n] = waiters[n] /\ waiters[n][i] \in Tasks
        BY <1>2, <2>1, <3>2, SMTT(30)
      <4>2. /\ pc[waiters[n][i]] = "waiting" /\ arc[waiters[n][i]] = n
            /\ owner[n] \notin {NoTask, waiters[n][i]}
        BY <4>1, Zenon DEF PermitInv, Queued
      <4> QED BY <1>1, <3>2, <4>1, <4>2, Zenon DEF m
    <3> QED BY <3>1, <3>2, Zenon
  <2>2. ASSUME NEW n \in Mutexes, NEW i \in 1..Len(waiters'[n]), NEW j \in 1..Len(waiters'[n]),
               waiters'[n][i] = waiters'[n][j]
        PROVE  i = j
    <3>1. CASE n = m
      <4>1. i \in 1..Len(q) - 1 /\ j \in 1..Len(q) - 1
        BY <1>3, <2>2, <3>1, Zenon
      <4>2. PICK x \in 1..Len(q) : waiters'[m][i] = q[x] /\ x = IF i < p THEN i ELSE i + 1
        BY <1>5, <4>1, Zenon
      <4>3. PICK y \in 1..Len(q) : waiters'[m][j] = q[y] /\ y = IF j < p THEN j ELSE j + 1
        BY <1>5, <4>1, Zenon
      <4>4. x = y
        BY <1>4, <2>2, <3>1, <4>2, <4>3, SMTT(30)
      <4> QED BY <1>2, <4>1, <4>2, <4>3, <4>4, SMTT(30)
    <3>2. CASE n # m
      <4>1. i \in 1..Len(waiters[n]) /\ j \in 1..Len(waiters[n]) /\ waiters[n][i] = waiters[n][j]
        BY <1>2, <2>2, <3>2, Zenon
      <4> QED BY <4>1, Zenon DEF PermitInv, Queued
    <3> QED BY <3>1, <3>2, Zenon
  <2> QED BY <2>1, <2>2, Zenon DEF Queued
<1>7. PermitNotLost'
  <2>1. ASSUME NEW n \in Mutexes, owner'[n] # NoTask
        PROVE  arc'[owner'[n]] = n /\ pc'[owner'[n]] \in {"held", "waiting"}
    <3>1. owner'[n] = owner[n] /\ owner[n] \in Tasks /\ arc[owner[n]] = n
          /\ pc[owner[n]] \in {"held", "waiting"}
      BY <2>1, ZenonT(90) DEF PermitInv, PermitNotLost
    <3>2. owner[n] # t
      BY <3>1, Zenon
    <3> QED BY <1>1, <3>1, <3>2, Zenon
  <2>2. ASSUME NEW u \in Tasks, pc'[u] = "waiting", owner'[arc'[u]] # u
        PROVE  /\ owner'[arc'[u]] # NoTask
               /\ \E i \in 1..Len(waiters'[arc'[u]]) : waiters'[arc'[u]][i] = u
    <3>1. u # t /\ pc[u] = "waiting" /\ arc[u] \in Mutexes /\ owner[arc[u]] # u
      BY <2>2, ZenonT(30) DEF OneMutexPerKey
    <3>2. owner[arc[u]] # NoTask /\ \E i \in 1..Len(waiters[arc[u]]) : waiters[arc[u]][i] = u
      BY <3>1, Zenon DEF PermitInv, PermitNotLost
    <3>3. CASE arc[u] = m
      <4>1. PICK i \in 1..Len(q) : q[i] = u
        BY <3>2, <3>3, Zenon DEF q
      <4>2. i # p
        BY <1>2, <3>1, <4>1, Zenon
      <4>3. CASE i < p
        <5>1. i \in 1..Len(q) - 1
          BY <1>2, <4>3
        <5> QED BY <1>3, <3>2, <3>3, <4>1, <4>3, <5>1, Zenon
      <4>4. CASE i > p
        <5>1. i - 1 \in 1..Len(q) - 1 /\ ~(i - 1 < p) /\ (i - 1) + 1 = i
          BY <1>2, <4>4
        <5>2. waiters'[m][i - 1] = u
          BY <1>3, <4>1, <5>1, Zenon
        <5> QED BY <1>3, <3>2, <3>3, <5>1, <5>2, Zenon
      <4> QED BY <1>2, <4>2, <4>3, <4>4
    <3>4. CASE arc[u] # m
      BY <1>2, <3>1, <3>2, <3>4, ZenonT(30)
    <3> QED BY <3>3, <3>4, Zenon
  <2> QED BY <2>1, <2>2, Zenon DEF PermitNotLost
<1> QED BY <1>6, <1>7, Zenon DEF PermitInv

(* A newcomer to an existing mutex changes nothing of it; a new mutex is
   nobody's. *)
LEMMA EnterKeeps ==
    ASSUME TypeOK, OneMutexPerKey, PermitInv, NEW t \in Tasks, NEW k \in Keys, Enter(t, k)
    PROVE  PermitInv'
<1> USE NoTaskAssumption, NoMutexAssumption DEF TypeOK
<1>1. /\ pc[t] = "idle" /\ pc'[t] = "entry"
      /\ \A u \in Tasks : u # t => pc'[u] = pc[u] /\ arc'[u] = arc[u]
  BY Zenon DEF Enter
<1>2. CASE UNCHANGED <<owner, waiters>>
  <2>1. PermitNotLost'
    <3>1. ASSUME NEW n \in Mutexes, owner'[n] # NoTask
          PROVE  arc'[owner'[n]] = n /\ pc'[owner'[n]] \in {"held", "waiting"}
      <4>1. owner'[n] = owner[n] /\ owner[n] \in Tasks /\ owner[n] # t
        BY <1>1, <1>2, <3>1, SMTT(30) DEF PermitInv, PermitNotLost
      <4> QED BY <1>1, <3>1, <4>1, SMTT(30) DEF PermitInv, PermitNotLost
    <3>2. ASSUME NEW u \in Tasks, pc'[u] = "waiting", owner'[arc'[u]] # u
          PROVE  /\ owner'[arc'[u]] # NoTask
                 /\ \E i \in 1..Len(waiters'[arc'[u]]) : waiters'[arc'[u]][i] = u
      <4>1. u # t /\ pc[u] = "waiting" /\ arc'[u] = arc[u] /\ arc[u] \in Mutexes
        BY <1>1, <3>2, ZenonT(30) DEF OneMutexPerKey
      <4> QED BY <1>2, <3>2, <4>1, ZenonT(30) DEF PermitInv, PermitNotLost
    <3> QED BY <3>1, <3>2, ZenonT(20) DEF PermitNotLost
  <2>2. Queued'
    BY <1>1, <1>2 DEF PermitInv, Queued
  <2> QED BY <2>1, <2>2, Zenon DEF PermitInv
<1>3. CASE \E m \in Mutexes : /\ Fresh(Retained, m)
                              /\ owner' = [owner EXCEPT ![m] = NoTask]
                              /\ waiters' = [waiters EXCEPT ![m] = << >>]
  <2>1. PICK m \in Mutexes : /\ Fresh(Retained, m)
                             /\ owner' = [owner EXCEPT ![m] = NoTask]
                             /\ waiters' = [waiters EXCEPT ![m] = << >>]
    BY <1>3, Zenon
  <2>2. \A u \in Tasks : arc[u] # m
    BY <2>1, Zenon DEF Fresh, Shared
  <2>3. PermitNotLost'
    <3>1. ASSUME NEW n \in Mutexes, owner'[n] # NoTask
          PROVE  arc'[owner'[n]] = n /\ pc'[owner'[n]] \in {"held", "waiting"}
      <4>1. n # m /\ owner'[n] = owner[n] /\ owner[n] \in Tasks
        BY <2>1, <3>1, Zenon
      <4>2. owner[n] # t
        BY <1>1, <4>1, ZenonT(30) DEF PermitInv, PermitNotLost
      <4> QED BY <1>1, <4>1, <4>2, SMTT(30) DEF PermitInv, PermitNotLost
    <3>2. ASSUME NEW u \in Tasks, pc'[u] = "waiting", owner'[arc'[u]] # u
          PROVE  /\ owner'[arc'[u]] # NoTask
                 /\ \E i \in 1..Len(waiters'[arc'[u]]) : waiters'[arc'[u]][i] = u
      <4>1. u # t /\ pc[u] = "waiting" /\ arc'[u] = arc[u] /\ arc[u] \in Mutexes /\ arc[u] # m
        BY <1>1, <2>2, <3>2, ZenonT(30) DEF OneMutexPerKey
      <4>2. owner'[arc[u]] = owner[arc[u]] /\ waiters'[arc[u]] = waiters[arc[u]]
        BY <2>1, <4>1, Zenon
      <4> QED BY <3>2, <4>1, <4>2, SMTT(30) DEF PermitInv, PermitNotLost
    <3> QED BY <3>1, <3>2, ZenonT(30) DEF PermitNotLost
  <2>4. Len(waiters'[m]) = 0
    BY <2>1, Zenon
  <2>5. Queued'
    BY <1>1, <2>1, <2>2, <2>4, SMTT(30) DEF PermitInv, Queued
  <2> QED BY <2>3, <2>5, Zenon DEF PermitInv
<1> QED BY <1>2, <1>3, Zenon DEF Enter

(* The first poll takes a free permit, or joins the queue of the owner. *)
LEMMA PollKeeps ==
    ASSUME TypeOK, OneMutexPerKey, PermitInv, NEW t \in Tasks, Poll(t)
    PROVE  PermitInv'
<1> USE NoTaskAssumption DEF TypeOK
<1> DEFINE m == arc[t]
           q == waiters[m]
<1>1. /\ m \in Mutexes /\ pc[t] = "entry" /\ UNCHANGED arc
      /\ \A u \in Tasks : u # t => pc'[u] = pc[u]
  BY Zenon DEF Poll, OneMutexPerKey
<1>2. q \in Seq(Tasks) /\ Len(q) \in Nat /\ \A i \in 1..Len(q) : q[i] \in Tasks /\ q[i] # t
  BY <1>1 DEF PermitInv, Queued
<1>3. \A n \in Mutexes : owner[n] # t
  BY <1>1, Zenon DEF PermitInv, PermitNotLost
<1>4. CASE owner[m] = NoTask
  <2>1. owner' = [owner EXCEPT ![m] = t] /\ pc'[t] = "held" /\ UNCHANGED waiters
    BY <1>1, <1>4, Zenon DEF Poll
  <2>2. PermitNotLost'
    <3>1. ASSUME NEW n \in Mutexes, owner'[n] # NoTask
          PROVE  arc'[owner'[n]] = n /\ pc'[owner'[n]] \in {"held", "waiting"}
      <4>1. CASE n = m
        BY <1>1, <2>1, <4>1, Zenon
      <4>2. CASE n # m
        <5>1. owner'[n] = owner[n] /\ owner[n] \in Tasks /\ owner[n] # t
          BY <1>3, <2>1, <3>1, <4>2, ZenonT(30)
        <5> QED BY <1>1, <5>1 DEF PermitInv, PermitNotLost
      <4> QED BY <4>1, <4>2, Zenon
    <3>2. ASSUME NEW u \in Tasks, pc'[u] = "waiting", owner'[arc'[u]] # u
          PROVE  /\ owner'[arc'[u]] # NoTask
                 /\ \E i \in 1..Len(waiters'[arc'[u]]) : waiters'[arc'[u]][i] = u
      <4>1. u # t /\ pc[u] = "waiting" /\ arc[u] \in Mutexes
        BY <1>1, <2>1, <3>2, ZenonT(30) DEF OneMutexPerKey
      <4>2. arc[u] # m
        BY <1>4, <4>1, ZenonT(30) DEF PermitInv, PermitNotLost
      <4>3. owner'[arc[u]] = owner[arc[u]]
        BY <2>1, <4>1, <4>2, Zenon
      <4> QED BY <1>1, <2>1, <3>2, <4>1, <4>3, ZenonT(90) DEF PermitInv, PermitNotLost
    <3> QED BY <3>1, <3>2, Zenon DEF PermitNotLost
  <2>3. ASSUME NEW n \in Mutexes, NEW i \in 1..Len(waiters'[n])
        PROVE  /\ pc'[waiters'[n][i]] = "waiting" /\ arc'[waiters'[n][i]] = n
               /\ owner'[n] \notin {NoTask, waiters'[n][i]}
    <3>1. i \in 1..Len(waiters[n]) /\ waiters'[n][i] = waiters[n][i]
      BY <2>1, <2>3, Zenon
    <3>2. /\ pc[waiters[n][i]] = "waiting" /\ arc[waiters[n][i]] = n
          /\ owner[n] \notin {NoTask, waiters[n][i]}
      BY <3>1, Zenon DEF PermitInv, Queued
    <3>3. n # m
      BY <1>4, <3>2, Zenon
    <3>4. waiters[n] \in Seq(Tasks)
      BY Zenon
    <3>5. waiters[n][i] \in Tasks /\ waiters[n][i] # t
      BY <1>1, <3>1, <3>2, <3>4, SMTT(30)
    <3>6. owner'[n] = owner[n]
      BY <2>1, <3>3, Zenon
    <3> QED BY <1>1, <3>1, <3>2, <3>5, <3>6, Zenon
  <2>4. Queued'
    <3>1. \A n \in Mutexes : \A i, j \in 1..Len(waiters'[n]) : waiters'[n][i] = waiters'[n][j] => i = j
      BY <2>1, ZenonT(90) DEF PermitInv, Queued
    <3> QED BY <2>3, <3>1, Zenon DEF Queued
  <2> QED BY <2>2, <2>4, Zenon DEF PermitInv
<1>5. CASE owner[m] # NoTask
  <2>1. /\ waiters' = [waiters EXCEPT ![m] = Append(q, t)] /\ UNCHANGED owner
        /\ pc'[t] = "waiting"
    BY <1>1, <1>5, Zenon DEF Poll
  <2>2. /\ Len(waiters'[m]) = Len(q) + 1 /\ waiters'[m][Len(q) + 1] = t
        /\ \A i \in 1..Len(q) : waiters'[m][i] = q[i]
        /\ \A n \in Mutexes : n # m => waiters'[n] = waiters[n]
    BY <1>1, <1>2, <2>1
  <2>3. \A i \in 1..Len(waiters'[m]) : i \in 1..Len(q) \/ i = Len(q) + 1
    BY <1>2, <2>2
  <2>4. PermitNotLost'
    <3>1. \A n \in Mutexes : owner'[n] # NoTask =>
             arc'[owner'[n]] = n /\ pc'[owner'[n]] \in {"held", "waiting"}
      BY <1>1, <1>3, <2>1 DEF PermitInv, PermitNotLost
    <3>2. ASSUME NEW u \in Tasks, pc'[u] = "waiting", owner'[arc'[u]] # u
          PROVE  /\ owner'[arc'[u]] # NoTask
                 /\ \E i \in 1..Len(waiters'[arc'[u]]) : waiters'[arc'[u]][i] = u
      <4>1. CASE u = t
        <5>1. Len(q) + 1 \in 1..Len(waiters'[m])
          BY <1>2, <2>2, SMTT(30)
        <5> QED BY <1>1, <1>5, <2>1, <2>2, <4>1, <5>1, Zenon
      <4>2. CASE u # t
        <5>1. pc[u] = "waiting" /\ arc[u] \in Mutexes /\ owner[arc[u]] # u
          BY <1>1, <2>1, <3>2, <4>2, ZenonT(30) DEF OneMutexPerKey
        <5>2. owner[arc[u]] # NoTask /\ \E i \in 1..Len(waiters[arc[u]]) : waiters[arc[u]][i] = u
          BY <5>1, Zenon DEF PermitInv, PermitNotLost
        <5>3. 1..Len(q) \subseteq 1..Len(waiters'[m])
          BY <1>2, <2>2
        <5> QED BY <1>1, <2>1, <2>2, <5>1, <5>2, <5>3, SMTT(30)
      <4> QED BY <4>1, <4>2, Zenon
    <3> QED BY <3>1, <3>2, Zenon DEF PermitNotLost
  <2>5. Queued'
    <3>1. ASSUME NEW n \in Mutexes, NEW i \in 1..Len(waiters'[n])
          PROVE  /\ pc'[waiters'[n][i]] = "waiting" /\ arc'[waiters'[n][i]] = n
                 /\ owner'[n] \notin {NoTask, waiters'[n][i]}
      <4>1. CASE n = m /\ i = Len(q) + 1
        BY <1>1, <1>3, <1>5, <2>1, <2>2, <4>1, Zenon
      <4>2. CASE i \in 1..Len(waiters[n]) /\ waiters'[n][i] = waiters[n][i]
        <5>1. /\ waiters[n][i] \in Tasks
              /\ pc[waiters[n][i]] = "waiting" /\ arc[waiters[n][i]] = n
              /\ owner[n] \notin {NoTask, waiters[n][i]}
          BY <4>2 DEF PermitInv, Queued
        <5> QED BY <1>1, <2>1, <4>2, <5>1, Zenon
      <4> QED BY <2>2, <2>3, <3>1, <4>1, <4>2, Zenon
    <3>2. ASSUME NEW n \in Mutexes, NEW i \in 1..Len(waiters'[n]), NEW j \in 1..Len(waiters'[n]),
                 waiters'[n][i] = waiters'[n][j]
          PROVE  i = j
      <4>1. CASE n = m
        <5>1. \A x, y \in 1..Len(q) : q[x] = q[y] => x = y
          BY <1>1, Zenon DEF PermitInv, Queued
        <5> HIDE DEF m, q
        <5> QED BY <1>2, <2>2, <2>3, <3>2, <4>1, <5>1, ZenonT(30)
      <4>2. CASE n # m
        <5>1. i \in 1..Len(waiters[n]) /\ j \in 1..Len(waiters[n]) /\ waiters[n][i] = waiters[n][j]
          BY <2>2, <3>2, <4>2, Zenon
        <5> QED BY <5>1, Zenon DEF PermitInv, Queued
      <4> QED BY <4>1, <4>2, Zenon
    <3> QED BY <3>1, <3>2, Zenon DEF Queued
  <2> QED BY <2>4, <2>5 DEF PermitInv
<1> QED BY <1>4, <1>5, Zenon

(* common.rs:155.  The permit of a mutex is never lost, for any number of
   tasks, keys and mutexes: not by a future dropped in the queue, nor by one
   dropped after it was handed the permit. *)
THEOREM PermitIsNeverLost == Spec => []PermitNotLost
<1>1. Init => PermitInv
  BY DEF Init, PermitInv, PermitNotLost, Queued
<1>2. IInv /\ PermitInv /\ [Next]_vars => PermitInv'
  <2> SUFFICES ASSUME IInv, PermitInv, [Next]_vars PROVE PermitInv'
    BY Zenon
  <2> USE NoTaskAssumption, NoMutexAssumption
  <2>1. TypeOK /\ OneMutexPerKey /\ HeldOwnsPermit
    BY Zenon DEF IInv
  <2>2. ASSUME NEW t \in Tasks, NEW k \in Keys, Enter(t, k) PROVE PermitInv'
    BY <2>1, <2>2, EnterKeeps, Zenon
  <2>3. ASSUME NEW t \in Tasks, Poll(t) PROVE PermitInv'
    BY <2>1, <2>3, PollKeeps, Zenon
  <2>4. ASSUME NEW t \in Tasks, Wake(t) PROVE PermitInv'
    BY <2>1, <2>4 DEF Wake, TypeOK, OneMutexPerKey, PermitInv, PermitNotLost, Queued
  <2>5. ASSUME NEW t \in Tasks, Release(t) PROVE PermitInv'
    <3>1. arc[t] \in Mutexes /\ owner[arc[t]] = t
      BY <2>1, <2>5, Zenon DEF Release, TypeOK, OneMutexPerKey, HeldOwnsPermit
    <3> QED BY <2>1, <2>5, <3>1, GiveBackKeeps, Zenon DEF Release
  <2>6. ASSUME NEW t \in Tasks, DropArc(t) PROVE PermitInv'
    BY <2>1, <2>6 DEF DropArc, TypeOK, OneMutexPerKey, PermitInv, PermitNotLost, Queued
  <2>7. ASSUME NEW t \in Tasks, Cancel(t) PROVE PermitInv'
    <3>1. arc[t] \in Mutexes /\ pc' = [pc EXCEPT ![t] = "released"] /\ UNCHANGED arc
      BY <2>1, <2>7, Zenon DEF Cancel, TypeOK, OneMutexPerKey
    <3>2. CASE pc[t] = "entry" /\ UNCHANGED <<owner, waiters>>
      BY <2>1, <3>1, <3>2, SMTT(30) DEF TypeOK, OneMutexPerKey, PermitInv, PermitNotLost, Queued
    <3>3. CASE /\ pc[t] = "waiting" /\ owner[arc[t]] # t /\ UNCHANGED owner
               /\ \E i \in 1..Len(waiters[arc[t]]) :
                     /\ waiters[arc[t]][i] = t
                     /\ waiters' = [waiters EXCEPT ![arc[t]] = Unlinked(@, i)]
      BY <2>1, <3>1, <3>3, UnlinkKeeps, Zenon
    <3>4. CASE owner[arc[t]] = t /\ GiveBack(arc[t])
      BY <2>1, <3>1, <3>4, GiveBackKeeps, ZenonT(30)
    <3> QED BY <2>7, <3>2, <3>3, <3>4, Zenon DEF Cancel
  <2>8. CASE UNCHANGED vars
    BY <2>8, SMTT(30) DEF vars, PermitInv, PermitNotLost, Queued
  <2> QED BY <2>2, <2>3, <2>4, <2>5, <2>6, <2>7, <2>8, Zenon DEF Next
<1>3. PermitInv => PermitNotLost
  BY Zenon DEF PermitInv
<1> QED BY <1>1, <1>2, <1>3, Invariance, PTL DEF Spec
=============================================================================
