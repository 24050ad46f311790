---------------------------- MODULE SolverProofs -----------------------------
(***************************************************************************)
(* The two solvers forget nothing that they put in place, take no proof    *)
(* away that the CA may still look at, and DNS-01 announces nothing before *)
(* everything is in place, for any number of solves and of authorizations. *)
(* First what holds of the guard and of the steps that both take, then the *)
(* results for TLS-ALPN-01 and for DNS-01, and from these the same for     *)
(* solves of either kind.                                                  *)
(***************************************************************************)
EXTENDS Solvers, FiniteSetTheorems, TLAPS

(* What the lengths of lists need of Append. *)
LEMMA LenOfAppend ==
    ASSUME NEW S, NEW q \in Seq(S), NEW e PROVE Len(Append(q, e)) = Len(q) + 1
OBVIOUS

(* What a guard is relied on for, in one invariant. *)
GuardInv == GuardTypeOK /\ NothingForgotten

-----------------------------------------------------------------------------
(* Lists. *)

(* Push adds one element to the elements of a list. *)
LEMMA ElementsAppend ==
    ASSUME NEW q \in Seq(Items), NEW x \in Items
    PROVE  Append(q, x) \in Seq(Items) /\ Elements(Append(q, x)) = Elements(q) \cup {x}
<1>1. /\ Append(q, x) \in Seq(Items)
      /\ DOMAIN Append(q, x) = 1..Len(q) + 1
      /\ \A i \in 1..Len(q) : Append(q, x)[i] = q[i]
      /\ Append(q, x)[Len(q) + 1] = x
      /\ DOMAIN q = 1..Len(q) /\ Len(q) \in Nat
  OBVIOUS
<1>2. \A i : i \in 1..Len(q) + 1 <=> i \in 1..Len(q) \/ i = Len(q) + 1
  BY <1>1
<1>3. \A y : y \in Elements(Append(q, x)) <=> y \in Elements(q) \/ y = x
  BY <1>1, <1>2, Zenon DEF Elements
<1> QED BY <1>1, <1>3, Zenon

(* The step that removes the first element loses no other. *)
LEMMA ElementsTail ==
    ASSUME NEW q \in Seq(Items), q # <<>>
    PROVE  /\ Head(q) \in Items
           /\ Tail(q) \in Seq(Items)
           /\ Elements(q) \subseteq Elements(Tail(q)) \cup {Head(q)}
<1>1. /\ Head(q) \in Items /\ Head(q) = q[1]
      /\ Tail(q) \in Seq(Items)
      /\ Len(q) \in Nat \ {0}
      /\ Len(Tail(q)) = Len(q) - 1
      /\ DOMAIN q = 1..Len(q) /\ DOMAIN Tail(q) = 1..Len(q) - 1
      /\ \A i \in 1..Len(q) - 1 : Tail(q)[i] = q[i + 1]
  OBVIOUS
<1>2. ASSUME NEW i \in 1..Len(q)
      PROVE  q[i] \in Elements(Tail(q)) \cup {Head(q)}
  <2>1. CASE i = 1
    BY <2>1, <1>1, Zenon
  <2>2. CASE i # 1
    <3>1. i - 1 \in 1..Len(q) - 1 /\ q[i] = Tail(q)[i - 1]
      BY <1>1, <2>2
    <3> QED BY <3>1, <1>1, Zenon DEF Elements
  <2> QED BY <2>1, <2>2, Zenon
<1> QED BY <1>1, <1>2 DEF Elements

(* The elements of a list of items are items. *)
LEMMA ElementsType ==
    ASSUME NEW q \in Seq(Items)
    PROVE  Elements(q) \subseteq Items
BY DEF Elements

(* The list of a guard that was never pushed to, or was taken, has no element. *)
LEMMA ElementsEmpty == Elements(<<>>) = {}
BY DEF Elements

-----------------------------------------------------------------------------
(* The guard's actions. *)

(* Push keeps everything tracked, and tracks its item. *)
LEMMA PushKeeps ==
    ASSUME NEW s \in Solves, NEW item \in Items, GuardInv, Push(s, item)
    PROVE  GuardInv' /\ item \in Elements(pending'[s])
<1>1. /\ pending' \in [Solves -> Seq(Items)]
      /\ pending'[s] = Append(pending[s], item)
      /\ \A r \in Solves : r # s => pending'[r] = pending[r]
      /\ spawned' = spawned /\ inPlace' = inPlace
  BY ElementsAppend, Zenon DEF GuardInv, GuardTypeOK, Push
<1>2. Elements(pending'[s]) = Elements(pending[s]) \cup {item}
  BY <1>1, ElementsAppend, Zenon DEF GuardInv, GuardTypeOK
<1>3. GuardTypeOK'
  BY <1>1, Zenon DEF GuardInv, GuardTypeOK, Push
<1>4. ASSUME NEW x \in inPlace'
      PROVE  Tracked(x)' \/ x \in failed' \/ x \in abandoned' \/ x \in stray'
  <2>1. CASE x = item
    BY <2>1, <1>2, Zenon DEF Tracked
  <2>2. CASE x # item
    <3>1. x \in failed \cup abandoned \cup stray =>
             x \in failed' \/ x \in abandoned' \/ x \in stray'
      BY <2>2, Zenon DEF Push
    <3>2. Tracked(x) => Tracked(x)'
      BY <1>1, <1>2, Zenon DEF Tracked
    <3> QED BY <3>1, <3>2, <1>1, <1>4, Zenon DEF GuardInv, NothingForgotten
  <2> QED BY <2>1, <2>2, Zenon
<1> QED BY <1>2, <1>3, <1>4, Zenon DEF GuardInv, NothingForgotten

(* A call of present that returns leaves nothing untracked, if its item was
   pushed first. *)
LEMMA PresentedKeeps ==
    ASSUME NEW s \in Solves, NEW item \in Items, NEW ok \in BOOLEAN,
           GuardInv, item \in Elements(pending[s]), Presented(item, ok)
    PROVE  GuardInv'
<1>1. inPlace' \subseteq inPlace \cup {item}
  BY Zenon DEF Presented
<1>2. GuardTypeOK'
  BY <1>1, Zenon DEF GuardInv, GuardTypeOK, Presented
<1>3. \A x : Tracked(x)' <=> Tracked(x)
  BY Zenon DEF Tracked, Presented
<1>4. Tracked(item)
  BY Zenon DEF Tracked
<1> QED BY <1>1, <1>2, <1>3, <1>4, Zenon DEF GuardInv, NothingForgotten, Presented

(* After a cleanup returned, its item is gone or its failure was reported. *)
LEMMA CleanItemFacts ==
    ASSUME NEW item \in Items, GuardTypeOK, CleanItem(item)
    PROVE  /\ inPlace' \subseteq inPlace /\ failed \subseteq failed' /\ failed' \subseteq Items
           /\ item \notin inPlace' \/ item \in failed'
BY Zenon DEF CleanItem, GuardTypeOK

(* run's step: the item that leaves the list is gone, or was reported. *)
LEMMA RunStepKeeps ==
    ASSUME NEW s \in Solves, GuardInv, RunStep(s)
    PROVE  GuardInv'
<1> DEFINE item == Head(pending[s])
<1>1. /\ item \in Items
      /\ Tail(pending[s]) \in Seq(Items)
      /\ Elements(pending[s]) \subseteq Elements(Tail(pending[s])) \cup {item}
  BY ElementsTail, Zenon DEF RunStep, GuardInv, GuardTypeOK
<1>2. /\ inPlace' \subseteq inPlace /\ failed \subseteq failed' /\ failed' \subseteq Items
      /\ item \notin inPlace' \/ item \in failed'
  BY <1>1, CleanItemFacts, Zenon DEF RunStep, GuardInv
<1>3. /\ pending' \in [Solves -> Seq(Items)]
      /\ pending'[s] = Tail(pending[s])
      /\ \A r \in Solves : r # s => pending'[r] = pending[r]
      /\ spawned' = spawned
  BY <1>1, Zenon DEF GuardInv, GuardTypeOK, RunStep
<1>4. GuardTypeOK'
  BY <1>2, <1>3, Zenon DEF GuardInv, GuardTypeOK, RunStep
<1>5. ASSUME NEW x, Tracked(x), x # item
      PROVE  Tracked(x)'
  <2>1. PICK r \in Solves : x \in Elements(pending[r]) \cup Elements(spawned[r])
    BY <1>5, Zenon DEF Tracked
  <2>2. x \in Elements(pending'[r]) \cup Elements(spawned'[r])
    BY <2>1, <1>1, <1>3, <1>5, Zenon
  <2> QED BY <2>2, Zenon DEF Tracked
<1> HIDE DEF item
<1> QED BY <1>2, <1>4, <1>5, Zenon DEF GuardInv, NothingForgotten, RunStep

(* The spawned task's step, likewise. *)
LEMMA SpawnedStepKeeps ==
    ASSUME NEW s \in Solves, GuardInv, SpawnedStep(s)
    PROVE  GuardInv'
<1> DEFINE item == Head(spawned[s])
<1>1. /\ item \in Items
      /\ Tail(spawned[s]) \in Seq(Items)
      /\ Elements(spawned[s]) \subseteq Elements(Tail(spawned[s])) \cup {item}
  BY ElementsTail, Zenon DEF SpawnedStep, GuardInv, GuardTypeOK
<1>2. /\ inPlace' \subseteq inPlace /\ failed \subseteq failed' /\ failed' \subseteq Items
      /\ item \notin inPlace' \/ item \in failed'
  BY <1>1, CleanItemFacts DEF SpawnedStep, GuardInv
<1>3. /\ spawned' \in [Solves -> Seq(Items)]
      /\ spawned'[s] = Tail(spawned[s])
      /\ \A r \in Solves : r # s => spawned'[r] = spawned[r]
      /\ pending' = pending
  BY <1>1, Zenon DEF GuardInv, GuardTypeOK, SpawnedStep
<1>4. GuardTypeOK'
  BY <1>2, <1>3, Zenon DEF GuardInv, GuardTypeOK, SpawnedStep
<1>5. ASSUME NEW x, Tracked(x), x # item
      PROVE  Tracked(x)'
  <2>1. PICK r \in Solves : x \in Elements(pending[r]) \cup Elements(spawned[r])
    BY <1>5, Zenon DEF Tracked
  <2>2. x \in Elements(pending'[r]) \cup Elements(spawned'[r])
    BY <2>1, <1>1, <1>3, <1>5, Zenon
  <2> QED BY <2>2 DEF Tracked
<1> HIDE DEF item
<1> QED BY <1>2, <1>4, <1>5 DEF GuardInv, NothingForgotten, SpawnedStep

(* A call left in flight by a drop adds at most its own item. *)
LEMMA OrphanedFacts ==
    ASSUME NEW calls, calls \subseteq [op : {"present", "cleanup"}, item : Items],
           GuardTypeOK, Orphaned(calls)
    PROVE  /\ inPlace' \subseteq inPlace \cup {c.item : c \in {d \in calls : d.op = "present"}}
           /\ late' \subseteq [op : {"present", "cleanup"}, item : Items]
BY Zenon DEF Orphaned, GuardTypeOK

(* Drop hands the whole list over, or leaves it to nobody: the item of a call
   of present in flight was pushed, so it goes the same way. *)
LEMMA DropKeeps ==
    ASSUME NEW s \in Solves, NEW calls, calls \subseteq [op : {"present", "cleanup"}, item : Items],
           \A c \in calls : c.op = "present" => c.item \in Elements(pending[s]),
           spawned[s] = <<>>, GuardInv, Drop(s, calls)
    PROVE  GuardInv' /\ pending'[s] = <<>> /\ \A r \in Solves \ {s} : spawned'[r] = spawned[r]
<1>1. /\ inPlace' \subseteq inPlace \cup Elements(pending[s])
      /\ late' \subseteq [op : {"present", "cleanup"}, item : Items]
  BY OrphanedFacts DEF Drop, GuardInv
<1>2. Elements(pending[s]) \subseteq Items /\ Elements(spawned[s]) = {}
  BY ElementsType, ElementsEmpty, Zenon DEF GuardInv, GuardTypeOK
<1>3. /\ pending' \in [Solves -> Seq(Items)] /\ spawned' \in [Solves -> Seq(Items)]
      /\ pending'[s] = <<>>
      /\ \A r \in Solves \ {s} : pending'[r] = pending[r] /\ spawned'[r] = spawned[r]
  BY Zenon DEF Drop, GuardInv, GuardTypeOK
<1>4. /\ abandoned \subseteq abandoned' /\ abandoned' \subseteq Items
      /\ \/ spawned'[s] = pending[s]
         \/ Elements(pending[s]) \subseteq abandoned'
  BY <1>2, Zenon DEF Drop, GuardInv, GuardTypeOK
<1>5. GuardTypeOK'
  BY <1>1, <1>2, <1>3, <1>4, Zenon DEF Drop, GuardInv, GuardTypeOK
<1>6. ASSUME NEW x \in Elements(pending[s])
      PROVE  Tracked(x)' \/ x \in abandoned'
  BY <1>4, <1>6, Zenon DEF Tracked
<1>7. ASSUME NEW x \in inPlace'
      PROVE  Tracked(x)' \/ x \in failed' \/ x \in abandoned' \/ x \in stray'
  <2>1. CASE x \in Elements(pending[s])
    BY <2>1, <1>6, Zenon
  <2>2. CASE x \notin Elements(pending[s])
    <3>1. x \in inPlace
      BY <1>1, <2>2, Zenon
    <3>2. CASE Tracked(x)
      <4>1. PICK r \in Solves : x \in Elements(pending[r]) \cup Elements(spawned[r])
        BY <3>2, Zenon DEF Tracked
      <4>2. r # s
        BY <4>1, <2>2, <1>2, Zenon
      <4> QED BY <4>1, <4>2, <1>3, Zenon DEF Tracked
    <3>3. CASE x \in failed \cup abandoned \cup stray
      BY <3>3, <1>4, Zenon DEF Drop
    <3> QED BY <3>1, <3>2, <3>3, Zenon DEF GuardInv, NothingForgotten
  <2> QED BY <2>1, <2>2, Zenon
<1> QED BY <1>3, <1>5, <1>7, Zenon DEF GuardInv, NothingForgotten

(* When the runtime stops, what the guards and tasks had is abandoned. *)
LEMMA RuntimeStopsKeeps ==
    ASSUME NEW calls, calls \subseteq [op : {"present", "cleanup"}, item : Items],
           \A c \in calls : c.op = "present" => Tracked(c.item),
           GuardInv, RuntimeStops(calls)
    PROVE  GuardInv' /\ \A s \in Solves : spawned'[s] = <<>>
<1>1. \A x \in inPlace' : x \in inPlace \/ Tracked(x)
  BY Zenon DEF RuntimeStops
<1>2. \A x : Tracked(x) => x \in abandoned'
  <2> SUFFICES ASSUME NEW x, Tracked(x) PROVE x \in abandoned'
    BY Zenon
  <2>1. PICK s \in Solves : x \in Elements(pending[s]) \cup Elements(spawned[s])
    BY Zenon DEF Tracked
  <2> QED BY <2>1, Zenon DEF RuntimeStops
<1>3. inPlace' \subseteq Items
  BY DEF RuntimeStops, GuardInv, GuardTypeOK
<1>4. \A s \in Solves : Elements(pending[s]) \cup Elements(spawned[s]) \subseteq Items
  BY ElementsType, Zenon DEF GuardInv, GuardTypeOK
<1>5. abandoned' \subseteq Items /\ abandoned \subseteq abandoned'
  BY <1>4, Zenon DEF RuntimeStops, GuardInv, GuardTypeOK
<1>6. /\ pending' \in [Solves -> Seq(Items)] /\ spawned' \in [Solves -> Seq(Items)]
      /\ runtime' \in BOOLEAN
      /\ UNCHANGED <<late, failed, stray>>
  <2>1. <<>> \in Seq(Items)
    OBVIOUS
  <2> QED BY <2>1, Zenon DEF RuntimeStops
<1>7. GuardTypeOK'
  BY <1>3, <1>5, <1>6, Zenon DEF GuardInv, GuardTypeOK
<1> QED BY <1>1, <1>2, <1>5, <1>7, Zenon DEF GuardInv, NothingForgotten, RuntimeStops

(* A request that arrives after its solve was gone is accounted for. *)
LEMMA LandKeeps ==
    ASSUME GuardInv, Land
    PROVE  GuardInv'
<1>1. PICK c \in late :
         /\ late' = late \ {c}
         /\ \/ UNCHANGED <<inPlace, stray>>
            \/ /\ c.op = "present"
               /\ inPlace' = inPlace \cup {c.item}
               /\ stray' = stray \cup {c.item}
            \/ /\ c.op = "cleanup"
               /\ inPlace' = inPlace \ {c.item}
               /\ UNCHANGED stray
         /\ UNCHANGED <<pending, spawned, runtime, failed, abandoned>>
  BY Zenon DEF Land
<1>2. c.item \in Items
  BY Zenon DEF GuardInv, GuardTypeOK
<1>3. GuardTypeOK'
  BY <1>1, <1>2, Zenon DEF GuardInv, GuardTypeOK
<1>4. \A x : Tracked(x)' <=> Tracked(x)
  BY <1>1, Zenon DEF Tracked
<1>5. \A x \in inPlace' : x \in inPlace \/ x \in stray'
  BY <1>1, Zenon
<1> QED BY <1>1, <1>3, <1>4, <1>5, Zenon DEF GuardInv, NothingForgotten

-----------------------------------------------------------------------------
(* The steps the solvers share. *)

(* The item being presented was pushed. *)
PresentTracked ==
    \A s \in Solves : pc[s] = "present" =>
        current[s] \in 1..N /\ ItemOf[s][current[s]] \in Elements(pending[s])

(* A solve has a spawned task only once it is gone. *)
SpawnedAfterDrop == \A s \in Solves : pc[s] \notin Gone => spawned[s] = <<>>

(* The inductive invariant of both solvers. *)
SolverInv(states) ==
    SolverTypeOK(states) /\ NothingForgotten /\ PresentTracked /\ SpawnedAfterDrop

(* Nothing is in place at the start. *)
LEMMA SolverInitInv ==
    ASSUME NEW states, "collect" \in states, SolverInit
    PROVE  SolverInv(states)
<1>1. GuardTypeOK
  <2>1. <<>> \in Seq(Items)
    OBVIOUS
  <2> QED BY <2>1, Zenon DEF SolverInit, GuardInit, GuardTypeOK
<1>2. SolverTypeOK(states)
  BY <1>1, NAssumption, SMTT(30) DEF SolverInit, SolverTypeOK
<1>3. NothingForgotten /\ PresentTracked /\ SpawnedAfterDrop
  BY Zenon DEF SolverInit, GuardInit, NothingForgotten, PresentTracked, SpawnedAfterDrop
<1> QED BY <1>2, <1>3, Zenon DEF SolverInv

(* The provider call a solve waits for is about one of its pending items. *)
LEMMA InFlightFacts ==
    ASSUME NEW states, SolverInv(states), NEW s \in Solves
    PROVE  /\ InFlight(s) \subseteq [op : {"present", "cleanup"}, item : Items]
           /\ \A c \in InFlight(s) : c.op = "present" => c.item \in Elements(pending[s])
<1>1. CASE pc[s] = "present"
  <2>1. ItemOf[s][current[s]] \in Items /\ ItemOf[s][current[s]] \in Elements(pending[s])
    BY <1>1, ItemOfAssumption, Zenon DEF SolverInv, PresentTracked
  <2> QED BY <2>1, <1>1, SMTT(30) DEF InFlight
<1>2. CASE pc[s] # "present" /\ pc[s] = "run" /\ pending[s] # <<>>
  <2>1. Head(pending[s]) \in Items
    BY <1>2, ElementsTail, Zenon DEF SolverInv, SolverTypeOK, GuardTypeOK
  <2> QED BY <2>1, <1>2 DEF InFlight
<1>3. CASE pc[s] # "present" /\ ~(pc[s] = "run" /\ pending[s] # <<>>)
  BY <1>3, Zenon DEF InFlight
<1> QED BY <1>1, <1>2, <1>3, Zenon

(* Finalize and the CA's validation leave the guard alone. *)
LEMMA FinalizeKeeps ==
    ASSUME NEW states, "run" \in states, SolverInv(states), NEW s \in Solves,
           Finalize(s) \/ Validate(s)
    PROVE  SolverInv(states)'
<1>1. UNCHANGED guardVars /\ UNCHANGED <<queue, current, readied>>
  BY Zenon DEF Finalize, Validate
<1>2. GuardTypeOK' /\ NothingForgotten'
  BY <1>1, Zenon DEF SolverInv, SolverTypeOK, GuardTypeOK, NothingForgotten, Tracked, guardVars
<1>3. CASE Finalize(s)
  <2>1. pc' = [pc EXCEPT ![s] = "run"] /\ outcome' \in {[outcome EXCEPT ![s] = "ok"], [outcome EXCEPT ![s] = "err"]}
        /\ UNCHANGED authz /\ pc[s] = "finalize"
    BY <1>3, Zenon DEF Finalize, FailWith
  <2>2. SolverTypeOK(states)'
    BY <2>1, <1>1, <1>2, ZenonT(30) DEF SolverInv, SolverTypeOK
  <2>3. PresentTracked' /\ SpawnedAfterDrop'
    BY <2>1, <1>1, Zenon
       DEF SolverInv, SolverTypeOK, PresentTracked, SpawnedAfterDrop, Gone, guardVars
  <2> QED BY <1>2, <2>2, <2>3, Zenon DEF SolverInv
<1>4. CASE Validate(s)
  <2>1. UNCHANGED <<pc, outcome>> /\ authz' \in [Solves -> [1..N -> Statuses]]
    <3>1. PICK i \in readied[s] :
             authz' = [authz EXCEPT ![s][i] = IF ItemOf[s][i] \in inPlace THEN "valid" ELSE "invalid"]
      BY <1>4, Zenon DEF Validate
    <3>2. "valid" \in Statuses /\ "invalid" \in Statuses
      BY Zenon DEF Statuses
    <3>3. i \in 1..N
      BY Zenon DEF SolverInv, SolverTypeOK
    <3> QED BY <1>4, <3>1, <3>2, <3>3, Zenon DEF SolverInv, SolverTypeOK, Validate
  <2>2. SolverTypeOK(states)'
    BY <2>1, <1>1, <1>2, Zenon DEF SolverInv, SolverTypeOK
  <2>3. PresentTracked' /\ SpawnedAfterDrop'
    BY <2>1, <1>1, Zenon DEF SolverInv, PresentTracked, SpawnedAfterDrop, guardVars
  <2> QED BY <1>2, <2>2, <2>3 DEF SolverInv
<1> QED BY <1>3, <1>4, Zenon

(* Tearing down: run's steps, then the return with an empty list. *)
LEMMA TeardownKeeps ==
    ASSUME NEW states, "done" \in states, SolverInv(states), NEW s \in Solves, Teardown(s)
    PROVE  SolverInv(states)'
<1>1. pc[s] = "run" /\ UNCHANGED <<authz, queue, current, readied, outcome>>
  BY Zenon DEF Teardown
<1>2. CASE RunStep(s) /\ UNCHANGED pc
  <2>1. GuardInv'
    BY <1>2, RunStepKeeps, Zenon DEF SolverInv, SolverTypeOK, GuardInv
  <2>2. SolverTypeOK(states)'
    BY <2>1, <1>1, <1>2, Zenon DEF SolverInv, SolverTypeOK, GuardInv
  <2>3. PresentTracked'
    BY <1>1, <1>2, Zenon DEF RunStep, SolverInv, SolverTypeOK, GuardTypeOK, PresentTracked
  <2>4. SpawnedAfterDrop'
    BY <1>1, <1>2, Zenon DEF RunStep, SolverInv, SpawnedAfterDrop
  <2> QED BY <2>1, <2>2, <2>3, <2>4, Zenon DEF SolverInv, GuardInv
<1>3. CASE pc' = [pc EXCEPT ![s] = "done"] /\ UNCHANGED guardVars
  <2>1. GuardTypeOK' /\ NothingForgotten'
    BY <1>3, Zenon DEF SolverInv, SolverTypeOK, GuardTypeOK, NothingForgotten, Tracked, guardVars
  <2>2. SolverTypeOK(states)'
    BY <2>1, <1>1, <1>3, ZenonT(30) DEF SolverInv, SolverTypeOK
  <2>3. PresentTracked' /\ SpawnedAfterDrop'
    BY <1>1, <1>3, Zenon
       DEF SolverInv, SolverTypeOK, PresentTracked, SpawnedAfterDrop, Gone, guardVars
  <2> QED BY <2>1, <2>2, <2>3, Zenon DEF SolverInv
<1> QED BY <1>2, <1>3, Zenon DEF Teardown

(* The future is dropped. *)
LEMMA DropSolveKeeps ==
    ASSUME NEW states, "dropped" \in states, SolverInv(states), NEW s \in Solves, DropSolve(s)
    PROVE  SolverInv(states)'
<1>1. /\ pc' = [pc EXCEPT ![s] = "dropped"] /\ pc[s] \notin Gone
      /\ UNCHANGED <<authz, queue, current, readied, outcome>>
      /\ Drop(s, InFlight(s))
  BY Zenon DEF DropSolve
<1>2. spawned[s] = <<>>
  BY <1>1, Zenon DEF SolverInv, SpawnedAfterDrop
<1>3. GuardInv' /\ \A r \in Solves \ {s} : spawned'[r] = spawned[r]
  BY <1>1, <1>2, InFlightFacts, DropKeeps, Zenon DEF SolverInv, SolverTypeOK, GuardInv
<1>4. SolverTypeOK(states)'
  BY <1>1, <1>3, Zenon DEF SolverInv, SolverTypeOK, GuardInv
<1>5. PresentTracked'
  BY <1>1, Zenon DEF Drop, SolverInv, SolverTypeOK, GuardTypeOK, PresentTracked
<1>6. SpawnedAfterDrop'
  BY <1>1, <1>3, Zenon DEF SolverInv, SolverTypeOK, SpawnedAfterDrop, Gone
<1> QED BY <1>3, <1>4, <1>5, <1>6, Zenon DEF SolverInv, GuardInv

(* The spawned task, a late request and the end of the runtime. *)
LEMMA BackgroundKeeps ==
    ASSUME NEW states, "dropped" \in states, "done" \in states, SolverInv(states),
           (\E s \in Solves : SpawnedTask(s)) \/ LateCall \/ Shutdown
    PROVE  SolverInv(states)'
<1>1. CASE \E s \in Solves : SpawnedTask(s)
  <2>1. PICK s \in Solves : SpawnedStep(s) /\ UNCHANGED solverVars
    BY <1>1, Zenon DEF SpawnedTask
  <2>2. GuardInv'
    BY <2>1, SpawnedStepKeeps, Zenon DEF SolverInv, SolverTypeOK, GuardInv
  <2>3. SolverTypeOK(states)'
    BY <2>1, <2>2, Zenon DEF SolverInv, SolverTypeOK, GuardInv, solverVars
  <2>4. PresentTracked'
    BY <2>1, Zenon DEF SpawnedStep, SolverInv, PresentTracked, solverVars
  <2>5. SpawnedAfterDrop'
    <3>1. pc[s] \in Gone
      BY <2>1, Zenon DEF SpawnedStep, SolverInv, SpawnedAfterDrop
    <3>2. \A r \in Solves : r # s => spawned'[r] = spawned[r]
      BY <2>1, Zenon DEF SpawnedStep, SolverInv, SolverTypeOK, GuardTypeOK
    <3> QED BY <3>1, <3>2, <2>1, Zenon DEF SolverInv, SpawnedAfterDrop, solverVars
  <2> QED BY <2>2, <2>3, <2>4, <2>5, Zenon DEF SolverInv, GuardInv
<1>2. CASE LateCall
  <2>1. GuardInv' /\ UNCHANGED solverVars /\ UNCHANGED <<pending, spawned>>
    BY <1>2, LandKeeps, Zenon DEF LateCall, Land, SolverInv, SolverTypeOK, GuardInv
  <2>2. SolverTypeOK(states)'
    BY <2>1, Zenon DEF SolverInv, SolverTypeOK, GuardInv, solverVars
  <2>3. PresentTracked' /\ SpawnedAfterDrop'
    BY <2>1, Zenon DEF SolverInv, PresentTracked, SpawnedAfterDrop, solverVars
  <2> QED BY <2>1, <2>2, <2>3, Zenon DEF SolverInv, GuardInv
<1>3. CASE Shutdown
  <2> DEFINE calls == UNION {InFlight(s) : s \in Solves}
  <2>1. /\ calls \subseteq [op : {"present", "cleanup"}, item : Items]
        /\ \A c \in calls : c.op = "present" => Tracked(c.item)
    BY InFlightFacts, Zenon DEF Tracked
  <2>2. GuardInv' /\ \A s \in Solves : spawned'[s] = <<>>
    BY <1>3, <2>1, RuntimeStopsKeeps, Zenon DEF Shutdown, SolverInv, SolverTypeOK, GuardInv
  <2>3. /\ pc' = [s \in Solves |-> IF pc[s] = "done" THEN "done" ELSE "dropped"]
        /\ UNCHANGED <<authz, queue, current, readied, outcome>>
    BY <1>3, Zenon DEF Shutdown
  <2>4. SolverTypeOK(states)'
    BY <2>2, <2>3, Zenon DEF SolverInv, SolverTypeOK, GuardInv
  <2>5. PresentTracked' /\ SpawnedAfterDrop'
    BY <2>2, <2>3, Zenon DEF PresentTracked, SpawnedAfterDrop
  <2> QED BY <2>2, <2>4, <2>5, Zenon DEF SolverInv, GuardInv
<1> QED BY <1>1, <1>2, <1>3, Zenon

(* A step of a solve that leaves the guard alone and moves on. *)
LEMMA LocalStepKeeps ==
    ASSUME NEW states, SolverInv(states), NEW s \in Solves, NEW st, st # "present",
           pc[s] \notin Gone, pc' = [pc EXCEPT ![s] = st],
           UNCHANGED guardVars, UNCHANGED current, SolverTypeOK(states)'
    PROVE  SolverInv(states)'
<1>1. NothingForgotten'
  BY Zenon DEF SolverInv, NothingForgotten, Tracked, guardVars
<1>2. PresentTracked' /\ SpawnedAfterDrop'
  BY Zenon DEF SolverInv, SolverTypeOK, PresentTracked, SpawnedAfterDrop, guardVars
<1> QED BY <1>1, <1>2, Zenon DEF SolverInv

(* The step that pushes the item of challenge i and presents it. *)
LEMMA PushStepKeeps ==
    ASSUME NEW states, SolverInv(states), NEW s \in Solves, NEW i \in 1..N,
           pc[s] \notin Gone, pc' = [pc EXCEPT ![s] = "present"], "present" \in states,
           current' = [current EXCEPT ![s] = i], Push(s, ItemOf[s][i]),
           queue' \in [Solves -> SUBSET (1..N)], UNCHANGED <<authz, readied, outcome>>
    PROVE  SolverInv(states)'
<1>1. GuardInv' /\ ItemOf[s][i] \in Elements(pending'[s])
  BY ItemOfAssumption, PushKeeps, ZenonT(30) DEF SolverInv, SolverTypeOK, GuardInv
<1>2. i \in 0..N
  BY NAssumption
<1>3. SolverTypeOK(states)'
  BY <1>1, <1>2, Zenon DEF SolverInv, SolverTypeOK, GuardInv
<1>4. PresentTracked'
  <2> SUFFICES ASSUME NEW r \in Solves, pc'[r] = "present"
               PROVE  current'[r] \in 1..N /\ ItemOf[r][current'[r]] \in Elements(pending'[r])
    BY Zenon DEF PresentTracked
  <2>1. CASE r = s
    BY <2>1, <1>1, Zenon DEF SolverInv, SolverTypeOK
  <2>2. CASE r # s
    BY <2>2, Zenon DEF Push, SolverInv, SolverTypeOK, GuardTypeOK, PresentTracked
  <2> QED BY <2>1, <2>2, Zenon
<1>5. SpawnedAfterDrop'
  BY Zenon DEF Push, SolverInv, SolverTypeOK, SpawnedAfterDrop, Gone
<1> QED BY <1>1, <1>3, <1>4, <1>5, Zenon DEF SolverInv, GuardInv

(* The step in which present returns. *)
LEMMA PresentStepKeeps ==
    ASSUME NEW states, SolverInv(states), NEW s \in Solves, NEW ok \in BOOLEAN,
           NEW st \in states, st # "present",
           pc[s] = "present", pc' = [pc EXCEPT ![s] = st],
           Presented(ItemOf[s][current[s]], ok),
           outcome' \in [Solves -> {"none", "ok", "err"}],
           UNCHANGED <<authz, queue, current, readied>>
    PROVE  SolverInv(states)'
<1>1. current[s] \in 1..N /\ ItemOf[s][current[s]] \in Elements(pending[s])
  BY Zenon DEF SolverInv, PresentTracked
<1>2. ItemOf[s][current[s]] \in Items
  BY <1>1, ItemOfAssumption, Zenon
<1>3. GuardInv'
  BY <1>1, <1>2, PresentedKeeps, Zenon DEF SolverInv, SolverTypeOK, GuardInv
<1>4. SolverTypeOK(states)'
  BY <1>3, ZenonT(30) DEF SolverInv, SolverTypeOK, GuardInv
<1>5. PresentTracked' /\ SpawnedAfterDrop'
  BY Zenon DEF Presented, SolverInv, SolverTypeOK, PresentTracked, SpawnedAfterDrop, Gone
<1> QED BY <1>3, <1>4, <1>5, Zenon DEF SolverInv, GuardInv

-----------------------------------------------------------------------------
(* Whose proofs a step may take away. *)

TearingDown == {"run"} \cup Gone

Owns(s, x) == \E i \in 1..N : ItemOf[s][i] = x

(* A guard has only items of its own solve, and a cleanup that nobody waits
   for is of a solve that was tearing down. *)
OwnItems ==
    /\ \A s \in Solves : \A x \in Elements(pending[s]) \cup Elements(spawned[s]) : Owns(s, x)
    /\ \A c \in late : c.op = "cleanup" =>
          \E u \in Solves : pc[u] \in TearingDown /\ Owns(u, c.item)

(* A step that ends no teardown, and takes away only what belongs to a solve
   that is tearing down. *)
TakesOnlyOwn ==
    /\ \A u \in Solves : pc[u] \in TearingDown => pc'[u] \in TearingDown
    /\ \A x \in inPlace \ inPlace' : \E u \in Solves : pc'[u] \in TearingDown /\ Owns(u, x)

(* The proof x of solve s is there, or a solve that shares it withdrew it. *)
Kept(s, x) == x \in inPlace \/ Withdrawn(s, x)

(* Such a step keeps the proofs of every solve that goes on. *)
LEMMA OthersKept ==
    ASSUME TakesOnlyOwn, NEW s \in Solves, pc'[s] \notin TearingDown, NEW x, Kept(s, x)
    PROVE  Kept(s, x)'
<1>1. CASE x \in inPlace'
  BY <1>1, Zenon DEF Kept
<1>2. CASE x \notin inPlace' /\ x \in inPlace
  BY <1>2, Zenon DEF TakesOnlyOwn, Kept, Withdrawn, Owns, TearingDown
<1>3. CASE x \notin inPlace
  BY <1>3, Zenon DEF TakesOnlyOwn, Kept, Withdrawn, TearingDown
<1> QED BY <1>1, <1>2, <1>3, Zenon

(* A cleanup takes away its own item, if any. *)
LEMMA CleanItemTakes ==
    ASSUME NEW item, CleanItem(item)
    PROVE  inPlace \ inPlace' \subseteq {item}
BY Zenon DEF CleanItem

(* The steps of a solve before its teardown: the guard is left alone, pushed
   to or presented for. *)
LEMMA LocalStepTakesNothing ==
    ASSUME OwnItems, NEW states, pc \in [Solves -> states], NEW s \in Solves, NEW st,
           pc[s] \notin TearingDown, pc' = [pc EXCEPT ![s] = st],
           inPlace \subseteq inPlace', UNCHANGED <<spawned, late>>,
           \A r \in Solves : \A x \in Elements(pending'[r]) : Owns(r, x)
    PROVE  TakesOnlyOwn /\ OwnItems'
<1>1. \A u \in Solves : pc[u] \in TearingDown => pc'[u] \in TearingDown
  BY Zenon
<1>2. TakesOnlyOwn
  BY <1>1, Zenon DEF TakesOnlyOwn
<1> QED BY <1>1, <1>2, SMTT(30) DEF OwnItems, Owns

(* What a solve pushes is its own. *)
LEMMA PushesOwn ==
    ASSUME OwnItems, pending \in [Solves -> Seq(Items)], NEW s \in Solves, NEW i \in 1..N,
           Push(s, ItemOf[s][i])
    PROVE  \A r \in Solves : \A x \in Elements(pending'[r]) : Owns(r, x)
<1>1. ItemOf[s][i] \in Items /\ Owns(s, ItemOf[s][i])
  BY ItemOfAssumption, Zenon DEF Owns
<1>2. pending[s] \in Seq(Items)
  BY Zenon
<1>3. Elements(Append(pending[s], ItemOf[s][i])) = Elements(pending[s]) \cup {ItemOf[s][i]}
  BY <1>1, <1>2, ElementsAppend, Zenon
<1>4. pending' = [pending EXCEPT ![s] = Append(@, ItemOf[s][i])]
  BY Zenon DEF Push
<1> QED BY <1>1, <1>3, <1>4, Zenon DEF OwnItems

(* The elements of a list whose first element was removed. *)
LEMMA ElementsOfTail ==
    ASSUME NEW q \in Seq(Items), q # <<>>
    PROVE  Elements(Tail(q)) \subseteq Elements(q) /\ Head(q) \in Elements(q)
<1>1. /\ Head(q) = q[1] /\ Len(q) \in Nat \ {0}
      /\ DOMAIN q = 1..Len(q) /\ DOMAIN Tail(q) = 1..Len(q) - 1
      /\ \A i \in 1..Len(q) - 1 : Tail(q)[i] = q[i + 1]
  OBVIOUS
<1>2. \A i \in 1..Len(q) - 1 : i + 1 \in 1..Len(q)
  BY <1>1
<1>3. 1 \in 1..Len(q)
  BY <1>1, SMTT(30)
<1> QED BY <1>1, <1>2, <1>3, Zenon DEF Elements

(* Finalize and the CA's validation take nothing away. *)
LEMMA FinalizeTakesNothing ==
    ASSUME NEW states, SolverInv(states), OwnItems, NEW s \in Solves, Finalize(s) \/ Validate(s)
    PROVE  TakesOnlyOwn /\ OwnItems'
<1>1. UNCHANGED guardVars
  BY Zenon DEF Finalize, Validate
<1>2. \A u \in Solves : pc[u] \in TearingDown => pc'[u] \in TearingDown
  BY Zenon DEF Finalize, Validate, FailWith, TearingDown, SolverInv, SolverTypeOK
<1> QED BY <1>1, <1>2, Zenon DEF TakesOnlyOwn, OwnItems, guardVars, Owns

(* run takes away what is in its own list. *)
LEMMA TeardownTakesOwn ==
    ASSUME NEW states, SolverInv(states), OwnItems, NEW s \in Solves, Teardown(s)
    PROVE  TakesOnlyOwn /\ OwnItems'
<1>1. /\ pc[s] = "run" /\ pc \in [Solves -> states]
      /\ pending \in [Solves -> Seq(Items)]
      /\ UNCHANGED pc \/ pc' = [pc EXCEPT ![s] = "done"]
  BY Zenon DEF Teardown, SolverInv, SolverTypeOK, GuardTypeOK
<1>2. \A u \in Solves : pc[u] \in TearingDown => pc'[u] \in TearingDown
  BY <1>1, Zenon DEF TearingDown, Gone
<1>3. pc'[s] \in TearingDown
  BY <1>1, Zenon DEF TearingDown, Gone
<1>4. CASE RunStep(s)
  <2>1. pending[s] # <<>> /\ CleanItem(Head(pending[s]))
        /\ pending' = [pending EXCEPT ![s] = Tail(@)] /\ UNCHANGED <<spawned, late>>
    BY <1>4, Zenon DEF RunStep
  <2>2. Elements(Tail(pending[s])) \subseteq Elements(pending[s]) /\ Head(pending[s]) \in Elements(pending[s])
    BY <1>1, <2>1, ElementsOfTail, Zenon
  <2>3. inPlace \ inPlace' \subseteq {Head(pending[s])}
    BY <2>1, CleanItemTakes, Zenon
  <2>4. Owns(s, Head(pending[s]))
    BY <2>2, Zenon DEF OwnItems
  <2>5. TakesOnlyOwn
    BY <1>2, <1>3, <2>3, <2>4, Zenon DEF TakesOnlyOwn
  <2>6. \A r \in Solves : Elements(pending'[r]) \subseteq Elements(pending[r])
    BY <1>1, <2>1, <2>2, Zenon
  <2>7. OwnItems'
    BY <1>2, <2>1, <2>6, ZenonT(30) DEF OwnItems, Owns
  <2> QED BY <2>5, <2>7, Zenon
<1>5. CASE UNCHANGED guardVars
  BY <1>2, <1>5, Zenon DEF TakesOnlyOwn, OwnItems, guardVars, Owns
<1> QED BY <1>4, <1>5, Zenon DEF Teardown

(* The call a solve waits for is about one of its own items, and is a cleanup
   only while it tears down. *)
LEMMA InFlightOwn ==
    ASSUME NEW states, SolverInv(states), OwnItems, NEW s \in Solves
    PROVE  \A c \in InFlight(s) : Owns(s, c.item) /\ (c.op = "cleanup" => pc[s] = "run")
<1>1. CASE pc[s] = "present"
  BY <1>1, SMTT(30) DEF InFlight, Owns, SolverInv, PresentTracked
<1>2. CASE pc[s] # "present" /\ pc[s] = "run" /\ pending[s] # <<>>
  <2>1. Head(pending[s]) \in Elements(pending[s])
    BY <1>2, ElementsOfTail, Zenon DEF SolverInv, SolverTypeOK, GuardTypeOK
  <2> QED BY <2>1, <1>2 DEF InFlight, OwnItems
<1>3. CASE pc[s] # "present" /\ ~(pc[s] = "run" /\ pending[s] # <<>>)
  BY <1>3, Zenon DEF InFlight
<1> QED BY <1>1, <1>2, <1>3, Zenon

(* What is left of a dropped solve is its own. *)
LEMMA DropTakesOwn ==
    ASSUME NEW states, SolverInv(states), OwnItems, NEW s \in Solves, DropSolve(s)
    PROVE  TakesOnlyOwn /\ OwnItems'
<1>1. /\ pc' = [pc EXCEPT ![s] = "dropped"] /\ pc \in [Solves -> states]
      /\ pending \in [Solves -> Seq(Items)] /\ spawned \in [Solves -> Seq(Items)]
      /\ Orphaned(InFlight(s))
      /\ pending' = [pending EXCEPT ![s] = <<>>]
      /\ UNCHANGED spawned \/ spawned' = [spawned EXCEPT ![s] = pending[s]]
  BY Zenon DEF DropSolve, Drop, SolverInv, SolverTypeOK, GuardTypeOK
<1>2. pc'[s] \in TearingDown /\ \A u \in Solves : pc[u] \in TearingDown => pc'[u] \in TearingDown
  BY <1>1, Zenon DEF TearingDown, Gone
<1>3. \A c \in InFlight(s) : Owns(s, c.item)
  BY InFlightOwn, Zenon
<1>4. /\ \A x \in inPlace \ inPlace' : \E c \in InFlight(s) : x = c.item
      /\ \A c \in late' : c \in late \/ c \in InFlight(s)
  BY <1>1, Zenon DEF Orphaned
<1>5. TakesOnlyOwn
  BY <1>2, <1>3, <1>4, Zenon DEF TakesOnlyOwn
<1>6. \A r \in Solves : Elements(pending'[r]) \cup Elements(spawned'[r])
                            \subseteq Elements(pending[r]) \cup Elements(spawned[r])
  BY <1>1, ElementsEmpty, Zenon
<1>7. \A c \in late' : c.op = "cleanup" => \E u \in Solves : pc'[u] \in TearingDown /\ Owns(u, c.item)
  BY <1>2, <1>3, <1>4, Zenon DEF OwnItems
<1>8. OwnItems'
  BY <1>6, <1>7, Zenon DEF OwnItems, Owns
<1> QED BY <1>5, <1>8

(* The spawned task, a late request and the end of the runtime take away only
   what belonged to a solve that is gone. *)
LEMMA BackgroundTakesOwn ==
    ASSUME NEW states, SolverInv(states), OwnItems,
           (\E s \in Solves : SpawnedTask(s)) \/ LateCall \/ Shutdown
    PROVE  TakesOnlyOwn /\ OwnItems'
<1>1. CASE \E s \in Solves : SpawnedTask(s)
  <2>1. PICK s \in Solves : SpawnedStep(s) /\ UNCHANGED solverVars
    BY <1>1, Zenon DEF SpawnedTask
  <2>2. /\ spawned[s] # <<>> /\ spawned \in [Solves -> Seq(Items)]
        /\ CleanItem(Head(spawned[s]))
        /\ spawned' = [spawned EXCEPT ![s] = Tail(@)]
        /\ UNCHANGED <<pc, pending, late>>
    BY <2>1, Zenon DEF SpawnedStep, solverVars, SolverInv, SolverTypeOK, GuardTypeOK
  <2>3. pc[s] \in TearingDown
    BY <2>2, Zenon DEF SolverInv, SpawnedAfterDrop, TearingDown
  <2>4. Elements(Tail(spawned[s])) \subseteq Elements(spawned[s]) /\ Head(spawned[s]) \in Elements(spawned[s])
    BY <2>2, ElementsOfTail, Zenon
  <2>5. Owns(s, Head(spawned[s])) /\ inPlace \ inPlace' \subseteq {Head(spawned[s])}
    BY <2>2, <2>4, CleanItemTakes, Zenon DEF OwnItems
  <2>6. TakesOnlyOwn
    BY <2>2, <2>3, <2>5, Zenon DEF TakesOnlyOwn
  <2>7. \A r \in Solves : Elements(spawned'[r]) \subseteq Elements(spawned[r])
    BY <2>2, <2>4, Zenon
  <2> QED BY <2>2, <2>6, <2>7, ZenonT(90) DEF OwnItems, Owns
<1>2. CASE LateCall
  <2>1. PICK c \in late :
           /\ late' = late \ {c}
           /\ inPlace \subseteq inPlace' \/ (c.op = "cleanup" /\ inPlace' = inPlace \ {c.item})
           /\ UNCHANGED <<pending, spawned, pc>>
    BY <1>2, Zenon DEF LateCall, Land, solverVars
  <2> QED BY <2>1 DEF TakesOnlyOwn, OwnItems, Owns
<1>3. CASE Shutdown
  <2>1. /\ pc' = [s \in Solves |-> IF pc[s] = "done" THEN "done" ELSE "dropped"]
        /\ pending' = [s \in Solves |-> <<>>] /\ spawned' = [s \in Solves |-> <<>>]
        /\ UNCHANGED late
        /\ \A x \in inPlace \ inPlace' : \E u \in Solves : \E c \in InFlight(u) : x = c.item
    BY <1>3 DEF Shutdown, RuntimeStops
  <2>2. \A u \in Solves : pc'[u] \in TearingDown
    BY <2>1, Zenon DEF TearingDown, Gone
  <2>3. TakesOnlyOwn
    BY <2>1, <2>2, InFlightOwn, Zenon DEF TakesOnlyOwn
  <2>4. \A s \in Solves : Elements(pending'[s]) = {} /\ Elements(spawned'[s]) = {}
    BY <2>1, ElementsEmpty, Zenon
  <2> QED BY <2>1, <2>2, <2>3, <2>4, ZenonT(30) DEF OwnItems, Owns
<1> QED BY <1>1, <1>2, <1>3, Zenon

-----------------------------------------------------------------------------
(* TlsAlpn01Solver. *)

TlsStates == {"collect", "next", "present", "ready", "finalize", "run", "done", "dropped"}

(* set_ready_by_url is called for a challenge of the order. *)
CurrentSet == \A s \in Solves : pc[s] = "ready" => current[s] \in 1..N

(* The inductive invariant: the shared one over this solver's states, and what
   the type of `readied` needs. *)
TlsInv == SolverInv(TlsStates) /\ CurrentSet

(* The first loop of present_all leaves the guard empty. *)
LEMMA TlsCollectKeeps == ASSUME TlsInv, NEW s \in Solves, TlsCollect(s) PROVE TlsInv'
<1>1. /\ pc[s] = "collect"
      /\ queue' \in [Solves -> SUBSET (1..N)]
      /\ outcome' \in [Solves -> {"none", "ok", "err"}]
      /\ UNCHANGED <<guardVars, authz, current, readied>>
  BY ZenonT(30) DEF TlsCollect, FailWith, PendingBefore, TlsInv, SolverInv, SolverTypeOK
<1>2. pc' = [pc EXCEPT ![s] = "next"] \/ pc' = [pc EXCEPT ![s] = "run"]
  BY Zenon DEF TlsCollect, FailWith
<1>3. SolverTypeOK(TlsStates)'
  BY <1>1, <1>2, Zenon DEF TlsInv, SolverInv, SolverTypeOK, GuardTypeOK, guardVars, TlsStates
<1>4. SolverInv(TlsStates)'
  BY <1>1, <1>2, <1>3, LocalStepKeeps, ZenonT(30) DEF TlsInv, Gone
<1> QED BY <1>1, <1>2, <1>4, Zenon DEF TlsInv, CurrentSet, SolverInv, SolverTypeOK

(* The domain is pushed before its certificate is presented. *)
LEMMA TlsNextChallengeKeeps == ASSUME TlsInv, NEW s \in Solves, TlsNextChallenge(s) PROVE TlsInv'
<1>1. PICK i \in 1..N :
         /\ queue' = [queue EXCEPT ![s] = @ \ {i}]
         /\ current' = [current EXCEPT ![s] = i]
         /\ Push(s, ItemOf[s][i])
  BY Zenon DEF TlsNextChallenge
<1>2. queue' \in [Solves -> SUBSET (1..N)]
  BY <1>1, Zenon DEF TlsInv, SolverInv, SolverTypeOK
<1>3. pc[s] \notin Gone /\ pc' = [pc EXCEPT ![s] = "present"] /\ "present" \in TlsStates
  BY Zenon DEF TlsNextChallenge, Gone, TlsStates
<1>4. SolverInv(TlsStates)'
  BY <1>1, <1>2, <1>3, PushStepKeeps, ZenonT(30) DEF TlsNextChallenge, TlsInv
<1> QED BY <1>1, <1>3, <1>4, Zenon DEF TlsInv, CurrentSet, SolverInv, SolverTypeOK

(* What present installed is a domain that was pushed. *)
LEMMA TlsPresentKeeps == ASSUME TlsInv, NEW s \in Solves, TlsPresent(s) PROVE TlsInv'
<1>1. /\ pc[s] = "present"
      /\ outcome' \in [Solves -> {"none", "ok", "err"}]
      /\ UNCHANGED <<authz, queue, current, readied>>
  BY Zenon DEF TlsPresent, FailWith, TlsInv, SolverInv, SolverTypeOK
<1>2. \E ok \in BOOLEAN, st \in {"ready", "run"} :
         Presented(ItemOf[s][current[s]], ok) /\ pc' = [pc EXCEPT ![s] = st]
  BY Zenon DEF TlsPresent, FailWith
<1>3. "ready" \in TlsStates /\ "run" \in TlsStates
  BY Zenon DEF TlsStates
<1>4. SolverInv(TlsStates)'
  BY <1>1, <1>2, <1>3, PresentStepKeeps, ZenonT(30) DEF TlsInv
<1> QED BY <1>1, <1>2, <1>4, ZenonT(30) DEF TlsInv, CurrentSet, SolverInv, SolverTypeOK, PresentTracked

(* The other steps leave the guard alone. *)
LEMMA TlsOtherStepsKeep ==
    ASSUME TlsInv, NEW s \in Solves, BuildFails(s) \/ SetReadyByUrl(s) \/ AllReady(s)
    PROVE  TlsInv'
<1>1. /\ pc[s] \in {"next", "ready"}
      /\ readied' \in [Solves -> SUBSET (1..N)]
      /\ outcome' \in [Solves -> {"none", "ok", "err"}]
      /\ UNCHANGED <<guardVars, authz, queue, current>>
  <2>1. CASE SetReadyByUrl(s)
    <3>1. current[s] \in 1..N
      BY <2>1, Zenon DEF SetReadyByUrl, TlsInv, CurrentSet
    <3> QED BY <2>1, <3>1, SMTT(30) DEF SetReadyByUrl, FailWith, TlsInv, SolverInv, SolverTypeOK
  <2> QED BY <2>1, Zenon DEF BuildFails, AllReady, FailWith, TlsInv, SolverInv, SolverTypeOK
<1>2. \E st \in {"next", "run", "finalize"} : pc' = [pc EXCEPT ![s] = st]
  BY Zenon DEF BuildFails, SetReadyByUrl, AllReady, FailWith
<1>3. SolverTypeOK(TlsStates)'
  BY <1>1, <1>2, ZenonT(30) DEF TlsInv, SolverInv, SolverTypeOK, GuardTypeOK, guardVars, TlsStates
<1>4. SolverInv(TlsStates)'
  BY <1>1, <1>2, <1>3, LocalStepKeeps, Zenon DEF TlsInv, Gone
<1> QED BY <1>1, <1>2, <1>4, Zenon DEF TlsInv, CurrentSet, SolverInv, SolverTypeOK

(* The steps shared with the other solver. *)
LEMMA TlsSharedStepsKeep ==
    ASSUME TlsInv,
           \/ \E s \in Solves : Finalize(s) \/ Teardown(s) \/ DropSolve(s) \/ SpawnedTask(s) \/ Validate(s)
           \/ Shutdown \/ LateCall
    PROVE  TlsInv'
<1>1. "run" \in TlsStates /\ "done" \in TlsStates /\ "dropped" \in TlsStates
  BY Zenon DEF TlsStates
<1>2. SolverInv(TlsStates)'
  BY <1>1, FinalizeKeeps, TeardownKeeps, DropSolveKeeps, BackgroundKeeps, Zenon DEF TlsInv
<1>3. ASSUME NEW r \in Solves, pc'[r] = "ready"
      PROVE  pc[r] = "ready" /\ current'[r] = current[r]
  BY <1>3, Zenon DEF Finalize, FailWith, Teardown, DropSolve, SpawnedTask, Validate, Shutdown,
              LateCall, solverVars, TlsInv, SolverInv, SolverTypeOK
<1> QED BY <1>2, <1>3, ZenonT(30) DEF TlsInv, CurrentSet

(* Every solve starts with an empty guard. *)
LEMMA TlsInvInit == TlsInit => TlsInv
<1> SUFFICES ASSUME TlsInit PROVE TlsInv
  BY Zenon
<1>1. SolverInv(TlsStates)
  BY SolverInitInv, Zenon DEF TlsInit, TlsStates
<1> QED BY <1>1, Zenon DEF TlsInv, CurrentSet, TlsInit, SolverInit

(* Every step keeps what the guards are relied on for. *)
LEMMA TlsInvStep == TlsInv /\ [TlsNext]_tlsVars => TlsInv'
<1> SUFFICES ASSUME TlsInv, [TlsNext]_tlsVars PROVE TlsInv'
  BY Zenon
<1>1. CASE \E s \in Solves : TlsCollect(s) \/ TlsNextChallenge(s) \/ TlsPresent(s)
  BY <1>1, TlsCollectKeeps, TlsNextChallengeKeeps, TlsPresentKeeps, Zenon
<1>2. CASE \E s \in Solves : BuildFails(s) \/ SetReadyByUrl(s) \/ AllReady(s)
  BY <1>2, TlsOtherStepsKeep, Zenon
<1>3. CASE \/ \E s \in Solves : Finalize(s) \/ Teardown(s) \/ DropSolve(s) \/ SpawnedTask(s) \/ Validate(s)
           \/ Shutdown \/ LateCall
  BY <1>3, TlsSharedStepsKeep, ZenonT(30)
<1>4. CASE UNCHANGED tlsVars
  BY <1>4, Zenon DEF tlsVars, guardVars, solverVars, TlsInv, CurrentSet, SolverInv, SolverTypeOK,
     GuardTypeOK, NothingForgotten, Tracked, PresentTracked, SpawnedAfterDrop
<1> QED BY <1>1, <1>2, <1>3, <1>4, Zenon DEF TlsNext

(* cleanup.rs, tls_alpn.rs: the inductive invariant holds throughout. *)
THEOREM TlsInvariance == TlsSpec => []TlsInv
BY TlsInvInit, TlsInvStep, PTL DEF TlsSpec

(* tls_alpn.rs:143-149: for any number of solves and authorizations, whatever
   fails and wherever the future is dropped, a challenge certificate that is
   served is in the list of a guard or of a spawned task, or its teardown
   failed and was reported, or there was no runtime, or it was installed by a
   call that outlived its solve. *)
THEOREM TlsForgetsNothing == TlsSpec => []NothingForgotten
<1>1. TlsInv => NothingForgotten
  BY Zenon DEF TlsInv, SolverInv
<1> QED BY <1>1, TlsInvariance, PTL

-----------------------------------------------------------------------------
(* What the CA was told to look at, or is about to be told. *)
Announced(s) == readied[s] \cup {i \in 1..N : pc[s] = "ready" /\ i = current[s]}

(* Until a solve tears down, the certificates it announced are kept. *)
AnnouncedKept ==
    \A s \in Solves : pc[s] \notin TearingDown => \A i \in Announced(s) : Kept(s, ItemOf[s][i])

TlsKeptInv == OwnItems /\ AnnouncedKept

(* A step that takes only its own items away and announces nothing new. *)
LEMMA AnnouncedStayKept ==
    ASSUME AnnouncedKept, TakesOnlyOwn,
           \A s \in Solves : pc'[s] \notin TearingDown => Announced(s)' \subseteq Announced(s)
    PROVE  AnnouncedKept'
<1> SUFFICES ASSUME NEW s \in Solves, pc'[s] \notin TearingDown, NEW i \in Announced(s)'
             PROVE  Kept(s, ItemOf[s][i])'
  BY Zenon DEF AnnouncedKept
<1>1. pc[s] \notin TearingDown /\ i \in Announced(s)
  BY Zenon DEF TakesOnlyOwn
<1>2. Kept(s, ItemOf[s][i])
  BY <1>1, Zenon DEF AnnouncedKept
<1> QED BY <1>2, OthersKept, Zenon

(* The steps before the teardown, other than TlsPresent. *)
LEMMA LocalKeepsAnnounced ==
    ASSUME TlsInv, TlsKeptInv, NEW s \in Solves,
           TlsCollect(s) \/ TlsNextChallenge(s) \/ BuildFails(s) \/ SetReadyByUrl(s) \/ AllReady(s)
    PROVE  TlsKeptInv'
<1>1. /\ pc \in [Solves -> TlsStates] /\ pending \in [Solves -> Seq(Items)]
      /\ readied \in [Solves -> SUBSET (1..N)] /\ current \in [Solves -> 0..N]
  BY Zenon DEF TlsInv, SolverInv, SolverTypeOK, GuardTypeOK
<1>2. pc[s] \notin TearingDown
  BY Zenon DEF TlsCollect, TlsNextChallenge, BuildFails, SetReadyByUrl, AllReady, TearingDown, Gone
<1>3. \E st \in TlsStates \ {"ready"} : pc' = [pc EXCEPT ![s] = st]
  BY Zenon DEF TlsCollect, TlsNextChallenge, BuildFails, SetReadyByUrl, AllReady, FailWith, TlsStates
<1>4. UNCHANGED <<inPlace, spawned, late>>
  BY Zenon DEF TlsCollect, TlsNextChallenge, BuildFails, SetReadyByUrl, AllReady, Push, guardVars
<1>5. \A r \in Solves : \A x \in Elements(pending'[r]) : Owns(r, x)
  <2>1. CASE UNCHANGED pending
    BY <2>1, Zenon DEF TlsKeptInv, OwnItems
  <2>2. CASE \E i \in 1..N : Push(s, ItemOf[s][i])
    BY <1>1, <2>2, PushesOwn, Zenon DEF TlsKeptInv
  <2> QED BY <2>1, <2>2, ZenonT(30)
             DEF TlsCollect, TlsNextChallenge, BuildFails, SetReadyByUrl, AllReady, guardVars
<1>6. TakesOnlyOwn /\ OwnItems'
  BY <1>1, <1>2, <1>3, <1>4, <1>5, LocalStepTakesNothing, Zenon DEF TlsKeptInv
<1>7. ASSUME NEW r \in Solves PROVE Announced(r)' \subseteq Announced(r)
  <2>1. CASE r # s
    <3>1. pc'[r] = pc[r] /\ current'[r] = current[r] /\ readied'[r] = readied[r]
      BY <1>1, <1>3, <2>1, Zenon
         DEF TlsCollect, TlsNextChallenge, BuildFails, SetReadyByUrl, AllReady, FailWith
    <3> QED BY <3>1, Zenon DEF Announced
  <2>2. CASE r = s
    <3>1. pc'[s] # "ready"
      BY <1>1, <1>3, ZenonT(30)
    <3>2. readied'[s] \subseteq readied[s] \cup {i \in 1..N : pc[s] = "ready" /\ i = current[s]}
      BY <1>1
         DEF TlsCollect, TlsNextChallenge, BuildFails, SetReadyByUrl, AllReady, FailWith, TlsInv, CurrentSet
    <3> QED BY <2>2, <3>1, <3>2, Zenon DEF Announced
  <2> QED BY <2>1, <2>2, Zenon
<1>8. AnnouncedKept'
  BY <1>6, <1>7, AnnouncedStayKept, Zenon DEF TlsKeptInv
<1> QED BY <1>6, <1>8, Zenon DEF TlsKeptInv

(* present's Ok comes with the certificate, which is then announced. *)
LEMMA PresentKeepsAnnounced == ASSUME TlsInv, TlsKeptInv, NEW s \in Solves, TlsPresent(s) PROVE TlsKeptInv'
<1>1. /\ pc \in [Solves -> TlsStates]
      /\ pc[s] \notin TearingDown
      /\ UNCHANGED <<pending, spawned, late, readied, current>>
      /\ inPlace \subseteq inPlace'
  BY Zenon DEF TlsPresent, Presented, TlsInv, SolverInv, SolverTypeOK, TearingDown, Gone
<1>2. \E st \in {"ready", "run"} :
         pc' = [pc EXCEPT ![s] = st] /\ (st = "ready" => ItemOf[s][current[s]] \in inPlace')
  BY Zenon DEF TlsPresent, Presented, FailWith
<1>3. TakesOnlyOwn /\ OwnItems'
  BY <1>1, <1>2, LocalStepTakesNothing, Zenon DEF TlsKeptInv, OwnItems
<1>4. ASSUME NEW r \in Solves, pc'[r] \notin TearingDown, NEW i \in Announced(r)'
      PROVE  Kept(r, ItemOf[r][i])'
  <2>1. CASE i \in Announced(r)
    <3>1. Kept(r, ItemOf[r][i])
      BY <1>3, <1>4, <2>1, Zenon DEF TlsKeptInv, AnnouncedKept, TakesOnlyOwn
    <3> QED BY <1>3, <1>4, <3>1, OthersKept, Zenon
  <2>2. CASE r = s /\ i = current[s]
    BY <1>1, <1>2, <1>4, <2>2, Zenon DEF Kept, TearingDown
  <2> QED BY <1>1, <1>2, <1>4, <2>1, <2>2, Zenon DEF Announced
<1> QED BY <1>3, <1>4, Zenon DEF TlsKeptInv, AnnouncedKept

(* The steps shared with the other solver. *)
LEMMA SharedKeepsAnnounced ==
    ASSUME TlsInv, TlsKeptInv,
           \/ \E s \in Solves : Finalize(s) \/ Teardown(s) \/ DropSolve(s) \/ SpawnedTask(s) \/ Validate(s)
           \/ Shutdown \/ LateCall
    PROVE  TlsKeptInv'
<1>1. TakesOnlyOwn /\ OwnItems'
  BY FinalizeTakesNothing, TeardownTakesOwn, DropTakesOwn, BackgroundTakesOwn, Zenon DEF TlsInv, TlsKeptInv
<1>2. UNCHANGED <<readied, current>> /\ \A r \in Solves : pc'[r] = "ready" => pc[r] = "ready"
  BY Zenon DEF Finalize, FailWith, Teardown, DropSolve, SpawnedTask, Validate, Shutdown, LateCall,
         solverVars, TlsInv, SolverInv, SolverTypeOK
<1>3. \A r \in Solves : Announced(r)' \subseteq Announced(r)
  BY <1>2, Zenon DEF Announced
<1>4. AnnouncedKept'
  BY <1>1, <1>3, AnnouncedStayKept, ZenonT(30) DEF TlsKeptInv
<1> QED BY <1>1, <1>4, Zenon DEF TlsKeptInv

(* A solve starts without an announced certificate. *)
LEMMA TlsKeptInit == TlsInit => TlsKeptInv
BY ElementsEmpty DEF TlsInit, SolverInit, GuardInit, TlsKeptInv, OwnItems, AnnouncedKept, Announced

(* Every step keeps the certificates that were announced. *)
LEMMA TlsKeptStep == TlsInv /\ TlsKeptInv /\ [TlsNext]_tlsVars => TlsKeptInv'
<1> SUFFICES ASSUME TlsInv, TlsKeptInv, [TlsNext]_tlsVars PROVE TlsKeptInv'
  BY Zenon
<1>1. CASE \E s \in Solves : TlsCollect(s) \/ TlsNextChallenge(s) \/ BuildFails(s) \/ SetReadyByUrl(s)
              \/ AllReady(s)
  BY <1>1, LocalKeepsAnnounced, Zenon
<1>2. CASE \E s \in Solves : TlsPresent(s)
  BY <1>2, PresentKeepsAnnounced, Zenon
<1>3. CASE \/ \E s \in Solves : Finalize(s) \/ Teardown(s) \/ DropSolve(s) \/ SpawnedTask(s) \/ Validate(s)
           \/ Shutdown \/ LateCall
  BY <1>3, SharedKeepsAnnounced, ZenonT(30)
<1>4. CASE UNCHANGED tlsVars
  <2>1. UNCHANGED <<pc, pending, spawned, late, inPlace, readied, current>>
    BY <1>4, Zenon DEF tlsVars, guardVars, solverVars
  <2>2. OwnItems'
    BY <2>1, Zenon DEF TlsKeptInv, OwnItems, Owns
  <2>3. AnnouncedKept'
    BY <2>1, SMTT(30) DEF TlsKeptInv, AnnouncedKept, Announced, Kept, Withdrawn
  <2> QED BY <2>2, <2>3, Zenon DEF TlsKeptInv
<1> QED BY <1>1, <1>2, <1>3, <1>4, Zenon DEF TlsNext

(* tls_alpn.rs:183-184: for any number of solves and authorizations, and
   whatever the orders have in common, the certificate of a challenge that was
   set ready is served until its own solve tears down, unless a solve for the
   same domain tears down. *)
THEOREM TlsProofStaysInPlace == TlsSpec => []ProofStaysInPlace
<1>1. TlsKeptInv => ProofStaysInPlace
  BY Zenon DEF TlsKeptInv, AnnouncedKept, Announced, Kept, TearingDown, ProofStaysInPlace
<1> QED BY <1>1, TlsKeptInit, TlsKeptStep, TlsInvariance, PTL DEF TlsSpec

(* Dns01Solver. *)

DnsStates == {"collect", "next", "present", "sleep", "propagate", "ready", "finalize",
           "run", "done", "dropped"}

(* What set_ready is given, and looks for, are challenges of the order. *)
DriverInv ==
    /\ tokens \in [Solves -> SUBSET (1..N)]
    /\ targets \in [Solves -> SUBSET (1..N)]
    /\ visited \in [Solves -> 0..N]

(* The inductive invariant: the shared one over this solver's states, and what
   the type of `readied` needs. *)
DnsInv == SolverInv(DnsStates) /\ DriverInv

(* collect leaves the guard alone. *)
LEMMA CollectKeeps == ASSUME DnsInv, NEW s \in Solves, Collect(s) PROVE DnsInv'
<1>1. /\ pc[s] = "collect" /\ pc' = [pc EXCEPT ![s] = "next"]
      /\ queue' \in [Solves -> SUBSET (1..N)]
      /\ UNCHANGED <<guardVars, authz, current, readied, outcome>>
      /\ UNCHANGED <<tokens, targets, visited>>
  BY ZenonT(30) DEF Collect, PendingBefore, DnsInv, SolverInv, SolverTypeOK
<1>2. SolverTypeOK(DnsStates)'
  BY <1>1, Zenon DEF DnsInv, SolverInv, SolverTypeOK, GuardTypeOK, guardVars, DnsStates
<1>3. SolverInv(DnsStates)'
  BY <1>1, <1>2, LocalStepKeeps, Zenon DEF DnsInv, Gone
<1> QED BY <1>1, <1>3, Zenon DEF DnsInv, DriverInv

(* The record is pushed before it is presented. *)
LEMMA NextChallengeKeeps == ASSUME DnsInv, NEW s \in Solves, NextChallenge(s) PROVE DnsInv'
<1>1. PICK i \in 1..N :
         /\ queue' = [queue EXCEPT ![s] = @ \ {i}]
         /\ current' = [current EXCEPT ![s] = i]
         /\ Push(s, ItemOf[s][i])
  BY Zenon DEF NextChallenge
<1>2. queue' \in [Solves -> SUBSET (1..N)]
  BY <1>1, Zenon DEF DnsInv, SolverInv, SolverTypeOK
<1>3. pc[s] \notin Gone /\ pc' = [pc EXCEPT ![s] = "present"] /\ "present" \in DnsStates
  BY Zenon DEF NextChallenge, Gone, DnsStates
<1>4. SolverInv(DnsStates)'
  BY <1>1, <1>2, <1>3, PushStepKeeps, Zenon DEF NextChallenge, DnsInv
<1> QED BY <1>4, Zenon DEF DnsInv, DriverInv, NextChallenge, driverVars

(* What present placed is a record that was pushed. *)
LEMMA PresentKeeps == ASSUME DnsInv, NEW s \in Solves, Present(s) PROVE DnsInv'
<1>1. /\ pc[s] = "present"
      /\ outcome' \in [Solves -> {"none", "ok", "err"}]
      /\ UNCHANGED <<authz, queue, current, readied, targets, visited>>
  BY Zenon DEF Present, FailWith, DnsInv, SolverInv, SolverTypeOK
<1>2. \E ok \in BOOLEAN, st \in {"next", "run"} :
         Presented(ItemOf[s][current[s]], ok) /\ pc' = [pc EXCEPT ![s] = st]
  BY Zenon DEF Present, FailWith
<1>3. "next" \in DnsStates /\ "run" \in DnsStates
  BY Zenon DEF DnsStates
<1>4. SolverInv(DnsStates)'
  BY <1>1, <1>2, <1>3, PresentStepKeeps, ZenonT(30) DEF DnsInv
<1>5. current[s] \in 1..N
  BY <1>1, Zenon DEF DnsInv, SolverInv, PresentTracked
<1>6. tokens' \in [Solves -> SUBSET (1..N)]
  <2>1. /\ tokens \in [Solves -> SUBSET (1..N)]
        /\ \/ UNCHANGED tokens
           \/ tokens' = [tokens EXCEPT ![s] = @ \cup {current[s]}]
    BY Zenon DEF Present, DnsInv, DriverInv
  <2> QED BY <2>1, <1>5, Zenon
<1> QED BY <1>1, <1>4, <1>6, Zenon DEF DnsInv, DriverInv

(* Ending the loop, and waiting, leave the guard alone. *)
LEMMA WaitingKeeps ==
    ASSUME DnsInv, NEW s \in Solves,
           NextError(s) \/ AllPresented(s) \/ Sleep(s) \/ WaitForPropagation(s)
    PROVE  DnsInv'
<1>1. /\ pc[s] \in {"next", "sleep", "propagate"}
      /\ outcome' \in [Solves -> {"none", "ok", "err"}]
      /\ UNCHANGED <<guardVars, authz, queue, current, readied, tokens, visited>>
  BY Zenon DEF NextError, AllPresented, Sleep, WaitForPropagation, BeginReady, FailWith, driverVars,
         DnsInv, SolverInv, SolverTypeOK
<1>2. \E st \in {"run", "sleep", "propagate", "ready"} : pc' = [pc EXCEPT ![s] = st]
  <2>1. pc \in [Solves -> DnsStates]
    BY Zenon DEF DnsInv, SolverInv, SolverTypeOK
  <2> QED BY <2>1, Zenon DEF NextError, AllPresented, Sleep, WaitForPropagation, BeginReady, FailWith
<1>3. targets' \in [Solves -> SUBSET (1..N)]
  BY Zenon
     DEF NextError, AllPresented, Sleep, WaitForPropagation, BeginReady, driverVars, DnsInv, DriverInv
<1>4. SolverTypeOK(DnsStates)'
  BY <1>1, <1>2, ZenonT(30) DEF DnsInv, SolverInv, SolverTypeOK, GuardTypeOK, guardVars, DnsStates
<1>5. SolverInv(DnsStates)'
  BY <1>1, <1>2, <1>4, LocalStepKeeps, Zenon DEF DnsInv, Gone
<1> QED BY <1>1, <1>3, <1>5, ZenonT(30) DEF DnsInv, DriverInv

(* set_ready's pass leaves the guard alone. *)
LEMMA SetReadyKeeps == ASSUME DnsInv, NEW s \in Solves, SetReady(s) PROVE DnsInv'
<1> DEFINE i == visited[s] + 1
<1>1. /\ pc[s] = "ready"
      /\ UNCHANGED <<guardVars, authz, queue, current, tokens>>
  BY Zenon DEF SetReady
<1>2. outcome' \in [Solves -> {"none", "ok", "err"}]
  BY Zenon DEF SetReady, FailWith, DnsInv, SolverInv, SolverTypeOK
<1>3. \E st \in {"run", "ready", "finalize"} : pc' = [pc EXCEPT ![s] = st]
  <2>1. pc \in [Solves -> DnsStates]
    BY Zenon DEF DnsInv, SolverInv, SolverTypeOK
  <2> QED BY <2>1, <1>1, Zenon DEF SetReady, FailWith
<1>4. /\ readied' \in [Solves -> SUBSET (1..N)]
      /\ targets' \in [Solves -> SUBSET (1..N)]
  <2>1. /\ readied \in [Solves -> SUBSET (1..N)] /\ targets \in [Solves -> SUBSET (1..N)]
        /\ \/ UNCHANGED readied
           \/ readied' = [readied EXCEPT ![s] = @ \cup ({i} \cap targets[s])]
        /\ \/ UNCHANGED targets
           \/ targets' = [targets EXCEPT ![s] = @ \ {i}]
    BY DEF SetReady, DnsInv, SolverInv, SolverTypeOK, DriverInv
  <2> HIDE DEF i
  <2> QED BY <2>1, ZenonT(30)
<1>5. visited' \in [Solves -> 0..N]
  <2>1. UNCHANGED visited \/ (i <= N /\ visited' = [visited EXCEPT ![s] = i])
    BY Zenon DEF SetReady
  <2>2. visited[s] \in Nat /\ visited \in [Solves -> 0..N]
    BY NAssumption DEF DnsInv, DriverInv
  <2> QED BY <2>1, <2>2, NAssumption, SMTT(30)
<1>6. SolverTypeOK(DnsStates)'
  BY <1>1, <1>2, <1>3, <1>4, Zenon DEF DnsInv, SolverInv, SolverTypeOK, GuardTypeOK, guardVars, DnsStates
<1>7. SolverInv(DnsStates)'
  BY <1>1, <1>3, <1>6, LocalStepKeeps, Zenon DEF DnsInv, Gone
<1> QED BY <1>1, <1>4, <1>5, <1>7, Zenon DEF DnsInv, DriverInv

(* The steps shared with the other solver. *)
LEMMA SharedStepsKeep ==
    ASSUME DnsInv, (\E s \in Solves : Shared(s)) \/ Shutdown \/ LateCall, UNCHANGED driverVars
    PROVE  DnsInv'
<1>1. "run" \in DnsStates /\ "done" \in DnsStates /\ "dropped" \in DnsStates
  BY Zenon DEF DnsStates
<1>2. SolverInv(DnsStates)'
  BY <1>1, FinalizeKeeps, TeardownKeeps, DropSolveKeeps, BackgroundKeeps, Zenon DEF DnsInv, Shared
<1> QED BY <1>2, Zenon DEF DnsInv, DriverInv, driverVars

(* Every solve starts with an empty guard. *)
LEMMA DnsInvInit == Init => DnsInv
<1> SUFFICES ASSUME Init PROVE DnsInv
  OBVIOUS
<1>1. SolverInv(DnsStates)
  BY SolverInitInv, Zenon DEF Init, DnsStates
<1> QED BY <1>1, NAssumption DEF DnsInv, DriverInv, Init

(* Every step keeps what the guards are relied on for. *)
LEMMA DnsInvStep == DnsInv /\ [Next]_vars => DnsInv'
<1> SUFFICES ASSUME DnsInv, [Next]_vars PROVE DnsInv'
  OBVIOUS
<1>1. CASE \E s \in Solves : Collect(s) \/ NextChallenge(s) \/ Present(s) \/ SetReady(s)
  BY <1>1, CollectKeeps, NextChallengeKeeps, PresentKeeps, SetReadyKeeps, Zenon
<1>2. CASE \E s \in Solves : NextError(s) \/ AllPresented(s) \/ Sleep(s) \/ WaitForPropagation(s)
  BY <1>2, WaitingKeeps, Zenon
<1>3. CASE ((\E s \in Solves : Shared(s)) \/ Shutdown \/ LateCall) /\ UNCHANGED driverVars
  BY <1>3, SharedStepsKeep, ZenonT(30)
<1>4. CASE UNCHANGED vars
  BY <1>4, Zenon DEF vars, guardVars, solverVars, driverVars, DnsInv, DriverInv, SolverInv, SolverTypeOK,
     GuardTypeOK, NothingForgotten, Tracked, PresentTracked, SpawnedAfterDrop
<1> QED BY <1>1, <1>2, <1>3, <1>4, Zenon DEF Next

(* cleanup.rs, solver.rs: the inductive invariant holds throughout. *)
THEOREM DnsInvariance == Spec => []DnsInv
BY DnsInvInit, DnsInvStep, PTL DEF Spec

(* solver.rs:127-133, 180-186: for any number of solves and authorizations,
   whatever fails and wherever the future is dropped, a TXT record that is in
   place is in the list of a guard or of a spawned task, or its cleanup failed
   and was reported, or there was no runtime, or it was created by a request
   that outlived its solve. *)
THEOREM DnsForgetsNothing == Spec => []NothingForgotten
<1>1. DnsInv => NothingForgotten
  BY Zenon DEF DnsInv, SolverInv
<1> QED BY <1>1, DnsInvariance, PTL

-----------------------------------------------------------------------------
(* Until a solve tears down, the records of its tokens are kept; what it set
   ready, and what set_ready looks for, are tokens. *)
TokensKept ==
    \A s \in Solves :
        /\ readied[s] \cup targets[s] \subseteq tokens[s]
        /\ pc[s] \notin TearingDown => \A i \in tokens[s] : Kept(s, ItemOf[s][i])

DnsKeptInv == OwnItems /\ TokensKept

(* A step that takes only its own items away and changes no token. *)
LEMMA TokensStayKept ==
    ASSUME DnsInv, TokensKept, TakesOnlyOwn, UNCHANGED tokens,
           \A s \in Solves : readied'[s] \cup targets'[s] \subseteq readied[s] \cup targets[s] \cup tokens[s]
    PROVE  TokensKept'
<1> SUFFICES ASSUME NEW s \in Solves
             PROVE  /\ readied'[s] \cup targets'[s] \subseteq tokens'[s]
                    /\ pc'[s] \notin TearingDown => \A i \in tokens'[s] : Kept(s, ItemOf[s][i])'
  BY Zenon DEF TokensKept
<1>1. readied'[s] \cup targets'[s] \subseteq tokens'[s]
  BY Zenon DEF TokensKept
<1>2. ASSUME pc'[s] \notin TearingDown, NEW i \in tokens[s] PROVE Kept(s, ItemOf[s][i])'
  <2>1. pc[s] \notin TearingDown
    BY <1>2, ZenonT(30) DEF TakesOnlyOwn
  <2>2. Kept(s, ItemOf[s][i])
    BY <1>2, <2>1, Zenon DEF TokensKept
  <2> QED BY <1>2, <2>2, OthersKept, Zenon
<1> QED BY <1>1, <1>2, Zenon

(* The steps before the teardown, other than Present. *)
LEMMA LocalKeepsTokens ==
    ASSUME DnsInv, DnsKeptInv, NEW s \in Solves,
           Collect(s) \/ NextChallenge(s) \/ NextError(s) \/ AllPresented(s) \/ Sleep(s)
              \/ WaitForPropagation(s) \/ SetReady(s)
    PROVE  DnsKeptInv'
<1>1. /\ pc \in [Solves -> DnsStates] /\ pending \in [Solves -> Seq(Items)]
      /\ readied \in [Solves -> SUBSET (1..N)] /\ targets \in [Solves -> SUBSET (1..N)]
  BY Zenon DEF DnsInv, SolverInv, SolverTypeOK, GuardTypeOK, DriverInv
<1>2. pc[s] \notin TearingDown
  BY Zenon DEF Collect, NextChallenge, NextError, AllPresented, Sleep, WaitForPropagation, SetReady,
         TearingDown, Gone
<1>3. \E st \in DnsStates : pc' = [pc EXCEPT ![s] = st]
  <2>1. pc = [pc EXCEPT ![s] = pc[s]] /\ pc[s] \in DnsStates
    BY <1>1, Zenon
  <2>2. \/ pc' = pc
        \/ \E st \in {"next", "present", "run", "sleep", "propagate", "ready", "finalize"} :
              pc' = [pc EXCEPT ![s] = st]
    BY Zenon DEF Collect, NextChallenge, NextError, AllPresented, Sleep, WaitForPropagation, SetReady,
         FailWith, BeginReady
  <2>3. {"next", "present", "run", "sleep", "propagate", "ready", "finalize"} \subseteq DnsStates
    BY Zenon DEF DnsStates
  <2> QED BY <2>1, <2>2, <2>3, Zenon
<1>4. UNCHANGED <<inPlace, spawned, late, tokens>>
  <2>1. CASE Collect(s)
    BY <2>1, Zenon DEF Collect, guardVars
  <2>2. CASE NextChallenge(s)
    BY <2>2, Zenon DEF NextChallenge, Push, driverVars
  <2>3. CASE NextError(s)
    BY <2>3, Zenon DEF NextError, FailWith, guardVars, driverVars
  <2>4. CASE AllPresented(s)
    BY <2>4, Zenon DEF AllPresented, guardVars, driverVars
  <2>5. CASE Sleep(s)
    BY <2>5, Zenon DEF Sleep, BeginReady, guardVars
  <2>6. CASE WaitForPropagation(s)
    BY <2>6, Zenon DEF WaitForPropagation, FailWith, BeginReady, guardVars
  <2>7. CASE SetReady(s)
    BY <2>7, Zenon DEF SetReady, FailWith, guardVars
  <2> QED BY <2>1, <2>2, <2>3, <2>4, <2>5, <2>6, <2>7, Zenon
<1>5. \A r \in Solves : \A x \in Elements(pending'[r]) : Owns(r, x)
  <2>1. CASE UNCHANGED pending
    BY <2>1, Zenon DEF DnsKeptInv, OwnItems
  <2>2. CASE \E i \in 1..N : Push(s, ItemOf[s][i])
    BY <1>1, <2>2, PushesOwn, Zenon DEF DnsKeptInv
  <2> QED BY <2>1, <2>2, Zenon DEF Collect, NextChallenge, NextError, AllPresented, Sleep,
             WaitForPropagation, SetReady, guardVars
<1>6. TakesOnlyOwn /\ OwnItems'
  BY <1>1, <1>2, <1>3, <1>4, <1>5, LocalStepTakesNothing, Zenon DEF DnsKeptInv
<1>7. \A r \in Solves : readied'[r] \cup targets'[r] \subseteq readied[r] \cup targets[r] \cup tokens[r]
  <2>1. CASE UNCHANGED <<readied, targets>>
    BY <2>1, ZenonT(30)
  <2>2. CASE BeginReady(s) /\ UNCHANGED readied
    BY <1>1, <2>2, Zenon DEF BeginReady
  <2>3. CASE SetReady(s)
    <3> DEFINE i == visited[s] + 1
    <3>1. /\ UNCHANGED readied \/ readied' = [readied EXCEPT ![s] = @ \cup ({i} \cap targets[s])]
          /\ UNCHANGED targets \/ targets' = [targets EXCEPT ![s] = @ \ {i}]
      BY <1>1, <2>3 DEF SetReady
    <3> HIDE DEF i
    <3> QED BY <1>1, <3>1, ZenonT(30)
  <2> QED BY <2>1, <2>2, <2>3, Zenon DEF Collect, NextChallenge, NextError, AllPresented, Sleep,
             WaitForPropagation, driverVars
<1>8. TokensKept'
  BY <1>4, <1>6, <1>7, TokensStayKept, Zenon DEF DnsKeptInv
<1> QED BY <1>6, <1>8, Zenon DEF DnsKeptInv

(* present's Ok comes with the record, which becomes a token. *)
LEMMA PresentKeepsTokens == ASSUME DnsInv, DnsKeptInv, NEW s \in Solves, Present(s) PROVE DnsKeptInv'
<1>1. /\ pc \in [Solves -> DnsStates] /\ tokens \in [Solves -> SUBSET (1..N)]
      /\ pc[s] \notin TearingDown
      /\ UNCHANGED <<pending, spawned, late, readied, targets>>
      /\ inPlace \subseteq inPlace'
  BY Zenon DEF Present, Presented, DnsInv, SolverInv, SolverTypeOK, DriverInv, TearingDown, Gone
<1>2. \E st \in DnsStates : pc' = [pc EXCEPT ![s] = st]
  BY Zenon DEF Present, FailWith, DnsStates
<1>3. TakesOnlyOwn /\ OwnItems'
  BY <1>1, <1>2, LocalStepTakesNothing, Zenon DEF DnsKeptInv, OwnItems
<1>4. CASE UNCHANGED tokens
  BY <1>1, <1>3, <1>4, TokensStayKept, Zenon DEF DnsKeptInv
<1>5. CASE tokens' = [tokens EXCEPT ![s] = @ \cup {current[s]}] /\ ItemOf[s][current[s]] \in inPlace'
  <2> SUFFICES ASSUME NEW r \in Solves
               PROVE  /\ readied'[r] \cup targets'[r] \subseteq tokens'[r]
                      /\ pc'[r] \notin TearingDown => \A i \in tokens'[r] : Kept(r, ItemOf[r][i])'
    BY <1>3, Zenon DEF DnsKeptInv, TokensKept
  <2>1. readied'[r] \cup targets'[r] \subseteq tokens'[r]
    BY <1>1, <1>5, ZenonT(30) DEF DnsKeptInv, TokensKept
  <2>2. ASSUME pc'[r] \notin TearingDown, NEW i \in tokens'[r] PROVE Kept(r, ItemOf[r][i])'
    <3>1. CASE i \in tokens[r]
      <4>1. Kept(r, ItemOf[r][i])
        BY <1>3, <2>2, <3>1, Zenon DEF DnsKeptInv, TokensKept, TakesOnlyOwn
      <4> QED BY <1>3, <2>2, <4>1, OthersKept, Zenon
    <3>2. CASE r = s /\ i = current[s]
      BY <1>5, <3>2, Zenon DEF Kept
    <3> QED BY <1>1, <1>5, <2>2, <3>1, <3>2, Zenon
  <2> QED BY <2>1, <2>2, Zenon
<1> QED BY <1>4, <1>5, Zenon DEF Present, Presented

(* The steps shared with the other solver. *)
LEMMA SharedKeepsTokens ==
    ASSUME DnsInv, DnsKeptInv, (\E s \in Solves : Shared(s)) \/ Shutdown \/ LateCall, UNCHANGED driverVars
    PROVE  DnsKeptInv'
<1>1. TakesOnlyOwn /\ OwnItems'
  BY FinalizeTakesNothing, TeardownTakesOwn, DropTakesOwn, BackgroundTakesOwn, Zenon
     DEF DnsInv, DnsKeptInv, Shared
<1>2. UNCHANGED <<tokens, readied, targets>>
  BY Zenon DEF Shared, Finalize, Teardown, DropSolve, SpawnedTask, Validate, Shutdown, LateCall,
         solverVars, driverVars
<1>3. TokensKept'
  BY <1>1, <1>2, TokensStayKept, Zenon DEF DnsKeptInv
<1> QED BY <1>1, <1>3, Zenon DEF DnsKeptInv

(* Every step keeps the records of the tokens. *)
LEMMA DnsKeptStep == DnsInv /\ DnsKeptInv /\ [Next]_vars => DnsKeptInv'
<1> SUFFICES ASSUME DnsInv, DnsKeptInv, [Next]_vars PROVE DnsKeptInv'
  OBVIOUS
<1>1. CASE \E s \in Solves : Collect(s) \/ NextChallenge(s) \/ NextError(s) \/ AllPresented(s)
              \/ Sleep(s) \/ WaitForPropagation(s) \/ SetReady(s)
  BY <1>1, LocalKeepsTokens, Zenon
<1>2. CASE \E s \in Solves : Present(s)
  BY <1>2, PresentKeepsTokens
<1>3. CASE ((\E s \in Solves : Shared(s)) \/ Shutdown \/ LateCall) /\ UNCHANGED driverVars
  BY <1>3, SharedKeepsTokens, ZenonT(30)
<1>4. CASE UNCHANGED vars
  <2>1. UNCHANGED <<pc, pending, spawned, late, inPlace, readied, targets, tokens>>
    BY <1>4, Zenon DEF vars, guardVars, solverVars, driverVars
  <2>2. OwnItems'
    BY <2>1, Zenon DEF DnsKeptInv, OwnItems, Owns
  <2>3. TokensKept'
    BY <2>1, SMTT(30) DEF DnsKeptInv, TokensKept, Kept, Withdrawn
  <2> QED BY <2>2, <2>3, Zenon DEF DnsKeptInv
<1> QED BY <1>1, <1>2, <1>3, <1>4, Zenon DEF Next

(* A solve starts without tokens. *)
LEMMA DnsKeptInit == Init => DnsKeptInv
BY ElementsEmpty DEF Init, SolverInit, GuardInit, DnsKeptInv, OwnItems, TokensKept

(* solver.rs:168-170: for any number of solves and authorizations, and
   whatever the orders have in common, the record of a challenge that was set
   ready stays in place until its own solve tears down, unless a solve with
   the same challenge tears down. *)
THEOREM DnsProofStaysInPlace == Spec => []ProofStaysInPlace
<1>1. DnsKeptInv => ProofStaysInPlace
  BY Zenon DEF DnsKeptInv, TokensKept, Kept, TearingDown, ProofStaysInPlace
<1> QED BY <1>1, DnsKeptInit, DnsKeptStep, DnsInvariance, PTL DEF Spec

-----------------------------------------------------------------------------
(* How far a solve has come, as its guard, its queue and its tokens show it:
   one pending record per token until set_ready, plus the one being presented. *)
Presenting == {"collect", "next", "present", "sleep", "propagate"}

Ordered(s) ==
    /\ pc[s] = "collect" => tokens[s] = {}
    /\ queue[s] \cap tokens[s] = {}
    /\ pc[s] \in Presenting => readied[s] = {}
    /\ pc[s] \in {"collect", "next", "sleep", "propagate"} => Len(pending[s]) = Cardinality(tokens[s])
    /\ pc[s] = "present" =>
          /\ Len(pending[s]) = Cardinality(tokens[s]) + 1
          /\ current[s] \notin tokens[s] \cup queue[s]
    /\ pc[s] = "sleep" => SkipCheck[s]
    /\ pc[s] \in {"sleep", "propagate", "ready", "finalize"} \/ readied[s] # {} =>
          queue[s] = {} /\ ~queueError[s]
    /\ pc[s] \in {"ready", "finalize"} \/ readied[s] # {} =>
          SkipCheck[s] \/ confirmed[s] = Cardinality(tokens[s])

OrderInv ==
    /\ queueError \in [Solves -> BOOLEAN]
    /\ DOMAIN confirmed = Solves
    /\ \A s \in Solves : Ordered(s)

(* A solve whose own state does not change, or that goes on to tear down. *)
LEMMA OthersOrdered ==
    ASSUME NEW r \in Solves, Ordered(r),
           pc'[r] \in TearingDown \/ (pc'[r] = pc[r] /\ pending'[r] = pending[r]),
           queue'[r] = queue[r], current'[r] = current[r], readied'[r] = readied[r],
           queueError'[r] = queueError[r], tokens'[r] = tokens[r], confirmed'[r] = confirmed[r]
    PROVE  Ordered(r)'
BY ZenonT(30) DEF Ordered, TearingDown, Gone, Presenting

(* What a step of one solve leaves alone of the others. *)
LEMMA LocalStepsOrdered ==
    ASSUME DnsInv, OrderInv, NEW s \in Solves, NEW r \in Solves \ {s},
           Collect(s) \/ NextChallenge(s) \/ NextError(s) \/ Present(s) \/ AllPresented(s)
              \/ Sleep(s) \/ WaitForPropagation(s) \/ SetReady(s)
    PROVE  Ordered(r)'
<1>1. /\ pc \in [Solves -> DnsStates] /\ pending \in [Solves -> Seq(Items)]
      /\ queue \in [Solves -> SUBSET (1..N)] /\ current \in [Solves -> 0..N]
      /\ readied \in [Solves -> SUBSET (1..N)] /\ tokens \in [Solves -> SUBSET (1..N)]
      /\ queueError \in [Solves -> BOOLEAN] /\ DOMAIN confirmed = Solves
      /\ Ordered(r)
  BY Zenon DEF DnsInv, SolverInv, SolverTypeOK, GuardTypeOK, DriverInv, OrderInv
<1>2. pc'[r] = pc[r]
  BY <1>1, ZenonT(30)
     DEF Collect, NextChallenge, NextError, Present, AllPresented, Sleep, WaitForPropagation,
              SetReady, FailWith, BeginReady
<1>3. pending'[r] = pending[r]
  BY <1>1, Zenon DEF Collect, NextChallenge, NextError, Present, AllPresented, Sleep, WaitForPropagation,
              SetReady, Push, Presented, guardVars
<1>4. queue'[r] = queue[r] /\ current'[r] = current[r] /\ queueError'[r] = queueError[r]
  BY <1>1, ZenonT(30)
     DEF Collect, NextChallenge, NextError, Present, AllPresented, Sleep, WaitForPropagation,
              SetReady, driverVars
<1>5. readied'[r] = readied[r]
  BY <1>1, ZenonT(30)
     DEF Collect, NextChallenge, NextError, Present, AllPresented, Sleep, WaitForPropagation, SetReady
<1>6. tokens'[r] = tokens[r] /\ confirmed'[r] = confirmed[r]
  BY <1>1, ZenonT(30)
     DEF Collect, NextChallenge, NextError, Present, AllPresented, Sleep, WaitForPropagation,
              SetReady, driverVars
<1> QED BY <1>1, <1>2, <1>3, <1>4, <1>5, <1>6, OthersOrdered, ZenonT(30)

(* Tokens are finitely many, and a new one is one more. *)
LEMMA TokenCount ==
    ASSUME NEW T \in SUBSET (1..N)
    PROVE  /\ Cardinality(T) \in Nat
           /\ \A i \in 1..N : i \notin T => Cardinality(T \cup {i}) = Cardinality(T) + 1
<1>1. IsFiniteSet(1..N)
  BY FS_Interval, NAssumption
<1>2. IsFiniteSet(T)
  BY <1>1, FS_Subset, Zenon
<1> QED BY <1>2, FS_CardinalityType, FS_AddElement, Zenon

(* The two steps in which the tokens and the pending records change. *)
LEMMA PresentingOrdered ==
    ASSUME DnsInv, OrderInv, NEW s \in Solves, NextChallenge(s) \/ Present(s)
    PROVE  Ordered(s)'
<1>1. /\ pc \in [Solves -> DnsStates] /\ pending \in [Solves -> Seq(Items)]
      /\ queue \in [Solves -> SUBSET (1..N)] /\ current \in [Solves -> 0..N]
      /\ tokens \in [Solves -> SUBSET (1..N)] /\ Ordered(s)
  BY Zenon DEF DnsInv, SolverInv, SolverTypeOK, GuardTypeOK, DriverInv, OrderInv
<1>2. CASE NextChallenge(s)
  <2>1. PICK i \in 1..N : /\ i \in queue[s] /\ queue' = [queue EXCEPT ![s] = @ \ {i}]
                          /\ current' = [current EXCEPT ![s] = i]
                          /\ pending' = [pending EXCEPT ![s] = Append(@, ItemOf[s][i])]
    BY <1>2, Zenon DEF NextChallenge, IsNext, Push
  <2>2. pc[s] = "next" /\ pc'[s] = "present" /\ UNCHANGED <<readied, queueError, tokens, confirmed>>
    BY <1>1, <1>2, Zenon DEF NextChallenge, driverVars
  <2>3. Len(pending'[s]) = Cardinality(tokens[s]) + 1
    <3>1. Len(pending[s]) = Cardinality(tokens[s])
      BY <1>1, <2>2, Zenon DEF Ordered
    <3>2. pending'[s] = Append(pending[s], ItemOf[s][i]) /\ pending[s] \in Seq(Items)
      BY <1>1, <2>1, Zenon
    <3>3. Len(pending'[s]) = Len(pending[s]) + 1
      BY <3>2, LenOfAppend, Zenon
    <3> QED BY <3>1, <3>3, Zenon
  <2> QED BY <1>1, <2>1, <2>2, <2>3, Zenon DEF Ordered, Presenting
<1>3. CASE Present(s)
  <2>1. /\ pc[s] = "present" /\ UNCHANGED <<pending, queue, current, readied, queueError, confirmed>>
        /\ current[s] \in 1..N
    BY <1>3, Zenon DEF Present, Presented, DnsInv, SolverInv, PresentTracked
  <2>2. CASE pc' = [pc EXCEPT ![s] = "next"] /\ tokens' = [tokens EXCEPT ![s] = @ \cup {current[s]}]
    <3>1. pc'[s] = "next" /\ tokens'[s] = tokens[s] \cup {current[s]}
      BY <1>1, <2>2, Zenon
    <3>2. tokens[s] \in SUBSET (1..N) /\ current[s] \notin tokens[s]
      BY <1>1, <2>1, Zenon DEF Ordered
    <3>3. Cardinality(tokens'[s]) = Cardinality(tokens[s]) + 1
      BY <2>1, <3>1, <3>2, TokenCount, ZenonT(30)
    <3> QED BY <1>1, <2>1, <3>1, <3>3, Zenon DEF Ordered, Presenting
  <2>3. CASE pc' = [pc EXCEPT ![s] = "run"] /\ UNCHANGED tokens
    BY <1>1, <2>1, <2>3, Zenon DEF Ordered, Presenting
  <2> QED BY <1>3, <2>2, <2>3, ZenonT(30) DEF Present, FailWith
<1> QED BY <1>2, <1>3, Zenon

(* Collecting, ending the loop and waiting. *)
LEMMA WaitingOrdered ==
    ASSUME DnsInv, OrderInv, NEW s \in Solves,
           Collect(s) \/ NextError(s) \/ AllPresented(s) \/ Sleep(s) \/ WaitForPropagation(s)
    PROVE  Ordered(s)'
<1>1. /\ pc \in [Solves -> DnsStates] /\ queue \in [Solves -> SUBSET (1..N)]
      /\ queueError \in [Solves -> BOOLEAN] /\ DOMAIN confirmed = Solves /\ Ordered(s)
      /\ UNCHANGED <<pending, current, readied, tokens>>
  BY Zenon DEF DnsInv, SolverInv, SolverTypeOK, OrderInv, Collect, NextError, AllPresented, Sleep,
         WaitForPropagation, guardVars, driverVars
<1>2. CASE Collect(s)
  BY <1>1, <1>2, Zenon DEF Collect, Ordered, Presenting
<1>3. CASE NextError(s)
  BY <1>1, <1>3, Zenon DEF NextError, FailWith, driverVars, Ordered, Presenting
<1>4. CASE AllPresented(s)
  BY <1>1, <1>4, Zenon DEF AllPresented, driverVars, Ordered, Presenting
<1>5. CASE Sleep(s)
  <2>1. pc[s] = "sleep" /\ pc'[s] = "ready" /\ SkipCheck[s] /\ UNCHANGED <<queue, queueError>>
    BY <1>1, <1>5, Zenon DEF Sleep, BeginReady, Ordered
  <2> QED BY <1>1, <2>1, Zenon DEF Ordered, Presenting
<1>6. CASE WaitForPropagation(s)
  <2>1. pc[s] = "propagate" /\ UNCHANGED <<queue, queueError>>
    BY <1>6, Zenon DEF WaitForPropagation
  <2>2. CASE pc' = pc
    BY <1>1, <2>1, <2>2, ZenonT(30) DEF Ordered, Presenting
  <2>3. CASE pc' = [pc EXCEPT ![s] = "run"]
    BY <1>1, <2>1, <2>3, Zenon DEF Ordered, Presenting
  <2>4. CASE pc' = [pc EXCEPT ![s] = "ready"] /\ confirmed[s] = Len(pending[s]) /\ UNCHANGED confirmed
    <3>1. pc'[s] = "ready" /\ confirmed'[s] = Cardinality(tokens'[s])
      BY <1>1, <2>1, <2>4, Zenon DEF Ordered
    <3> QED BY <1>1, <2>1, <2>4, <3>1, Zenon DEF Ordered, Presenting
  <2> QED BY <1>6, <2>2, <2>3, <2>4, ZenonT(30) DEF WaitForPropagation, BeginReady, FailWith
<1> QED BY <1>2, <1>3, <1>4, <1>5, <1>6, Zenon

(* set_ready comes after all of that. *)
LEMMA SetReadyOrdered == ASSUME DnsInv, OrderInv, NEW s \in Solves, SetReady(s) PROVE Ordered(s)'
<1>1. /\ pc \in [Solves -> DnsStates] /\ Ordered(s) /\ pc[s] = "ready"
      /\ UNCHANGED <<pending, queue, current, queueError, tokens, confirmed>>
  BY Zenon DEF DnsInv, SolverInv, SolverTypeOK, OrderInv, SetReady, guardVars
<1>2. pc'[s] \in {"run", "ready", "finalize"}
  BY <1>1, Zenon DEF SetReady, FailWith
<1> QED BY <1>1, <1>2, Zenon DEF Ordered, Presenting

(* The steps shared with the other solver. *)
LEMMA SharedOrdered ==
    ASSUME DnsInv, OrderInv, (\E s \in Solves : Shared(s)) \/ Shutdown \/ LateCall,
           UNCHANGED driverVars, NEW r \in Solves
    PROVE  Ordered(r)'
<1>1. /\ pc \in [Solves -> DnsStates] /\ pending \in [Solves -> Seq(Items)] /\ Ordered(r)
      /\ UNCHANGED <<queue, current, readied, queueError, tokens, confirmed>>
  BY Zenon
     DEF DnsInv, SolverInv, SolverTypeOK, GuardTypeOK, OrderInv, driverVars, Shared, Finalize, Teardown,
         DropSolve, SpawnedTask, Validate, Shutdown, LateCall, solverVars
<1>2. pc'[r] \in TearingDown \/ (pc'[r] = pc[r] /\ pending'[r] = pending[r])
  <2>1. CASE Shutdown
    BY <2>1, Zenon DEF Shutdown, TearingDown, Gone
  <2>2. CASE LateCall
    BY <2>2, Zenon DEF LateCall, Land, solverVars
  <2>3. CASE \E s \in Solves : Finalize(s) \/ SpawnedTask(s) \/ Validate(s)
    BY <1>1, <2>3, Zenon
       DEF Finalize, FailWith, SpawnedTask, SpawnedStep, Validate, solverVars, guardVars,
                      TearingDown
  <2>4. CASE \E s \in Solves : Teardown(s)
    BY <1>1, <2>4, Zenon DEF Teardown, RunStep, guardVars, TearingDown, Gone
  <2>5. CASE \E s \in Solves : DropSolve(s)
    BY <1>1, <2>5, Zenon DEF DropSolve, Drop, TearingDown, Gone
  <2> QED BY <2>1, <2>2, <2>3, <2>4, <2>5, Zenon DEF Shared
<1> QED BY <1>1, <1>2, OthersOrdered, Zenon

(* Every step keeps the order of the phases. *)
LEMMA OrderStep == DnsInv /\ OrderInv /\ [Next]_vars => OrderInv'
<1> SUFFICES ASSUME DnsInv, OrderInv, [Next]_vars PROVE OrderInv'
  OBVIOUS
<1>1. CASE \E s \in Solves : Collect(s) \/ NextChallenge(s) \/ NextError(s) \/ Present(s)
              \/ AllPresented(s) \/ Sleep(s) \/ WaitForPropagation(s) \/ SetReady(s)
  <2>1. PICK s \in Solves : Collect(s) \/ NextChallenge(s) \/ NextError(s) \/ Present(s)
              \/ AllPresented(s) \/ Sleep(s) \/ WaitForPropagation(s) \/ SetReady(s)
    BY <1>1, Zenon
  <2>2. Ordered(s)'
    BY <2>1, PresentingOrdered, WaitingOrdered, SetReadyOrdered, ZenonT(30)
  <2>3. queueError' \in [Solves -> BOOLEAN]
    <3>1. CASE Collect(s)
      <4>1. PICK k \in 1..N + 1 : queueError' = [queueError EXCEPT ![s] = k <= N]
        BY <3>1, Zenon DEF Collect
      <4>2. (k <= N) \in BOOLEAN
        OBVIOUS
      <4> QED BY <4>1, <4>2, Zenon DEF OrderInv
    <3>2. CASE UNCHANGED queueError
      BY <3>2, Zenon DEF OrderInv
    <3> QED BY <2>1, <3>1, <3>2, ZenonT(30) DEF NextChallenge, NextError, Present, AllPresented, Sleep,
               WaitForPropagation, SetReady, driverVars
  <2>4. DOMAIN confirmed' = Solves
    BY <2>1, ZenonT(30) DEF OrderInv, Collect, NextChallenge, NextError, Present, AllPresented, Sleep,
                WaitForPropagation, SetReady, driverVars
  <2> QED BY <2>1, <2>2, <2>3, <2>4, LocalStepsOrdered, ZenonT(30) DEF OrderInv
<1>2. CASE ((\E s \in Solves : Shared(s)) \/ Shutdown \/ LateCall) /\ UNCHANGED driverVars
  BY <1>2, SharedOrdered, Zenon DEF OrderInv, driverVars
<1>3. CASE UNCHANGED vars
  BY <1>3, ZenonT(30) DEF vars, guardVars, solverVars, driverVars, OrderInv, Ordered
<1> QED BY <1>1, <1>2, <1>3, Zenon DEF Next

(* The phases start in order. *)
LEMMA OrderInit == Init => OrderInv
<1>1. Cardinality({}) = 0 /\ Len(<<>>) = 0
  BY FS_EmptySet, Zenon
<1> QED BY <1>1, SMTT(30) DEF Init, SolverInit, GuardInit, OrderInv, Ordered, Presenting

(* solver.rs:168-170: for any number of solves and authorizations, the CA is
   told of no challenge before collect came to the end of the order, every
   record was placed and, unless the check is skipped, seen in DNS. *)
THEOREM DnsReadyIsLast == Spec => []ReadyWaitsForAll
<1>1. DnsKeptInv /\ OrderInv => ReadyWaitsForAll
  BY ZenonT(30) DEF DnsKeptInv, TokensKept, OrderInv, Ordered, ReadyWaitsForAll
<1> QED BY <1>1, DnsKeptInit, DnsKeptStep, OrderInit, OrderStep, DnsInvariance, PTL DEF Spec

-----------------------------------------------------------------------------
(* Solves of either kind. *)

SolversInv ==
    /\ method \in {"dns-01", "tls-alpn-01"}
    /\ method = "dns-01" => DnsInv /\ DnsKeptInv /\ OrderInv
    /\ method = "tls-alpn-01" => TlsInv /\ TlsKeptInv

(* The kind of the solves never changes, and a step is one of its solver. *)
LEMMA SolversInvariance == SolversSpec => []SolversInv
<1>1. SolversInit => SolversInv
  BY DnsInvInit, DnsKeptInit, OrderInit, TlsInvInit, TlsKeptInit, ZenonT(30)
     DEF SolversInit, SolversInv, Init, TlsInit
<1>2. SolversInv /\ [SolversNext]_allVars => SolversInv'
  <2> SUFFICES ASSUME SolversInv, [SolversNext]_allVars PROVE SolversInv'
    OBVIOUS
  <2>1. method' = method
    BY Zenon DEF SolversNext, Dns01, TlsAlpn01, allVars
  <2>2. CASE method = "dns-01"
    <3>1. [Next]_vars
      BY <2>2, Zenon DEF SolversNext, Dns01, TlsAlpn01, allVars
    <3> QED BY <2>1, <2>2, <3>1, DnsInvStep, DnsKeptStep, OrderStep, ZenonT(30) DEF SolversInv
  <2>3. CASE method = "tls-alpn-01"
    <3>1. [TlsNext]_tlsVars
      BY <2>3, ZenonT(30) DEF SolversNext, Dns01, TlsAlpn01, allVars, vars, tlsVars
    <3> QED BY <2>1, <2>3, <3>1, TlsInvStep, TlsKeptStep, ZenonT(30) DEF SolversInv
  <2> QED BY <2>2, <2>3, Zenon DEF SolversInv
<1> QED BY <1>1, <1>2, PTL DEF SolversSpec

(* cleanup.rs:1-20: whichever solver it is, what is in place is in a list, or
   its cleanup failed, or it could not be cleaned up. *)
THEOREM SolversForgetNothing == SolversSpec => []NothingForgotten
<1>1. SolversInv => NothingForgotten
  BY ZenonT(30) DEF SolversInv, DnsInv, TlsInv, SolverInv
<1> QED BY <1>1, SolversInvariance, PTL

(* solver.rs:168-170, tls_alpn.rs:183-184: whichever solver it is, the proof
   of a challenge that was set ready stays until its own solve tears down,
   unless a solve with the same challenge tears down. *)
THEOREM SolversProofStaysInPlace == SolversSpec => []ProofStaysInPlace
<1>1. DnsKeptInv => ProofStaysInPlace
  BY DEF DnsKeptInv, TokensKept, Kept, TearingDown, ProofStaysInPlace
<1>2. TlsKeptInv => ProofStaysInPlace
  BY DEF TlsKeptInv, AnnouncedKept, Announced, Kept, TearingDown, ProofStaysInPlace
<1>3. SolversInv => ProofStaysInPlace
  BY <1>1, <1>2, Zenon DEF SolversInv
<1> QED BY <1>3, SolversInvariance, PTL

(* solver.rs:168-170: of solves of either kind, those of DNS-01 announce no
   challenge before every record of the order is placed and seen. *)
THEOREM SolversReadyWaitsForAll == SolversSpec => []DnsReadyWaitsForAll
<1>1. SolversInv => DnsReadyWaitsForAll
  BY Zenon DEF SolversInv, DnsKeptInv, TokensKept, OrderInv, Ordered, ReadyWaitsForAll, DnsReadyWaitsForAll
<1> QED BY <1>1, SolversInvariance, PTL
=============================================================================
