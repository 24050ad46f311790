---------------------------- MODULE CleanupGuard -----------------------------
(***************************************************************************)
(* CleanupGuard: what a solver has put in place and must take down again.  *)
(* An item is a TXT value (Dns01Solver) or a domain whose challenge        *)
(* certificate is served (TlsAlpn01Solver).                                *)
(*                                                                         *)
(* The provider (or responder) behind `present` and `cleanup` is the one   *)
(* TxtRecord describes: a call that fails may have had its effect, and a   *)
(* request whose future was dropped may arrive later.  A call and its      *)
(* effect are one step here.                                               *)
(***************************************************************************)
EXTENDS Naturals, Sequences, FiniteSets

CONSTANTS Solves,    \* the solves, each with a guard of its own
          Items,     \* what they put in place
          MaxLate    \* bound on the requests in flight after a drop

ASSUME MaxLateAssumption == MaxLate \in Nat

VARIABLES
    pending,   \* pending[s]: the guard's list
    spawned,   \* spawned[s]: what the task spawned by Drop still has to clean
    runtime,   \* whether the Tokio runtime is up
    inPlace,   \* the items that are there
    late,      \* calls nobody waits for any more that may still be applied
    failed,    \* items whose last cleanup failed: the hook was told
    stray,     \* items put in place by a call after its solve was gone
    abandoned  \* items left behind because there was no runtime to clean them

guardVars == <<pending, spawned, runtime, inPlace, late, failed, stray, abandoned>>

Elements(q) == {q[i] : i \in DOMAIN q}

GuardTypeOK ==
    /\ pending \in [Solves -> Seq(Items)]
    /\ spawned \in [Solves -> Seq(Items)]
    /\ runtime \in BOOLEAN
    /\ inPlace \subseteq Items
    /\ late \subseteq [op : {"present", "cleanup"}, item : Items]
    /\ failed \subseteq Items
    /\ stray \subseteq Items
    /\ abandoned \subseteq Items

GuardInit ==
    /\ pending = [s \in Solves |-> <<>>]
    /\ spawned = [s \in Solves |-> <<>>]
    /\ runtime = TRUE
    /\ inPlace = {}
    /\ late = {}
    /\ failed = {}
    /\ stray = {}
    /\ abandoned = {}

(* Once an item is in a guard's list, nothing excuses leaving it behind. *)
Push(s, item) ==
    /\ pending' = [pending EXCEPT ![s] = Append(@, item)]
    /\ failed' = failed \ {item}
    /\ stray' = stray \ {item}
    /\ abandoned' = abandoned \ {item}
    /\ UNCHANGED <<spawned, runtime, inPlace, late>>

(* present(item) returns: Ok only with its effect. *)
Presented(item, ok) ==
    /\ inPlace' \in {inPlace \cup {item}} \cup (IF ok THEN {} ELSE {inPlace})
    /\ UNCHANGED <<pending, spawned, runtime, late, failed, stray, abandoned>>

(* Mutant: a cleanup takes everything at the name with it. *)
CleanWholeName(item) ==
    /\ inPlace' = {}
    /\ UNCHANGED failed

(* The closure of cleanup_guard: cleanup(item) returns, and an error goes to
   the hook and nowhere else. *)
CleanItem(item) ==
    \/ /\ inPlace' = inPlace \ {item}
       /\ UNCHANGED failed
    \/ /\ inPlace' \in {inPlace, inPlace \ {item}}
       /\ failed' = failed \cup {item}

(* run: the first item leaves the list once its cleanup has completed. *)
RunStep(s) ==
    /\ pending[s] # <<>>
    /\ CleanItem(Head(pending[s]))
    /\ pending' = [pending EXCEPT ![s] = Tail(@)]
    /\ UNCHANGED <<spawned, runtime, late, stray, abandoned>>

(* The call the solve was waiting for when it was dropped, if any: it had its
   effect, or never will, or may have it later. *)
Orphaned(calls) ==
    \/ UNCHANGED <<inPlace, late>>
    \/ \E c \in calls :
          /\ inPlace' = IF c.op = "present" THEN inPlace \cup {c.item} ELSE inPlace \ {c.item}
          /\ UNCHANGED late
    \/ \E c \in calls :
          /\ Cardinality(late) < MaxLate
          /\ late' = late \cup {c}
          /\ UNCHANGED inPlace

(* Mutant: the item being cleaned when the future is dropped is not handed
   over, as if run removed it from the list first. *)
DropLosesFirst(s, calls) ==
    /\ Orphaned(calls)
    /\ pending' = [pending EXCEPT ![s] = <<>>]
    /\ spawned' = [spawned EXCEPT ![s] = IF pending[s] = <<>> THEN <<>> ELSE Tail(pending[s])]
    /\ UNCHANGED <<runtime, failed, stray, abandoned>>

(* Mutant: nothing is spawned. *)
DropSpawnsNothing(s, calls) ==
    /\ Orphaned(calls)
    /\ UNCHANGED <<pending, spawned, runtime, failed, stray, abandoned>>

(* Drop: what is pending goes to a task spawned on the current runtime.  There
   may be none: the future can be dropped on a thread that is not in one. *)
Drop(s, calls) ==
    /\ Orphaned(calls)
    /\ pending' = [pending EXCEPT ![s] = <<>>]
    /\ \/ /\ spawned' = [spawned EXCEPT ![s] = pending[s]]
          /\ UNCHANGED abandoned
       \/ /\ abandoned' = abandoned \cup Elements(pending[s])
          /\ UNCHANGED spawned
    /\ UNCHANGED <<runtime, failed, stray>>

(* The spawned task cleans its items in order. *)
SpawnedStep(s) ==
    /\ spawned[s] # <<>>
    /\ CleanItem(Head(spawned[s]))
    /\ spawned' = [spawned EXCEPT ![s] = Tail(@)]
    /\ UNCHANGED <<pending, runtime, late, stray, abandoned>>

(* The runtime shuts down: its futures and tasks are dropped where they are,
   and what they spawn does not run.  Of the calls they were waiting for, some
   have had their effect. *)
RuntimeStops(calls) ==
    /\ runtime
    /\ \E had \in SUBSET calls :
          inPlace' = (inPlace \cup {c.item : c \in {d \in had : d.op = "present"}})
                        \ {c.item : c \in {d \in had : d.op = "cleanup"}}
    /\ runtime' = FALSE
    /\ pending' = [s \in Solves |-> <<>>]
    /\ spawned' = [s \in Solves |-> <<>>]
    /\ abandoned' = abandoned \cup
          UNION {Elements(pending[s]) \cup Elements(spawned[s]) : s \in Solves}
    /\ UNCHANGED <<late, failed, stray>>

(* A call whose caller is gone takes effect, or is lost. *)
Land ==
    \E c \in late :
        /\ late' = late \ {c}
        /\ \/ UNCHANGED <<inPlace, stray>>
           \/ /\ c.op = "present"
              /\ inPlace' = inPlace \cup {c.item}
              /\ stray' = stray \cup {c.item}
           \/ /\ c.op = "cleanup"
              /\ inPlace' = inPlace \ {c.item}
              /\ UNCHANGED stray
        /\ UNCHANGED <<pending, spawned, runtime, failed, abandoned>>

(* Some guard, or the task it handed its list to, still has the item. *)
Tracked(item) ==
    \E s \in Solves : item \in Elements(pending[s]) \cup Elements(spawned[s])

(* cleanup.rs:15-21, 47-49: whatever a solve put in place is in its guard's
   list or in the list of the task spawned by Drop, so it will be taken down,
   unless its cleanup failed (and the hook was told), there was no runtime
   left, or a request arrived after the solve was gone. *)
NothingForgotten ==
    \A item \in inPlace :
        Tracked(item) \/ item \in failed \/ item \in abandoned \/ item \in stray
=============================================================================
