------------------------------ MODULE TxtRecord ------------------------------
(***************************************************************************)
(* What DnsProvider promises about the TXT record of one FQDN, seen from   *)
(* the DNS zone: a call of `present` adds its own value, a call of         *)
(* `cleanup` removes its own value, and no call touches another value.  A  *)
(* call that returns Ok has had its effect while it was running; one that  *)
(* returns an error, or whose future is dropped, may have had it, and may  *)
(* still have it later.                                                    *)
(***************************************************************************)
CONSTANTS Tasks,    \* callers of the provider
          Values,   \* ACME challenge values
          Foreign   \* values kept at the same name by somebody else

VARIABLES values,   \* what the zone holds at the name
          running,  \* running[t]: the call of t in progress, or Idle
          result,   \* result[t]: how the last call of t ended
          orphans   \* calls given up that may still take effect

vars == <<values, running, result, orphans>>

Idle == [op |-> "none"]

(* The zone after a call had its effect. *)
Effect(c, s) == IF c.op = "present" THEN s \cup {c.val} ELSE s \ {c.val}

Init == /\ values \in SUBSET Foreign
        /\ running = [t \in Tasks |-> Idle]
        /\ result = [t \in Tasks |-> "none"]
        /\ orphans = {}

Begin(t) ==
    /\ running[t] = Idle
    /\ \E op \in {"present", "cleanup"}, v \in Values :
          running' = [running EXCEPT ![t] = [op |-> op, val |-> v, done |-> FALSE]]
    /\ result' = [result EXCEPT ![t] = "none"]
    /\ UNCHANGED <<values, orphans>>

(* The effect of a running call. *)
Apply(t) ==
    /\ running[t] # Idle
    /\ values' = Effect(running[t], values)
    /\ running' = [running EXCEPT ![t].done = TRUE]
    /\ UNCHANGED <<result, orphans>>

(* A call of present takes its own value back before it fails. *)
Undo(t) == running[t].op = "present" /\ running[t].done /\ values' = values \ {running[t].val}

(* What a call given up may still do: have its effect, or take it back. *)
Pending(c) ==
    {[op |-> op, val |-> c.val] :
        op \in {c.op} \cup {o \in {"cleanup"} : c.op = "present" /\ c.done}}

(* The end of a call, with its effect if it had none before.  Ok is returned
   for a call that had its effect or had nothing left to do. *)
Return(t) ==
    /\ running[t] # Idle
    /\ values' \in {values, Effect(running[t], values)} \/ (Undo(t) /\ result'[t] # "ok")
    /\ running' = [running EXCEPT ![t] = Idle]
    /\ \E res \in {"ok", "err", "dropped"} :
          /\ res = "ok" => running[t].done \/ values' = Effect(running[t], values)
          /\ result' = [result EXCEPT ![t] = res]
          /\ \/ UNCHANGED orphans
             \/ /\ res # "ok"
                /\ \E c \in Pending(running[t]) : orphans' = orphans \cup {c}

(* The cleanups in progress that find their value gone: there is nothing left
   for them to do. *)
Relieved ==
    {t \in Tasks : running[t].op = "cleanup" /\ running[t].val \notin values'}

(* A call given up earlier takes effect, or never will.  That may do the work
   of calls in progress. *)
Straggle ==
    \E c \in orphans, relieved \in SUBSET Relieved :
        /\ values' \in {values, Effect(c, values)}
        /\ orphans' \in {orphans, orphans \ {c}}
        /\ running' = [t \in Tasks |->
              IF t \in relieved THEN [running[t] EXCEPT !.done = TRUE] ELSE running[t]]
        /\ UNCHANGED result

(* Somebody else changes a value of their own. *)
Outside ==
    \E v \in Foreign :
        /\ values' \in {values \cup {v}, values \ {v}}
        /\ UNCHANGED <<running, result, orphans>>

Next == (\E t \in Tasks : Begin(t) \/ Apply(t) \/ Return(t)) \/ Straggle \/ Outside

Spec == Init /\ [][Next]_vars
=============================================================================
