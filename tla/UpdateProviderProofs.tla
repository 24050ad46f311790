------------------------ MODULE UpdateProviderProofs -------------------------
(***************************************************************************)
(* Hetzner and RFC 2136 implement TxtRecord for any number of callers,     *)
(* values and calls, with late updates, forged answers and other writers   *)
(* included: the server does the merge, and an update carries the value of *)
(* its own call only (UpdateOf).  As long as nobody else writes, Hetzner   *)
(* accepts the TTL of every update.                                        *)
(***************************************************************************)
EXTENDS UpdateProvider, TLAPS

(* Request r is an update for call c. *)
UpdateOf(c, r) ==
    /\ r.kind = IF c.op = "present" THEN "add" ELSE "remove"
    /\ r.val = c.val
    /\ r.ttl \in {"none", "config"}

(* Where the update of a call is out, and where its action is. *)
Sent == {"write", "poll"}

CallInv == \A t \in Tasks :
    /\ pc[t] \in Sent => UpdateOf(call[t], request[t])
    /\ pc[t] # "poll" => action[t] = "none" /\ done[t] = FALSE
    /\ pc[t] = "poll" => action[t] # "none" /\ (action[t] = "success" => done[t] = TRUE)

IInv ==
    /\ TypeOK /\ CallInv
    /\ \A l \in late : l.call \in Calls /\ UpdateOf(l.call, l.req)
    /\ request = [t \in Tasks |-> request[t]]
    /\ rrset.vals = {} => rrset = NoSet

-----------------------------------------------------------------------------

LEMMA InitIInv == Init => IInv
<1> SUFFICES ASSUME Init PROVE IInv
  BY Zenon
<1>1. (CHOOSE c \in Calls : TRUE) \in Calls
  <2>1. PICK v : v \in Values
    BY ValuesAssumption, Zenon
  <2>2. [op |-> "present", val |-> v] \in Calls
    BY <2>1, Zenon DEF Calls, Ops
  <2> QED
    BY <2>2, Zenon
<1>2. call \in [Tasks -> Calls]
  BY <1>1, Zenon DEF Init, CallInit
<1>3. TypeOK
  BY <1>2, BoundsAssumption DEF Init, CallInit, TypeOK, CallTypeOK, NoSet, MaxAttempts
<1> QED
  BY <1>3, Zenon DEF Init, CallInit, IInv, CallInv, Sent, NoSet

(* The updates the two providers send are those of their calls. *)
LEMMA PlannedUpdates ==
    ASSUME NEW c \in Calls, NEW s
    PROVE  /\ UpdateOf(c, Rfc2136Update(c))
           /\ IF HetznerPlan(c, s) = NoRequest THEN s.vals = Txt!Effect(c, s.vals)
              ELSE UpdateOf(c, HetznerPlan(c, s))
<1>1. c.op \in {"present", "cleanup"}
  BY Zenon DEF Calls, Ops
<1> QED
  BY <1>1, Zenon DEF UpdateOf, Rfc2136Update, HetznerPlan, HetznerPresent, HetznerCleanup,
     AddValue, RemoveValue, NoRequest, Txt!Effect

(* Applied, an update has the effect of its call. *)
LEMMA AppliedFacts ==
    ASSUME TypeOK, rrset.vals = {} => rrset = NoSet,
           NEW c \in Calls, NEW r, UpdateOf(c, r), Apply(r)
    PROVE  /\ rrset' \in [ttl : {"config", "other"}, vals : SUBSET (Values \cup Foreign)]
           /\ rrset'.vals = {} => rrset' = NoSet
           /\ rrset'.vals = Txt!Effect(c, rrset.vals)
           /\ rrset.ttl = "config" => rrset'.ttl = "config"
           /\ provider' = provider
<1>1. c.op \in {"present", "cleanup"} /\ c.val \in Values
  BY Zenon DEF Calls, Ops
<1>2. /\ rrset.ttl \in {"config", "other"} /\ rrset.vals \in SUBSET (Values \cup Foreign)
      /\ rrset = [ttl |-> rrset.ttl, vals |-> rrset.vals]
  BY Zenon DEF TypeOK
<1> QED
  BY <1>1, <1>2, SMTT(30) DEF UpdateOf, Apply, NoSet, Txt!Effect

-----------------------------------------------------------------------------
(* The invariant. *)

(* A call sends its update. *)
LEMMA SendKeeps ==
    ASSUME IInv, NEW t \in Tasks, NEW r, pc[t] \in {"resolve", "fetch"}, UpdateOf(call[t], r), Send(t, r)
    PROVE  IInv'
<1>1. TypeOK'
  BY DEF IInv, TypeOK, CallTypeOK, Send, Goto, serverVars, MaxAttempts
<1>2. CallInv'
  BY ZenonT(30) DEF IInv, TypeOK, CallTypeOK, CallInv, Send, Goto, serverVars, Sent
<1> QED
  BY <1>1, <1>2, Zenon DEF IInv, Send, Goto, serverVars

(* A call ends; its update was applied, or not, or is left behind. *)
LEMMA EndKeeps ==
    ASSUME IInv, NEW t \in Tasks, NEW res \in {"ok", "err", "dropped"}, pc[t] # "idle", Finish(t, res),
           UNCHANGED serverVars \/ (pc[t] \in Sent /\ Apply(request[t])),
           \/ UNCHANGED late
           \/ pc[t] \in Sent /\ late' = late \cup {[call |-> call[t], req |-> request[t]]},
           action' = [action EXCEPT ![t] = "none"], UNCHANGED <<request, attempt>>
    PROVE  IInv'
<1>1. call[t] \in Calls /\ (pc[t] \in Sent => UpdateOf(call[t], request[t]))
  BY Zenon DEF IInv, TypeOK, CallTypeOK, CallInv
<1>2. /\ rrset' \in [ttl : {"config", "other"}, vals : SUBSET (Values \cup Foreign)]
      /\ rrset'.vals = {} => rrset' = NoSet
      /\ provider' = provider
  BY <1>1, AppliedFacts, Zenon DEF IInv, TypeOK, serverVars
<1>3. TypeOK'
  BY <1>2, NoTaskAssumption, Zenon DEF IInv, TypeOK, CallTypeOK, Finish
<1>4. CallInv'
  BY ZenonT(30) DEF IInv, TypeOK, CallTypeOK, CallInv, Finish, Sent
<1>5. \A l \in late' : l.call \in Calls /\ UpdateOf(l.call, l.req)
  BY <1>1 DEF IInv
<1> QED
  BY <1>2, <1>3, <1>4, <1>5, Zenon DEF IInv

LEMMA NextIInv == ASSUME IInv, [Next]_vars PROVE IInv'
<1>1. ASSUME NEW t \in Tasks, Start(t) PROVE IInv'
  <2>1. CASE Begin(t)
    <3>1. call' \in [Tasks -> Calls] /\ calls' \in 0..MaxCalls
      BY <2>1, BoundsAssumption DEF IInv, TypeOK, CallTypeOK, Begin
    <3>2. TypeOK'
      BY <1>1, <2>1, <3>1, Zenon DEF IInv, TypeOK, CallTypeOK, Start, Begin, serverVars, writeVars
    <3>3. CallInv'
      BY <1>1, <2>1, ZenonT(30) DEF IInv, TypeOK, CallTypeOK, CallInv, Start, Begin, writeVars, Sent
    <3> QED
      BY <1>1, <2>1, <3>2, <3>3, Zenon DEF IInv, Start, Begin, serverVars, writeVars
  <2>2. CASE Resolved(t) \/ Acquire(t)
    BY <1>1, <2>2 DEF IInv, TypeOK, CallTypeOK, CallInv, Start, Resolved, Acquire,
       serverVars, writeVars, Sent
  <2> QED
    BY <1>1, <2>1, <2>2, Zenon DEF Start
<1>2. ASSUME NEW t \in Tasks, NEW res \in {"ok", "err", "dropped"}, pc[t] # "idle", Stop(t, res)
      PROVE  IInv'
  BY <1>2, EndKeeps, Zenon DEF Stop, Return
<1>3. ASSUME NEW t \in Tasks, NEW res \in {"ok", "err", "dropped"}, pc[t] \in Sent, LeaveBehind(t, res)
      PROVE  IInv'
  BY <1>3, EndKeeps, Zenon DEF LeaveBehind, Return, Abandon, Sent
<1>4. ASSUME NEW t \in Tasks, SendUpdate(t) \/ Fetch(t) PROVE IInv'
  <2>1. call[t] \in Calls
    BY Zenon DEF IInv, TypeOK, CallTypeOK
  <2>2. CASE SendUpdate(t)
    BY <2>1, <2>2, PlannedUpdates, SendKeeps DEF SendUpdate
  <2>3. CASE Fetch(t)
    BY <1>2, <2>1, <2>3, PlannedUpdates, SendKeeps DEF Fetch
  <2> QED
    BY <1>4, <2>2, <2>3, Zenon
<1>5. ASSUME NEW t \in Tasks, Answered(t) PROVE IInv'
  <2>1. PICK res \in {"ok", "err"} : Return(t, res)
    BY <1>5, Zenon DEF Answered
  <2>2. action' = [action EXCEPT ![t] = "none"]
    BY <1>5, Zenon DEF IInv, TypeOK, CallInv, Answered, writeVars
  <2> QED
    BY <1>5, <2>1, <2>2, EndKeeps, Zenon DEF Answered, Return, writeVars, Sent
<1>6. ASSUME NEW t \in Tasks, ActionCreated(t) \/ Throttled(t) PROVE IInv'
  BY <1>6 DEF IInv, TypeOK, CallTypeOK, CallInv, ActionCreated, Throttled, Goto, callVars,
     serverVars, Sent, MaxAttempts
<1>7. ASSUME NEW t \in Tasks, ActionSettles(t) PROVE IInv'
  <2>1. call[t] \in Calls /\ UpdateOf(call[t], request[t])
    BY <1>7, Zenon DEF IInv, TypeOK, CallTypeOK, CallInv, ActionSettles, Sent
  <2>2. /\ rrset' \in [ttl : {"config", "other"}, vals : SUBSET (Values \cup Foreign)]
        /\ rrset'.vals = {} => rrset' = NoSet
        /\ provider' = provider
    BY <1>7, <2>1, AppliedFacts, Zenon DEF IInv, TypeOK, ActionSettles, serverVars
  <2>3. /\ pc' = pc /\ call' = call /\ request' = request /\ late' = late
        /\ UNCHANGED <<lock, calls, result, attempt>>
        /\ pc[t] = "poll" /\ action' \in [Tasks -> {"none", "running", "success", "error"}]
        /\ done' \in [Tasks -> BOOLEAN]
    BY <1>7, Zenon DEF IInv, TypeOK, CallTypeOK, ActionSettles
  <2>4. /\ action'[t] # "none" /\ (action'[t] = "success" => done'[t] = TRUE)
        /\ \A u \in Tasks \ {t} : action'[u] = action[u] /\ done'[u] = done[u]
    BY <1>7, ZenonT(30) DEF IInv, TypeOK, CallTypeOK, ActionSettles
  <2>5. TypeOK'
    BY <2>2, <2>3, Zenon DEF IInv, TypeOK, CallTypeOK
  <2>6. CallInv'
    BY <2>3, <2>4, Zenon DEF IInv, CallInv
  <2> QED
    BY <2>2, <2>3, <2>5, <2>6, Zenon DEF IInv
<1>8. ASSUME NEW t \in Tasks, Fails(t) \/ WaitForAction(t) \/ Refused(t) \/ TimedOut(t) \/ Cancel(t)
      PROVE  IInv'
  BY <1>2, <1>3, <1>8, Zenon DEF Fails, WaitForAction, Refused, TimedOut, Cancel, Sent
<1>9. ASSUME Land PROVE IInv'
  <2>1. PICK l \in late : late' = late \ {l} /\ (Apply(l.req) \/ UNCHANGED serverVars)
    BY <1>9, Zenon DEF Land
  <2>2. /\ rrset' \in [ttl : {"config", "other"}, vals : SUBSET (Values \cup Foreign)]
        /\ rrset'.vals = {} => rrset' = NoSet
        /\ provider' = provider
    BY <2>1, AppliedFacts, Zenon DEF IInv, TypeOK, serverVars
  <2> QED
    BY <1>9, <2>1, <2>2, ZenonT(30) DEF IInv, TypeOK, CallTypeOK, CallInv, Land, writeVars
<1>10. ASSUME OthersWrite PROVE IInv'
  <2>1. /\ rrset' \in [ttl : {"config", "other"}, vals : SUBSET (Values \cup Foreign)]
        /\ rrset'.vals = {} => rrset' = NoSet
    BY <1>10 DEF IInv, TypeOK, OthersWrite, NoSet
  <2> QED
    BY <1>10, <2>1, Zenon DEF IInv, TypeOK, CallTypeOK, CallInv, OthersWrite, callVars, writeVars
<1>11. ASSUME UNCHANGED vars PROVE IInv'
  BY <1>11, Zenon DEF IInv, TypeOK, CallTypeOK, CallInv, vars, callVars, serverVars, writeVars
<1> QED
  BY <1>1, <1>4, <1>5, <1>6, <1>7, <1>8, <1>9, <1>10, <1>11, Zenon DEF Next

LEMMA Invariance == Spec => []IInv
<1>1. IInv /\ [Next]_vars => IInv'
  BY NextIInv, Zenon
<1> QED
  BY InitIInv, <1>1, PTL DEF Spec

-----------------------------------------------------------------------------
(* The TTL of an update. *)

(* Nobody else writes to Hetzner's set. *)
Alone == provider = "hetzner" => provider \notin OtherWriters

(* A TTL is only sent along with the value that creates the set, and then the
   set has that TTL. *)
TtlInv ==
    provider = "hetzner" =>
        /\ \A t \in Tasks : pc[t] \in Sent /\ request[t].ttl = "config" => rrset.ttl = "config"
        /\ \A l \in late : l.req.ttl = "config" => rrset.ttl = "config"

LEMMA TtlStays ==
    ASSUME IInv, Alone, provider = "hetzner", [Next]_vars
    PROVE  provider' = provider /\ (rrset.ttl = "config" => rrset'.ttl = "config")
<1>1. ASSUME NEW c \in Calls, NEW r, UpdateOf(c, r), Apply(r)
      PROVE  provider' = provider /\ (rrset.ttl = "config" => rrset'.ttl = "config")
  BY <1>1, AppliedFacts, Zenon DEF IInv
<1>2. /\ \A t \in Tasks : pc[t] \in Sent => call[t] \in Calls /\ UpdateOf(call[t], request[t])
      /\ \A l \in late : l.call \in Calls /\ UpdateOf(l.call, l.req)
  BY Zenon DEF IInv, TypeOK, CallTypeOK, CallInv
<1>3. \/ UNCHANGED serverVars
      \/ \E t \in Tasks : pc[t] \in Sent /\ Apply(request[t])
      \/ \E l \in late : Apply(l.req)
  <2>1. ASSUME NEW t \in Tasks, Start(t) \/ SendUpdate(t) \/ Fails(t) \/ Fetch(t) \/ Refused(t) \/ Throttled(t) \/ ActionCreated(t)
        PROVE  UNCHANGED serverVars
    BY <2>1, Zenon DEF Start, SendUpdate, Send, Fails, Fetch, Stop, Refused, Throttled, ActionCreated
  <2>2. ASSUME NEW t \in Tasks, Answered(t) \/ ActionSettles(t) \/ WaitForAction(t) \/ TimedOut(t) \/ Cancel(t)
        PROVE  UNCHANGED serverVars \/ (pc[t] \in Sent /\ Apply(request[t]))
    BY <2>2, Zenon DEF Answered, ActionSettles, WaitForAction, TimedOut, Cancel, LeaveBehind, Stop, Sent
  <2>3. ~OthersWrite
    BY Zenon DEF Alone, OthersWrite
  <2> QED
    BY <2>1, <2>2, <2>3, Zenon DEF Next, Land, vars, serverVars
<1> QED
  BY <1>1, <1>2, <1>3, Zenon DEF serverVars

LEMMA TtlStep == ASSUME IInv, Alone, TtlInv, [Next]_vars PROVE Alone' /\ TtlInv'
<1>1. provider' = provider
  BY TtlStays, ZenonT(30)
     DEF Next, Start, SendUpdate, Send, Fails, Fetch, Stop, Refused, Throttled, ActionCreated,
     Answered, ActionSettles, WaitForAction, TimedOut, Cancel, LeaveBehind, Land, Apply, OthersWrite,
     vars, serverVars
<1>2. CASE provider # "hetzner"
  BY <1>1, <1>2, Zenon DEF Alone, TtlInv
<1>3. CASE provider = "hetzner"
  <2>1. rrset.ttl = "config" => rrset'.ttl = "config"
    BY <1>3, TtlStays, Zenon
  <2>2. ASSUME NEW t \in Tasks, Fetch(t), pc'[t] \in Sent, request'[t].ttl = "config"
        PROVE  rrset.ttl = "config"
    <3>1. request'[t] = HetznerPlan(call[t], rrset) /\ request'[t] # NoRequest
      BY <2>2, ZenonT(90) DEF Fetch, Send, Stop, Return, Finish, IInv, TypeOK, CallTypeOK, Sent
    <3>2. rrset.vals = {}
      BY <2>2, <3>1 DEF HetznerPlan, HetznerPresent, HetznerCleanup, AddValue, RemoveValue, NoRequest
    <3> QED
      BY <3>2 DEF IInv, NoSet
  <2>3. ASSUME NEW u \in Tasks, pc'[u] \in Sent, ~Fetch(u)
        PROVE  pc[u] \in Sent /\ request'[u] = request[u]
    <3>1. ASSUME NEW t \in Tasks, Start(t) \/ Throttled(t) \/ ActionCreated(t) \/ ActionSettles(t)
          PROVE  pc[u] \in Sent /\ request'[u] = request[u]
      BY <2>3, <3>1, ZenonT(30) DEF IInv, TypeOK, CallTypeOK, Start, Begin, Resolved, Acquire, Throttled,
         ActionCreated, ActionSettles, Goto, callVars, writeVars, Sent
    <3>2. ASSUME NEW t \in Tasks, NEW res, Finish(t, res), UNCHANGED request
          PROVE  pc[u] \in Sent /\ request'[u] = request[u]
      BY <2>3, <3>2, Zenon DEF IInv, TypeOK, CallTypeOK, Finish, Sent
    <3>3. ASSUME NEW t \in Tasks, Fetch(t) PROVE pc[u] \in Sent /\ request'[u] = request[u]
      BY <2>3, <3>2, <3>3, ZenonT(30) DEF IInv, TypeOK, CallTypeOK, Fetch, Stop, Return, Send, Goto, Sent
    <3>4. ASSUME NEW t \in Tasks, Fails(t) \/ Answered(t) \/ WaitForAction(t) \/ Refused(t)
                 \/ TimedOut(t) \/ Cancel(t)
          PROVE  pc[u] \in Sent /\ request'[u] = request[u]
      BY <3>2, <3>4, ZenonT(30) DEF Fails, Answered, WaitForAction, Refused, TimedOut, Cancel, Stop,
         LeaveBehind, Return, Abandon, writeVars
    <3>5. ASSUME Land \/ OthersWrite \/ UNCHANGED vars PROVE pc[u] \in Sent /\ request'[u] = request[u]
      BY <2>3, <3>5, ZenonT(30) DEF Land, OthersWrite, vars, callVars, writeVars
    <3>6. ASSUME NEW t \in Tasks PROVE ~SendUpdate(t)
      BY <1>3, ZenonT(30) DEF SendUpdate
    <3> QED
      BY <3>1, <3>3, <3>4, <3>5, <3>6, Zenon DEF Next
  <2>4. ASSUME NEW l \in late' PROVE l \in late \/ \E t \in Tasks : pc[t] \in Sent /\ l.req = request[t]
    <3>1. ASSUME NEW t \in Tasks, Start(t) \/ SendUpdate(t) \/ Fails(t) \/ Fetch(t) \/ Refused(t)
                 \/ Throttled(t) \/ ActionCreated(t) \/ ActionSettles(t)
          PROVE  late' = late
      BY <3>1, ZenonT(30) DEF Start, Begin, Resolved, Acquire, SendUpdate, Send, Goto, Fails, Fetch, Stop,
         Return, Refused, Throttled, ActionCreated, ActionSettles, callVars
    <3>2. ASSUME NEW t \in Tasks, Answered(t) \/ WaitForAction(t) \/ TimedOut(t) \/ Cancel(t)
          PROVE  \/ late' = late
                 \/ pc[t] \in Sent /\ late' = late \cup {[call |-> call[t], req |-> request[t]]}
      BY <3>2, ZenonT(30) DEF Answered, WaitForAction, TimedOut, Cancel, LeaveBehind, Abandon, Stop, Return,
         Sent
    <3>3. ASSUME Land \/ OthersWrite \/ UNCHANGED vars PROVE late' \subseteq late
      BY <3>3, Zenon DEF Land, OthersWrite, vars, callVars
    <3>4. CASE late' \subseteq late
      BY <2>4, <3>4, Zenon
    <3>5. CASE \E t \in Tasks : pc[t] \in Sent /\ late' = late \cup {[call |-> call[t], req |-> request[t]]}
      <4>1. PICK t \in Tasks : pc[t] \in Sent /\ late' = late \cup {[call |-> call[t], req |-> request[t]]}
        BY <3>5, Zenon
      <4>2. l \in late \/ l.req = request[t]
        BY <2>4, <4>1
      <4> QED
        BY <4>1, <4>2, Zenon
    <3>6. late' = late => late' \subseteq late
      BY Zenon
    <3> QED
      BY <3>1, <3>2, <3>3, <3>4, <3>5, <3>6, ZenonT(30) DEF Next
  <2> QED
    BY <1>1, <1>3, <2>1, <2>2, <2>3, <2>4 DEF Alone, TtlInv
<1> QED
  BY <1>2, <1>3, Zenon

(* hetzner.rs:385-388.  As long as nobody else writes to the set, Hetzner
   refuses no update for its TTL, not even one that arrives after its caller
   left and after other calls created or removed the set. *)
THEOREM HetznerTtlAccepted == Spec /\ Alone => []TtlAccepted
<1>1. Init => TtlInv
  BY Zenon DEF Init, CallInit, TtlInv, Sent
<1>2. IInv /\ Alone /\ TtlInv /\ [Next]_vars => Alone' /\ TtlInv'
  BY TtlStep, Zenon
<1>3. IInv /\ TtlInv => TtlAccepted
  BY ZenonT(30) DEF IInv, CallInv, UpdateOf, TtlInv, TtlAccepted, Accepts, TtlMatches, Sent
<1> QED
  BY Invariance, <1>1, <1>2, <1>3, PTL DEF Spec

-----------------------------------------------------------------------------
(* The providers implement TxtRecord. *)

(* A call in progress, as TxtRecord has it. *)
LEMMA RunningFacts ==
    ASSUME IInv, NEW t \in Tasks, pc[t] # "idle"
    PROVE  /\ Running[t] = [op |-> call[t].op, val |-> call[t].val, done |-> done[t]]
           /\ Running[t] # Txt!Idle /\ Running[t].done = done[t]
           /\ call[t] \in Calls /\ call[t] \in Txt!Pending(Running[t])
           /\ \A s : Txt!Effect(Running[t], s) = Txt!Effect(call[t], s)
<1>1. /\ call[t] \in Calls /\ call[t].op \in {"present", "cleanup"}
      /\ call[t] = [op |-> call[t].op, val |-> call[t].val]
  BY Zenon DEF IInv, TypeOK, CallTypeOK, Calls, Ops
<1>2. Running[t] = [op |-> call[t].op, val |-> call[t].val, done |-> done[t]]
  BY Zenon DEF Running
<1>3. Running[t].op = call[t].op /\ Running[t].val = call[t].val /\ Running[t].done = done[t]
  BY <1>2
<1>4. Running[t] # Txt!Idle
  BY <1>1, <1>3 DEF Txt!Idle
<1>5. call[t] \in Txt!Pending(Running[t])
  BY <1>1, <1>3, Zenon DEF Txt!Pending
<1> QED
  BY <1>1, <1>2, <1>3, <1>4, <1>5, ZenonT(30) DEF Txt!Effect

(* A call that ends is a Return: its update was applied before or just now, or
   not, or is left behind. *)
LEMMA EndRefines ==
    ASSUME IInv, NEW t \in Tasks, pc[t] # "idle", NEW res \in {"ok", "err", "dropped"}, Finish(t, res),
           UNCHANGED serverVars \/ (pc[t] \in Sent /\ Apply(request[t])),
           res = "ok" => \/ done[t] \/ (pc[t] \in Sent /\ Apply(request[t]))
                         \/ rrset'.vals = Txt!Effect(call[t], rrset.vals),
           \/ UNCHANGED late
           \/ res # "ok" /\ \E r : late' = late \cup {[call |-> call[t], req |-> r]}
    PROVE  Txt!Next
<1>1. /\ Running[t] # Txt!Idle /\ Running[t].done = done[t]
      /\ call[t] \in Calls /\ call[t] \in Txt!Pending(Running[t])
      /\ Txt!Effect(Running[t], rrset.vals) = Txt!Effect(call[t], rrset.vals)
  BY RunningFacts, Zenon
<1>2. pc[t] \in Sent /\ Apply(request[t]) => rrset'.vals = Txt!Effect(call[t], rrset.vals)
  BY <1>1, AppliedFacts, Zenon DEF IInv, CallInv
<1>3. UNCHANGED serverVars => UNCHANGED rrset
  BY Zenon DEF serverVars
<1>4. Running' = [Running EXCEPT ![t] = Txt!Idle]
  BY ZenonT(30) DEF Finish, Running, Txt!Idle, IInv, TypeOK, CallTypeOK
<1>5. result' = [result EXCEPT ![t] = res]
  BY Zenon DEF Finish
<1>6. UNCHANGED Orphans \/ (res # "ok" /\ Orphans' = Orphans \cup {call[t]})
  BY DEF Orphans
<1>7. Txt!Return(t)
  BY <1>1, <1>2, <1>3, <1>4, <1>5, <1>6, Zenon DEF Txt!Return
<1> QED
  BY <1>7, Zenon DEF Txt!Next

(* A call that goes on without a write is a stutter. *)
LEMMA GotoRefines ==
    ASSUME IInv, NEW t \in Tasks, pc[t] # "idle", NEW state, state # "idle",
           pc' = [pc EXCEPT ![t] = state], UNCHANGED <<call, done, result, late, rrset>>
    PROVE  UNCHANGED Txt!vars
<1>1. UNCHANGED Running
  BY Zenon DEF Running, IInv, TypeOK, CallTypeOK
<1> QED
  BY <1>1, Zenon DEF Txt!vars, Orphans

LEMMA NextRefines == ASSUME IInv, [Next]_vars PROVE [Txt!Next]_(Txt!vars)
<1>1. ASSUME NEW t \in Tasks, Start(t) PROVE [Txt!Next]_(Txt!vars)
  <2>1. CASE Begin(t)
    <3>1. PICK c \in Calls : call' = [call EXCEPT ![t] = c]
      BY <2>1, Zenon DEF Begin
    <3>2. Running[t] = Txt!Idle
      BY <2>1, Zenon DEF Begin, Running, Txt!Idle
    <3>3. Running' = [Running EXCEPT ![t] = [op |-> c.op, val |-> c.val, done |-> FALSE]]
      BY <2>1, <3>1, Zenon DEF Begin, Running, IInv, TypeOK, CallTypeOK, CallInv
    <3>4. UNCHANGED <<rrset.vals, Orphans>>
      BY <1>1, <2>1, Zenon DEF Start, Begin, Orphans, serverVars
    <3>5. Txt!Begin(t)
      BY <2>1, <3>1, <3>2, <3>3, <3>4, Zenon DEF Begin, Txt!Begin, Calls, Ops
    <3> QED
      BY <3>5, Zenon DEF Txt!Next
  <2>2. CASE Resolved(t) \/ Acquire(t)
    BY <1>1, <2>2, GotoRefines, Zenon DEF Start, Resolved, Acquire, serverVars
  <2> QED
    BY <1>1, <2>1, <2>2, Zenon DEF Start
<1>2. ASSUME NEW t \in Tasks, NEW res \in {"err", "dropped"}, pc[t] # "idle", Stop(t, res)
      PROVE  Txt!Next
  BY <1>2, EndRefines, Zenon DEF Stop, Return
<1>3. ASSUME NEW t \in Tasks, NEW res \in {"err", "dropped"}, pc[t] \in Sent, LeaveBehind(t, res)
      PROVE  Txt!Next
  BY <1>3, EndRefines, Zenon DEF LeaveBehind, Return, Abandon, Sent
<1>4. ASSUME NEW t \in Tasks, SendUpdate(t) \/ Fetch(t) \/ ActionCreated(t) PROVE [Txt!Next]_(Txt!vars)
  <2>1. CASE SendUpdate(t) \/ ActionCreated(t)
    BY <2>1, GotoRefines, Zenon DEF SendUpdate, Send, ActionCreated, Goto, serverVars
  <2>2. CASE Fetch(t)
    <3>1. CASE HetznerPlan(call[t], rrset) = NoRequest
      <4>1. rrset.vals = Txt!Effect(call[t], rrset.vals)
        BY <3>1, PlannedUpdates, Zenon DEF IInv, TypeOK, CallTypeOK
      <4> QED
        BY <2>2, <3>1, <4>1, EndRefines, Zenon DEF Fetch, Stop, Return, serverVars
    <3>2. CASE HetznerPlan(call[t], rrset) # NoRequest
      BY <2>2, <3>2, GotoRefines, ZenonT(30) DEF Fetch, Send, Goto, serverVars
    <3> QED
      BY <3>1, <3>2, Zenon
  <2> QED
    BY <1>4, <2>1, <2>2, Zenon
<1>5. ASSUME NEW t \in Tasks, Answered(t) PROVE Txt!Next
  <2>1. PICK a \in Answers :
          /\ \/ Apply(request[t])
             \/ UNCHANGED serverVars /\ (a.verified => a.rcode = "error")
          /\ Return(t, IF CheckResponse(a) THEN "ok" ELSE "err")
    BY <1>5, Zenon DEF Answered
  <2>2. PICK res \in {"ok", "err"} : Return(t, res) /\ (res = "ok" => Apply(request[t]))
    BY <2>1, Zenon DEF CheckResponse
  <2> QED
    BY <1>5, <2>1, <2>2, EndRefines, Zenon DEF Answered, Return, Sent
<1>6. ASSUME NEW t \in Tasks, Throttled(t) PROVE UNCHANGED Txt!vars
  BY <1>6, Zenon DEF Throttled, callVars, serverVars, Txt!vars, Running, Orphans
<1>7. ASSUME NEW t \in Tasks, ActionSettles(t) PROVE [Txt!Next]_(Txt!vars)
  <2>1. CASE Apply(request[t]) /\ done' = [done EXCEPT ![t] = TRUE]
    <3>1. /\ Running[t] # Txt!Idle /\ call[t] \in Calls
          /\ Running[t] = [op |-> call[t].op, val |-> call[t].val, done |-> done[t]]
          /\ Txt!Effect(Running[t], rrset.vals) = Txt!Effect(call[t], rrset.vals)
      BY <1>7, RunningFacts, Zenon DEF ActionSettles
    <3>2. rrset'.vals = Txt!Effect(Running[t], rrset.vals)
      BY <1>7, <2>1, <3>1, AppliedFacts, Zenon DEF ActionSettles, IInv, CallInv, Sent
    <3>3. Running'[t] = [op |-> call[t].op, val |-> call[t].val, done |-> TRUE]
      BY <1>7, <2>1, Zenon DEF ActionSettles, Running, IInv, TypeOK, CallTypeOK
    <3>4. ASSUME NEW a, NEW b, NEW d, NEW e
          PROVE  [[op |-> a, val |-> b, done |-> d] EXCEPT !.done = e]
                   = [op |-> a, val |-> b, done |-> e]
      OBVIOUS
    <3>5. \A e : [Running[t] EXCEPT !.done = e] = [op |-> call[t].op, val |-> call[t].val, done |-> e]
      BY <3>1, <3>4
    <3>6. ASSUME NEW u \in Tasks, u # t PROVE Running'[u] = Running[u]
      BY <1>7, <2>1, <3>6, ZenonT(30) DEF ActionSettles, Running, IInv, TypeOK, CallTypeOK
    <3>7. Running' = [u \in Tasks |-> Running'[u]] /\ Running = [u \in Tasks |-> Running[u]]
      BY Zenon DEF Running
    <3>8. Running' = [Running EXCEPT ![t].done = TRUE]
      BY <3>3, <3>5, <3>6, <3>7, Zenon
    <3>9. UNCHANGED <<result, Orphans>>
      BY <1>7, Zenon DEF ActionSettles, Orphans
    <3>10. Txt!Apply(t)
      BY <3>1, <3>2, <3>8, <3>9, Zenon DEF Txt!Apply
    <3> QED
      BY <3>10, Zenon DEF Txt!Next
  <2>2. CASE UNCHANGED <<serverVars, done>>
    BY <1>7, <2>2, Zenon DEF ActionSettles, serverVars, Txt!vars, Running, Orphans
  <2> QED
    BY <1>7, <2>1, <2>2, Zenon DEF ActionSettles
<1>8. ASSUME NEW t \in Tasks, WaitForAction(t) PROVE Txt!Next
  <2>1. CASE action[t] = "success" /\ Stop(t, "ok")
    BY <1>8, <2>1, EndRefines, Zenon DEF WaitForAction, Stop, Return, IInv, CallInv
  <2>2. CASE ~(action[t] = "success" /\ Stop(t, "ok"))
    BY <1>2, <1>3, <1>8, <2>2, Zenon DEF WaitForAction, Sent
  <2> QED
    BY <2>1, <2>2, Zenon
<1>9. ASSUME NEW t \in Tasks, Fails(t) \/ Refused(t) \/ TimedOut(t) \/ Cancel(t) PROVE Txt!Next
  BY <1>2, <1>3, <1>9, Zenon DEF Fails, Refused, TimedOut, Cancel, Sent
<1>10. ASSUME Land PROVE Txt!Next
  <2>1. PICK l \in late : late' = late \ {l} /\ (Apply(l.req) \/ UNCHANGED serverVars)
    BY <1>10 DEF Land
  <2>2. rrset'.vals \in {rrset.vals, Txt!Effect(l.call, rrset.vals)}
    BY <2>1, AppliedFacts, Zenon DEF IInv, serverVars
  <2>3. l.call \in Orphans /\ Orphans' \in {Orphans, Orphans \ {l.call}}
    BY <2>1, Zenon DEF Orphans
  <2>4. UNCHANGED <<Running, result>>
    BY <1>10, Zenon DEF Land, Running
  <2>5. /\ {} \in SUBSET Txt!Relieved
        /\ Running' = [t \in Tasks |->
              IF t \in {} THEN [Running[t] EXCEPT !.done = TRUE] ELSE Running[t]]
    BY <2>4, Zenon DEF Running
  <2> QED
    BY <2>2, <2>3, <2>4, <2>5, Zenon DEF Txt!Next, Txt!Straggle
<1>11. ASSUME OthersWrite PROVE Txt!Next
  <2>1. PICK v \in Foreign : rrset'.vals \in {rrset.vals \cup {v}, rrset.vals \ {v}}
    BY <1>11, SMTT(30) DEF OthersWrite, NoSet
  <2>2. UNCHANGED <<Running, result, Orphans>>
    BY <1>11, Zenon DEF OthersWrite, callVars, Running, Orphans
  <2> QED
    BY <2>1, <2>2, Zenon DEF Txt!Next, Txt!Outside
<1>12. ASSUME UNCHANGED vars PROVE UNCHANGED Txt!vars
  BY <1>12, Zenon DEF vars, callVars, serverVars, Txt!vars, Running, Orphans
<1> QED
  BY <1>1, <1>4, <1>5, <1>6, <1>7, <1>8, <1>9, <1>10, <1>11, <1>12, Zenon DEF Next

(* provider.rs:30-41, rfc2136.rs, hetzner.rs: both providers implement the
   DnsProvider contract, with updates that take effect after their caller left,
   answers that are not the server's, and other writers: each step on the zone
   adds or removes the value of one call, and Ok is returned only for a call
   that had its effect. *)
THEOREM UpdateRefinesTxtRecord == Spec => ImplementsTxtRecord
<1>1. Init => Txt!Init
  BY DEF Init, CallInit, Running, Orphans, NoSet, Txt!Init, Txt!Idle
<1>2. IInv /\ [Next]_vars => [Txt!Next]_(Txt!vars)
  BY NextRefines, Zenon
<1> QED
  BY Invariance, <1>1, <1>2, PTL DEF Spec, Txt!Spec, ImplementsTxtRecord
=============================================================================
