------------------------- MODULE RrsetProviderProofs -------------------------
(***************************************************************************)
(* The record-set providers lose no update, keep what other people have at *)
(* the name, and implement TxtRecord, for any number of callers, values    *)
(* and calls.                                                              *)
(*                                                                         *)
(* Six providers, one argument: PlanMerges says that every one of them     *)
(* plans the same merge of the set it read.  The set a call read is still  *)
(* the server's when it writes, because the call has the lock (UpdateInv); *)
(* Google's change names the set it read, so that it does not even depend  *)
(* on the lock (late requests and other writers included).                 *)
(***************************************************************************)
EXTENDS RrsetProvider, TLAPS

(* Only Gandi and Scaleway may have an entry that is not quoted. *)
Formed(recs) == provider \notin {"gandi", "scaleway"} => \A e \in recs : e.form = "quoted"

(* A request on its way. *)
IsRequest(r) ==
    /\ r.set \in Sets /\ Formed(r.set.recs)
    /\ provider = "google" => r.kind = "conditional" /\ r.base \in Sets

Locked == \A t \in Tasks : pc[t] \in {"fetch", "write", "poll"} => lock = t

DoneInv == \A t \in Tasks :
    /\ pc[t] \in {"idle", "resolve", "lock", "fetch"} => ~done[t]
    /\ pc[t] = "poll" => done[t]

RequestInv ==
    /\ \A t \in Tasks : pc[t] = "write" => IsRequest(request[t])
    /\ \A l \in late : l.call \in Calls /\ IsRequest(l.req)
    /\ late # {} => provider \in LateWrites
    /\ request = [t \in Tasks |-> request[t]]

Basic == TypeOK /\ Formed(rrset.recs) /\ Formed(outside) /\ Locked /\ DoneInv /\ RequestInv

-----------------------------------------------------------------------------
(* The merge. *)

ForeignOf(recs) == {e \in recs : e.val \in Foreign}

Merged(c, recs) == IF c.op = "present" THEN recs \cup {Quoted(c.val)} ELSE Without(recs, c.val)

OwnTtl == {"powerdns", "route53", "google"}

(* The values of a merged set are those of the set read, with the effect of
   the call; the values of other people are left alone. *)
LEMMA MergedFacts ==
    ASSUME NEW c \in Calls, NEW recs \in SUBSET Entries
    PROVE  /\ Merged(c, recs) \in SUBSET Entries
           /\ ValuesOf(Merged(c, recs)) = Txt!Effect(c, ValuesOf(recs))
           /\ ForeignOf(Merged(c, recs)) = ForeignOf(recs)
           /\ Formed(recs) => Formed(Merged(c, recs))
<1>1. c.val \in Values /\ c.val \notin Foreign /\ c.op \in Ops
  BY ForeignAssumption, Zenon DEF Calls
<1>2. Quoted(c.val) \in Entries /\ Quoted(c.val).val = c.val /\ Quoted(c.val).form = "quoted"
  BY <1>1, Zenon DEF Entries, Quoted
<1>3. Merged(c, recs) \in SUBSET Entries
  BY <1>2, Zenon DEF Merged, Without
<1>4. ValuesOf(recs \cup {Quoted(c.val)}) = ValuesOf(recs) \cup {c.val}
  BY <1>2, Zenon DEF ValuesOf
<1>5. ValuesOf(Without(recs, c.val)) = ValuesOf(recs) \ {c.val}
  BY Zenon DEF ValuesOf, Without
<1>6. ForeignOf(Merged(c, recs)) = ForeignOf(recs)
  BY <1>1, <1>2, Zenon DEF ForeignOf, Merged, Without
<1>7. Formed(recs) => Formed(Merged(c, recs))
  BY <1>2, Zenon DEF Formed, Merged, Without
<1> QED
  BY <1>3, <1>4, <1>5, <1>6, <1>7, Zenon DEF Merged, Txt!Effect

(* deSEC takes the quotes off and puts them on again: on a set that is quoted
   throughout, that is the merge of the others. *)
LEMMA DesecMerges ==
    ASSUME NEW c \in Calls, NEW s \in Sets, \A e \in s.recs : e.form = "quoted"
    PROVE  /\ {Quoted(v) : v \in DesecFetch(s) \cup {c.val}} = s.recs \cup {Quoted(c.val)}
           /\ {Quoted(v) : v \in DesecFetch(s) \ {c.val}} = Without(s.recs, c.val)
<1>1. ASSUME NEW e \in s.recs PROVE e = Quoted(e.val)
  BY Zenon DEF Sets, Entries, Quoted
<1>2. {Quoted(v) : v \in DesecFetch(s)} = s.recs
  BY <1>1, Zenon DEF DesecFetch, ValuesOf
<1>3. ASSUME NEW v PROVE Quoted(v).val = v
  BY Zenon DEF Quoted
<1> QED
  BY <1>1, <1>2, <1>3 DEF DesecFetch, ValuesOf, Without

(* The call c has nothing to do on a set with these values. *)
Settled(c, vals) == IF c.op = "present" THEN c.val \in vals ELSE c.val \notin vals

(* Every provider writes the merge of the set it read, with the TTL of that
   set if it is one that keeps it, unless there is nothing to do. *)
LEMMA PlanMerges ==
    ASSUME NEW c \in Calls, NEW s \in Sets, Formed(s.recs), provider \in Providers
    PROVE  LET r == Plan(c, s) IN
           IF Settled(c, ValuesOf(s.recs)) THEN r = NoRequest
           ELSE /\ r # NoRequest
                /\ r.set \in Sets
                /\ r.set.recs = Merged(c, s.recs)
                /\ provider \in OwnTtl /\ r.set.recs # {} => r.set.ttl = s.ttl
                /\ provider = "google" => r.kind = "conditional" /\ r.base = s
<1> DEFINE v == c.val
           p == c.op = "present"
<1>1. /\ c.op \in {"present", "cleanup"}
      /\ s.recs \in SUBSET Entries /\ s.ttl \in {"config", "other"}
      /\ s = [ttl |-> s.ttl, recs |-> s.recs]
  BY Zenon DEF Calls, Ops, Sets
<1>2. Merged(c, s.recs) \in SUBSET Entries
  BY <1>1, MergedFacts, Zenon
<1>3. Without(s.recs, v) = s.recs <=> v \notin ValuesOf(s.recs)
  BY Zenon DEF Without, ValuesOf
<1>4. p => Merged(c, s.recs) # {}
  BY Zenon DEF Merged
<1>5. /\ NoSet \in Sets /\ NoSet.recs = {}
      /\ \A recs \in SUBSET Entries, ttl \in {"config", "other"} :
            [ttl |-> ttl, recs |-> recs] \in Sets
  BY Zenon DEF NoSet, Sets
<1> USE DEF Settled, OwnTtl, NoRequest, Replace, Delete, Conditional
<1>6. CASE provider = "gandi"
  BY <1>1, <1>2, <1>3, <1>4, <1>5, <1>6, Zenon DEF Plan, Merged,
     GandiPresent, GandiCleanup, GandiPut, GandiDelete
<1>7. CASE provider = "scaleway"
  BY <1>1, <1>2, <1>3, <1>4, <1>5, <1>7, Zenon DEF Plan, Merged,
     ScalewayPresent, ScalewayCleanup, ApplySet, ApplyDelete
<1>8. CASE provider = "desec"
  <2>1. /\ {Quoted(x) : x \in DesecFetch(s) \cup {v}} = s.recs \cup {Quoted(v)}
        /\ {Quoted(x) : x \in DesecFetch(s) \ {v}} = Without(s.recs, v)
    BY <1>8, DesecMerges, Zenon DEF Formed
  <2>2. DesecFetch(s) = ValuesOf(s.recs)
    BY Zenon DEF DesecFetch
  <2>3. DesecFetch(s) \ {v} = {} <=> Without(s.recs, v) = {}
    BY <2>2, Zenon DEF ValuesOf, Without
  <2> QED
    BY <1>1, <1>2, <1>3, <1>4, <1>5, <1>8, <2>1, <2>2, <2>3, Zenon DEF Plan, Merged,
       DesecPresent, DesecCleanup, WriteValues
<1>9. CASE provider = "powerdns"
  BY <1>1, <1>2, <1>3, <1>4, <1>5, <1>9, Zenon DEF Plan, Merged,
     PowerDnsPresent, PowerDnsCleanup, PatchRrset
<1>10. CASE provider = "route53"
  BY <1>1, <1>2, <1>3, <1>4, <1>5, <1>10, Zenon DEF Plan, Merged,
     Route53Present, Route53Cleanup, Upsert
<1>11. CASE provider = "google"
  BY <1>1, <1>2, <1>3, <1>4, <1>5, <1>11, ZenonT(30) DEF Plan, Merged,
     GooglePresent, GoogleCleanup, ApplyChange
<1> QED
  BY <1>6, <1>7, <1>8, <1>9, <1>10, <1>11, ProvidersAssumption, Zenon

-----------------------------------------------------------------------------
(* What the steps have in common. *)

Apart(t) == \A u \in Tasks \ {t} :
    pc'[u] = pc[u] /\ call'[u] = call[u] /\ request'[u] = request[u] /\ done'[u] = done[u]

(* A call sends the write it planned. *)
SendStep(t) ==
    /\ pc[t] = "fetch" /\ pc'[t] = "write" /\ call'[t] = call[t] /\ ~done'[t]
    /\ request'[t] = Plan(call[t], rrset) /\ request'[t] # NoRequest
    /\ UNCHANGED <<lock, late, serverVars, intended>>

(* The write of a call is applied. *)
ApplyStep(t) ==
    /\ pc[t] = "write" /\ call'[t] = call[t] /\ request'[t] = request[t]
    /\ pc'[t] \in {"write", "poll"} => done'[t]
    /\ pc'[t] \in {"idle", "write", "poll"}
    /\ Apply(call[t], request[t])
    /\ UNCHANGED <<late, provider, outside>>

(* A call goes on, or ends, without a change to the set; its request may be
   left behind. *)
QuietStep(t) ==
    /\ request'[t] = request[t]
    /\ pc'[t] = "write" => pc[t] = "write" /\ call'[t] = call[t] /\ done'[t] = done[t]
    /\ \/ late' = late
       \/ /\ late' = late \cup {[call |-> call[t], req |-> request[t]]}
          /\ pc[t] = "write" /\ provider \in LateWrites
    /\ UNCHANGED <<serverVars, intended>>

LandStep ==
    /\ \/ Skip
       \/ \E l \in late : Apply(l.call, l.req)
    /\ late' \subseteq late
    /\ UNCHANGED <<pc, call, lock, done, provider, outside, request>>

LEMMA StepKinds ==
    ASSUME Basic, [Next]_vars
    PROVE  \/ \E t \in Tasks : Apart(t) /\ (SendStep(t) \/ ApplyStep(t) \/ QuietStep(t))
           \/ LandStep
           \/ OthersWrite
           \/ UNCHANGED vars
<1> USE DEF Basic, TypeOK, CallTypeOK, RequestInv, DoneInv
<1>1. ASSUME NEW t \in Tasks, Start(t) \/ ResolveFails(t) \/ FetchFails(t) \/ WriteRefused(t) \/ Poll(t)
      PROVE  Apart(t) /\ QuietStep(t)
  BY <1>1 DEF Apart, QuietStep, Start, Begin, Resolved, Acquire, ResolveFails, FetchFails,
     WriteRefused, Poll, Stop, Return, Finish, serverVars, writeVars
<1>2. ASSUME NEW t \in Tasks, Fetch(t) PROVE Apart(t) /\ (SendStep(t) \/ QuietStep(t))
  BY <1>2, ZenonT(30) DEF Apart, QuietStep, SendStep, Fetch, Goto, Stop, Return, Finish, serverVars, writeVars
<1>3. ASSUME NEW t \in Tasks, WriteAccepted(t) PROVE Apart(t) /\ ApplyStep(t)
  BY <1>3, Zenon DEF Apart, ApplyStep, WriteAccepted, Goto, Return, Finish, writeVars
<1>4. ASSUME NEW t \in Tasks, Throttled(t) \/ ThrottledByCode(t) PROVE Apart(t) /\ QuietStep(t)
  BY <1>4 DEF Apart, QuietStep, Throttled, ThrottledByCode, RetryOrReturn, Goto, Return, Finish,
     serverVars, writeVars, callVars
<1>5. ASSUME NEW t \in Tasks, Unavailable(t) PROVE Apart(t) /\ (ApplyStep(t) \/ QuietStep(t))
  <2>1. PICK applied \in BOOLEAN :
          /\ IF applied THEN Apply(call[t], request[t]) ELSE Skip
          /\ RetryOrReturn(t, IsIdempotent(request[t].method), applied)
    BY <1>5, Zenon DEF Unavailable
  <2>2. pc[t] = "write" /\ UNCHANGED <<provider, outside>>
    BY <1>5, Zenon DEF Unavailable
  <2>3. CASE applied
    BY <2>1, <2>2, <2>3, Zenon DEF Apart, ApplyStep, RetryOrReturn, Goto, Return, Finish, writeVars
  <2>4. CASE ~applied
    BY <2>1, <2>2, <2>4, ZenonT(90) DEF Apart, QuietStep, RetryOrReturn, Skip, Goto, Return, Finish,
       serverVars, writeVars
  <2> QED
    BY <2>3, <2>4, Zenon
<1>6. ASSUME NEW t \in Tasks, NEW res, Leave(t, res) PROVE Apart(t) /\ (ApplyStep(t) \/ QuietStep(t))
  <2>1. CASE Return(t, res) /\ Skip
    BY <1>6, <2>1, Zenon DEF Apart, QuietStep, Leave, Skip, Return, Finish, serverVars, writeVars
  <2>2. CASE Return(t, res) /\ Apply(call[t], request[t])
    BY <1>6, <2>2, Zenon DEF Apart, ApplyStep, Leave, Return, Finish, writeVars
  <2>3. CASE provider \in LateWrites /\ Abandon(t, res, request[t]) /\ Skip
    BY <1>6, <2>3, Zenon DEF Apart, QuietStep, Leave, Skip, Abandon, Finish, serverVars, writeVars
  <2> QED
    BY <1>6, <2>1, <2>2, <2>3, Zenon DEF Leave
<1>7. ASSUME NEW t \in Tasks, Cancel(t), ~Leave(t, "dropped") PROVE Apart(t) /\ QuietStep(t)
  BY <1>7, Zenon DEF Apart, QuietStep, Cancel, Stop, Return, Finish, serverVars, writeVars
<1>8. ASSUME Land PROVE LandStep
  BY <1>8, Zenon DEF Land, LandStep, writeVars
<1> QED
  BY <1>1, <1>2, <1>3, <1>4, <1>5, <1>6, <1>7, <1>8, Zenon DEF Next, TimedOut, Cancel

-----------------------------------------------------------------------------
(* Types, the lock, and which call had its effect. *)

States == {"idle", "resolve", "lock", "fetch", "write", "poll"}

CallInv ==
    /\ CallTypeOK(States) /\ Locked /\ DoneInv
    /\ attempt \in [Tasks -> 1..MaxAttempts]
    /\ round \in [Tasks -> 1..MaxAttempts]
    /\ request = [t \in Tasks |-> request[t]]

LEMMA CallInvStep == ASSUME Basic, [Next]_vars PROVE CallInv'
<1>0. CallInv
  BY Zenon DEF Basic, TypeOK, CallInv, States, RequestInv
<1> USE DEF CallInv, CallTypeOK, Locked, DoneInv, States
<1>1. ASSUME NEW t \in Tasks, Begin(t), UNCHANGED writeVars PROVE CallInv'
  <2>1. call' \in [Tasks -> Calls] /\ calls' \in 0..MaxCalls
    BY <1>0, <1>1, BoundsAssumption DEF Begin
  <2> QED
    BY <1>0, <1>1, <2>1, Zenon DEF Begin, writeVars
<1>2. ASSUME NEW t \in Tasks, Resolved(t) \/ Acquire(t), UNCHANGED writeVars PROVE CallInv'
  BY <1>0, <1>2, NoTaskAssumption, SMTT(30) DEF Resolved, Acquire, writeVars
<1>3. ASSUME NEW t \in Tasks, NEW res \in {"ok", "err", "dropped"}, Finish(t, res), UNCHANGED writeVars
      PROVE  CallInv'
  BY <1>0, <1>3, NoTaskAssumption, Zenon DEF Finish, writeVars
<1>4. ASSUME NEW t \in Tasks, Fetch(t), ~Stop(t, "ok") PROVE CallInv'
  BY <1>0, <1>4 DEF Fetch, Goto, MaxAttempts
<1>5. ASSUME NEW t \in Tasks, WriteAccepted(t), ~Return(t, "ok") PROVE CallInv'
  BY <1>0, <1>5, ZenonT(30) DEF WriteAccepted, Goto, writeVars
<1>6. ASSUME NEW t \in Tasks, NEW p, NEW a \in BOOLEAN, pc[t] = "write", RetryOrReturn(t, p, a)
      PROVE  CallInv'
  <2>1. CASE Return(t, "err") /\ UNCHANGED writeVars
    BY <1>3, <2>1, Zenon DEF Return
  <2>2. CASE ~(Return(t, "err") /\ UNCHANGED writeVars)
    BY <1>0, <1>6, <2>2 DEF RetryOrReturn, Goto, MaxAttempts
  <2> QED
    BY <2>1, <2>2, Zenon
<1>7. ASSUME NEW t \in Tasks, ThrottledByCode(t) PROVE CallInv'
  BY <1>0, <1>7 DEF ThrottledByCode, callVars, MaxAttempts
<1>8. ASSUME UNCHANGED <<pc, call, lock, calls, result, done, writeVars>> PROVE CallInv'
  BY <1>0, <1>8, Zenon DEF writeVars
<1> HIDE DEF CallInv, CallTypeOK, Locked, DoneInv, States
<1>9. ASSUME NEW t \in Tasks, Start(t) \/ ResolveFails(t) \/ Fetch(t) \/ FetchFails(t) \/ WriteAccepted(t)
      PROVE  CallInv'
  BY <1>1, <1>2, <1>3, <1>4, <1>5, <1>9, Zenon
     DEF Start, ResolveFails, Fetch, FetchFails, WriteAccepted, Stop, Return
<1>10. ASSUME NEW t \in Tasks, WriteRefused(t) \/ Throttled(t) \/ ThrottledByCode(t) \/ Unavailable(t)
       PROVE  CallInv'
  <2>1. CASE WriteRefused(t) \/ ThrottledByCode(t)
    BY <1>3, <1>7, <2>1, Zenon DEF WriteRefused, Stop, Return
  <2>2. CASE Throttled(t)
    BY <1>6, <2>2, Zenon DEF Throttled
  <2>3. CASE Unavailable(t)
    BY <1>6, <2>3, Zenon DEF Unavailable
  <2> QED
    BY <1>10, <2>1, <2>2, <2>3, Zenon
<1>11. ASSUME NEW t \in Tasks, TimedOut(t) \/ Poll(t) \/ Cancel(t) PROVE CallInv'
  BY <1>3, <1>11, Zenon DEF TimedOut, Leave, Abandon, Poll, Cancel, Stop, Return
<1>12. ASSUME Land \/ OthersWrite \/ UNCHANGED vars PROVE CallInv'
  BY <1>8, <1>12, Zenon DEF Land, OthersWrite, vars, callVars, writeVars
<1> QED
  BY <1>9, <1>10, <1>11, <1>12, Zenon DEF Next

LEMMA BasicInit == Init => Basic
<1> SUFFICES ASSUME Init PROVE Basic
  BY Zenon
<1>0. (CHOOSE c \in Calls : TRUE) \in Calls
  <2>1. PICK v : v \in Values
    BY ValuesAssumption, Zenon
  <2>2. [op |-> "present", val |-> v] \in Calls
    BY <2>1, Zenon DEF Calls, Ops
  <2> QED
    BY <2>2, Zenon
<1>1. CallInv
  <2>1. call \in [Tasks -> Calls]
    BY <1>0, ZenonT(30) DEF Init, CallInit
  <2> QED
    BY <2>1, BoundsAssumption
       DEF Init, CallInit, CallInv, CallTypeOK, Locked, DoneInv, States, MaxAttempts
<1>2. provider \in Providers /\ intended = {} /\ RequestInv
  BY ZenonT(30) DEF Init, CallInit, RequestInv
<1>3. outside \subseteq Entries /\ Formed(outside)
  BY SMTT(30) DEF Init, Entries, Formed
<1>4. rrset \in Sets /\ Formed(rrset.recs)
  BY <1>3, ZenonT(30) DEF Init, NoSet, Sets, Formed
<1> QED
  BY <1>1, <1>2, <1>3, <1>4, Zenon DEF Basic, TypeOK, CallInv, States

LEMMA BasicStep == ASSUME Basic, [Next]_vars PROVE Basic'
<1>1. CallInv'
  BY CallInvStep, Zenon
<1>2. /\ provider \in Providers /\ rrset \in Sets /\ Formed(rrset.recs)
      /\ outside \subseteq Entries /\ Formed(outside) /\ intended \subseteq Values
      /\ call \in [Tasks -> Calls]
      /\ \A t \in Tasks : pc[t] = "write" => IsRequest(request[t])
      /\ \A l \in late : l.call \in Calls /\ IsRequest(l.req)
      /\ late # {} => provider \in LateWrites
  BY Zenon DEF Basic, TypeOK, CallTypeOK, RequestInv
<1> DEFINE Rest == /\ provider \in Providers /\ rrset \in Sets /\ Formed(rrset.recs)
                   /\ outside \subseteq Entries /\ Formed(outside) /\ intended \subseteq Values
                   /\ \A t \in Tasks : pc[t] = "write" => IsRequest(request[t])
                   /\ \A l \in late : l.call \in Calls /\ IsRequest(l.req)
                   /\ late # {} => provider \in LateWrites
<1>3. ASSUME NEW t \in Tasks, Apart(t), SendStep(t) PROVE Rest'
  <2>1. IsRequest(Plan(call[t], rrset))
    <3>1. /\ call[t] \in Calls
          /\ rrset.recs \in SUBSET Entries
      BY <1>2, Zenon DEF Sets
    <3>2. Formed(Merged(call[t], rrset.recs))
      BY <1>2, <3>1, MergedFacts, Zenon
    <3>3. ~Settled(call[t], ValuesOf(rrset.recs))
      BY <1>2, <1>3, <3>1, PlanMerges, Zenon DEF SendStep
    <3> QED
      BY <1>2, <3>1, <3>2, <3>3, PlanMerges, Zenon DEF IsRequest
  <2> QED
    BY <1>2, <1>3, <2>1, ZenonT(30) DEF Apart, SendStep, IsRequest, serverVars, Formed
<1>4. ASSUME NEW c \in Calls, NEW r, IsRequest(r), Apply(c, r)
      PROVE  /\ rrset' \in Sets /\ intended' \subseteq Values
             /\ UNCHANGED provider => Formed(rrset.recs)'
  BY <1>2, <1>4, ZenonT(30) DEF Apply, IsRequest, Calls, Formed
<1>5. ASSUME NEW t \in Tasks, Apart(t), ApplyStep(t) PROVE Rest'
  <2>1. call[t] \in Calls /\ IsRequest(request[t])
    BY <1>2, <1>5, Zenon DEF ApplyStep
  <2> QED
    BY <1>2, <1>4, <1>5, <2>1 DEF Apart, ApplyStep, IsRequest, Formed
<1>6. ASSUME NEW t \in Tasks, Apart(t), QuietStep(t) PROVE Rest'
  BY <1>2, <1>6, SMTT(30) DEF Apart, QuietStep, IsRequest, Formed, serverVars
<1>7. ASSUME LandStep PROVE Rest'
  BY <1>2, <1>4, <1>7, Zenon DEF LandStep, Skip, IsRequest, Formed
<1>8. ASSUME OthersWrite PROVE Rest'
  <2>1. PICK v \in Foreign :
          /\ outside' = IF Quoted(v) \in outside THEN outside \ {Quoted(v)}
                                                ELSE outside \cup {Quoted(v)}
          /\ LET recs == (rrset.recs \ outside) \cup outside' IN
             rrset' = IF recs = {} THEN NoSet ELSE [rrset EXCEPT !.recs = recs]
    BY <1>8, Zenon DEF OthersWrite
  <2>2. Quoted(v) \in Entries /\ Quoted(v).form = "quoted"
    BY Zenon DEF Quoted, Entries
  <2>3. outside' \subseteq Entries /\ Formed(outside)'
    BY <1>2, <1>8, <2>1, <2>2, Zenon DEF Formed, OthersWrite
  <2>4. rrset' \in Sets /\ Formed(rrset.recs)'
    BY <1>2, <1>8, <2>1, <2>3, Zenon DEF Formed, OthersWrite, Sets, NoSet
  <2> QED
    BY <1>2, <1>8, <2>3, <2>4, Zenon DEF OthersWrite, callVars, writeVars, IsRequest, Formed
<1>9. ASSUME UNCHANGED vars PROVE Rest'
  BY <1>2, <1>9, Zenon DEF vars, callVars, IsRequest, Formed
<1>10. Rest'
  BY <1>3, <1>5, <1>6, <1>7, <1>8, <1>9, StepKinds, Zenon
<1> QED
  BY <1>1, <1>10, Zenon DEF CallInv, Basic, TypeOK, RequestInv, States

(* Types, the lock and the shape of the requests, in every reachable state. *)
LEMMA BasicInvariance == Spec => []Basic
<1>1. Basic /\ [Next]_vars => Basic'
  BY BasicStep, Zenon
<1> QED
  BY BasicInit, <1>1, PTL DEF Spec

-----------------------------------------------------------------------------
(* The merge is fresh. *)

LEMMA FreshStep == ASSUME Basic, MergeIsFresh, [Next]_vars PROVE MergeIsFresh'
<1> USE DEF MergeIsFresh
<1>1. ASSUME NEW t \in Tasks, Apart(t), SendStep(t) PROVE MergeIsFresh'
  <2>1. /\ call'[t] = call[t] /\ rrset' = rrset /\ provider' = provider
        /\ request'[t] = Plan(call[t], rrset)
    BY <1>1, Zenon DEF SendStep, serverVars
  <2>2. \A u \in Tasks : /\ call'[u] = call[u]
                         /\ u # t => pc'[u] = pc[u] /\ request'[u] = request[u] /\ done'[u] = done[u]
    BY <1>1, <2>1, Zenon DEF Apart
  <2>3. \A u \in Tasks : Plan(call[u], rrset)' = Plan(call[u], rrset)
    BY <2>1, <2>2, Zenon DEF Plan
  <2> QED
    BY <2>1, <2>2, <2>3, ZenonT(30)
<1>2. ASSUME NEW t \in Tasks, Apart(t), ApplyStep(t) PROVE MergeIsFresh'
  BY <1>2, SMTT(30) DEF Apart, ApplyStep, Apply, Plan, Basic, Locked
<1>3. ASSUME NEW t \in Tasks, Apart(t), QuietStep(t) PROVE MergeIsFresh'
  <2> SUFFICES ASSUME NEW u \in Tasks, pc'[u] = "write", provider' \notin LateWrites \cup OtherWriters
               PROVE  request'[u] = Plan(call[u], rrset)' \/ (done'[u] /\ rrset' = request'[u].set)
    BY Zenon
  <2>1. /\ pc[u] = "write" /\ call'[u] = call[u] /\ request'[u] = request[u] /\ done'[u] = done[u]
        /\ provider' = provider /\ rrset' = rrset
    BY <1>3, Zenon DEF Apart, QuietStep, serverVars
  <2>2. Plan(call[u], rrset)' = Plan(call[u], rrset)
    BY <2>1, Zenon DEF Plan
  <2> QED
    BY <2>1, <2>2, Zenon
<1>4. ASSUME LandStep PROVE MergeIsFresh'
  BY <1>4, Zenon DEF LandStep, Skip, Plan, Basic, RequestInv
<1>5. ASSUME OthersWrite PROVE MergeIsFresh'
  BY <1>5, Zenon DEF OthersWrite
<1>6. ASSUME UNCHANGED vars PROVE MergeIsFresh'
  BY <1>6, ZenonT(30) DEF vars, callVars, Plan
<1> QED
  BY <1>1, <1>2, <1>3, <1>4, <1>5, <1>6, StepKinds, Zenon

(* The lock held from fetch_existing to the end of the call leaves no room for
   a stale merge, whatever the other callers do, as long as nothing arrives
   late and nobody else writes. *)
THEOREM RrsetMergeIsFresh == Spec => []MergeIsFresh
<1>1. Init => MergeIsFresh
  BY Zenon DEF Init, CallInit, MergeIsFresh
<1>2. Basic /\ MergeIsFresh /\ [Next]_vars => MergeIsFresh'
  BY FreshStep, ZenonT(30)
<1> QED
  BY BasicInvariance, <1>1, <1>2, PTL DEF Spec

-----------------------------------------------------------------------------
(* What other people keep at the name. *)

(* Nobody else writes, or the provider finds out. *)
Undisturbed == provider = "google" \/ provider \notin OtherWriters

(* With provider p, the set s has the entries o of other people, and their TTL. *)
Has(p, s, o) ==
    /\ ForeignOf(s.recs) = o
    /\ p \in OwnTtl /\ o # {} /\ p \notin OtherWriters => s.ttl = "other"

(* Applied, the request leaves the server with the entries o they have there:
   Google's is only applied to the set it was merged from. *)
KeepsOthers(p, r, o) ==
    IF p = "google" THEN \A x \in SUBSET Entries : Has(p, r.base, x) => Has(p, r.set, x)
    ELSE Has(p, r.set, o)

OthersInv ==
    /\ Has(provider, rrset, outside)
    /\ \A t \in Tasks : pc[t] = "write" => KeepsOthers(provider, request[t], outside)
    /\ \A l \in late : KeepsOthers(provider, l.req, outside)

LEMMA OthersStep ==
    ASSUME Basic, Undisturbed, OthersInv, [Next]_vars PROVE Undisturbed' /\ OthersInv'
<1>0. /\ provider \in Providers /\ rrset \in Sets /\ Formed(rrset.recs)
      /\ rrset.recs \in SUBSET Entries /\ outside \in SUBSET Entries
      /\ call \in [Tasks -> Calls]
      /\ \A t \in Tasks : pc[t] = "write" => IsRequest(request[t])
      /\ \A l \in late : l.call \in Calls /\ IsRequest(l.req)
  BY Zenon DEF Basic, TypeOK, CallTypeOK, RequestInv, Sets
<1> USE DEF Undisturbed, OthersInv
<1>1. ASSUME NEW r, IsRequest(r), KeepsOthers(provider, r, outside), Accepts(r, rrset) PROVE Has(provider, r.set, outside)
  BY <1>0, <1>1, Zenon DEF KeepsOthers, IsRequest, Accepts
<1>2. ASSUME NEW t \in Tasks, Apart(t), SendStep(t) PROVE Undisturbed' /\ OthersInv'
  <2> DEFINE r == Plan(call[t], rrset)
  <2>1. /\ call[t] \in Calls
        /\ r.set.recs = Merged(call[t], rrset.recs)
        /\ provider \in OwnTtl /\ r.set.recs # {} => r.set.ttl = rrset.ttl
        /\ provider = "google" => r.base = rrset
    BY <1>0, <1>2, PlanMerges, SMTT(30) DEF SendStep
  <2>2. ForeignOf(r.set.recs) = ForeignOf(rrset.recs)
    BY <1>0, <2>1, MergedFacts, Zenon
  <2>3. ASSUME NEW o, Has(provider, rrset, o) PROVE Has(provider, r.set, o)
    BY <2>1, <2>2, <2>3, Zenon DEF Has, ForeignOf
  <2>4. KeepsOthers(provider, r, outside)
    BY <2>1, <2>3, Zenon DEF KeepsOthers
  <2> HIDE DEF r
  <2>5. request'[t] = r
    BY <1>2, Zenon DEF SendStep, r
  <2> QED
    BY <1>2, <2>4, <2>5, ZenonT(30) DEF Apart, SendStep, serverVars
<1>3. ASSUME NEW t \in Tasks, Apart(t), ApplyStep(t) PROVE Undisturbed' /\ OthersInv'
  BY <1>0, <1>1, <1>3, Zenon DEF Apart, ApplyStep, Apply
<1>4. ASSUME NEW t \in Tasks, Apart(t), QuietStep(t) PROVE Undisturbed' /\ OthersInv'
  BY <1>4, SMTT(30) DEF Apart, QuietStep, serverVars
<1>5. ASSUME LandStep PROVE Undisturbed' /\ OthersInv'
  BY <1>0, <1>1, <1>5, Zenon DEF LandStep, Skip, Apply
<1>6. ASSUME OthersWrite PROVE Undisturbed' /\ OthersInv'
  <2>1. PICK v \in Foreign :
          /\ outside' = IF Quoted(v) \in outside THEN outside \ {Quoted(v)}
                                                ELSE outside \cup {Quoted(v)}
          /\ LET recs == (rrset.recs \ outside) \cup outside' IN
             rrset' = IF recs = {} THEN NoSet ELSE [rrset EXCEPT !.recs = recs]
    BY <1>6, Zenon DEF OthersWrite
  <2>2. provider = "google" /\ provider' = provider /\ provider \in OtherWriters
    BY <1>6, Zenon DEF OthersWrite
  <2>3. rrset'.recs = (rrset.recs \ outside) \cup outside'
    BY <1>0, <2>1, Zenon DEF NoSet, Sets
  <2>4. ForeignOf(rrset'.recs) = outside'
    <3>1. ForeignOf(rrset.recs) = outside
      BY Zenon DEF Has
    <3>2. Quoted(v).val = v
      BY Zenon DEF Quoted
    <3> QED
      BY <2>1, <2>3, <3>1, <3>2, Zenon DEF ForeignOf
  <2> QED
    BY <1>6, <2>2, <2>4, Zenon DEF OthersWrite, callVars, writeVars, KeepsOthers, Has
<1>7. ASSUME UNCHANGED vars PROVE Undisturbed' /\ OthersInv'
  BY <1>7, Zenon DEF vars, callVars
<1> QED
  BY <1>2, <1>3, <1>4, <1>5, <1>6, <1>7, StepKinds, Zenon

LEMMA OthersInvariance == Spec /\ Undisturbed => []OthersInv
<1>1. Init => OthersInv
  <2> SUFFICES ASSUME Init PROVE OthersInv
    OBVIOUS
  <2>1. ForeignOf(outside) = outside
    BY DEF Init, ForeignOf
  <2>2. ForeignOf({}) = {}
    BY Zenon DEF ForeignOf
  <2> QED
    BY <2>1, <2>2, Zenon DEF Init, CallInit, OthersInv, Has, NoSet
<1>2. Basic /\ Undisturbed /\ OthersInv /\ [Next]_vars => Undisturbed' /\ OthersInv'
  BY OthersStep, Zenon
<1> QED
  BY BasicInvariance, <1>1, <1>2, PTL DEF Spec

(* gandi.rs:239, scaleway.rs:302, powerdns.rs:359, route53.rs:799: what other
   people keep at the name is written back exactly as it is, even by a request
   that arrives after its caller left, unless they change it between the read
   and the write of a call; with Google, even then. *)
THEOREM RrsetForeignKept == Spec /\ Undisturbed => []ForeignKept
<1>1. OthersInv => ForeignKept
  BY Zenon DEF OthersInv, Has, ForeignOf, ForeignKept
<1> QED
  BY OthersInvariance, <1>1, PTL

(* route53.rs:29, google_cloud_dns.rs:36, powerdns.rs:361: a set that other
   people have values in keeps its own TTL, late requests included. *)
THEOREM RrsetTtlKept == Spec => []TtlKept
<1>1. OthersInv => TtlKept
  BY Zenon DEF OthersInv, Has, OwnTtl, TtlKept
<1>2. provider \in OtherWriters => TtlKept
  BY Zenon DEF TtlKept
<1>3. Basic /\ provider \in OtherWriters /\ [Next]_vars => (provider \in OtherWriters)'
  BY StepKinds, Zenon DEF SendStep, ApplyStep, QuietStep, LandStep, OthersWrite, serverVars, vars
<1>4. provider \in OtherWriters \/ Undisturbed
  BY Zenon DEF Undisturbed
<1> QED
  BY BasicInvariance, OthersInvariance, <1>1, <1>2, <1>3, <1>4, PTL DEF Spec

-----------------------------------------------------------------------------
(* No update is lost. *)

(* Nothing comes between the read and the write of a call, or the provider
   finds out. *)
Shielded == provider = "google" \/ provider \notin LateWrites \cup OtherWriters

(* The set in request r has the values of s with the effect of call c. *)
MergesFrom(c, r, s) == ValuesOf(r.set.recs) = Txt!Effect(c, ValuesOf(s.recs))

Merges(p, c, r, s) == MergesFrom(c, r, IF p = "google" THEN r.base ELSE s)

UpdateInv ==
    /\ NoLostUpdate
    /\ \A t \in Tasks : pc[t] = "write" => Merges(provider, call[t], request[t], rrset)
    /\ \A l \in late : Merges(provider, l.call, l.req, rrset)

(* A request that is applied has the effect of its call, no more and no less,
   and a request that was applied may be applied again. *)
LEMMA AppliedFacts ==
    ASSUME Basic, Shielded, NoLostUpdate, NEW c \in Calls, NEW r, IsRequest(r),
           Merges(provider, c, r, rrset), Apply(c, r)
    PROVE  /\ ValuesOf(rrset'.recs) = Txt!Effect(c, ValuesOf(rrset.recs))
           /\ NoLostUpdate'
           /\ provider # "google" => Merges(provider, c, r, rrset')
<1>1. r.set = rrset' /\ MergesFrom(c, r, rrset)
  BY Zenon DEF Apply, Merges, Accepts, IsRequest
<1>2. ValuesOf(rrset'.recs) = Txt!Effect(c, ValuesOf(rrset.recs))
  BY <1>1, Zenon DEF MergesFrom
<1>3. c.val \in Values /\ intended' = Txt!Effect(c, intended)
  BY Zenon DEF Apply, Calls, Txt!Effect
<1>4. NoLostUpdate'
  BY <1>2, <1>3, Zenon DEF NoLostUpdate, Txt!Effect
<1>5. Txt!Effect(c, Txt!Effect(c, ValuesOf(rrset.recs))) = Txt!Effect(c, ValuesOf(rrset.recs))
  BY Zenon DEF Txt!Effect
<1> QED
  BY <1>1, <1>2, <1>4, <1>5, Zenon DEF Merges, MergesFrom

LEMMA UpdateStep ==
    ASSUME Basic, Shielded, OthersInv, UpdateInv, [Next]_vars PROVE Shielded' /\ UpdateInv'
<1>0. /\ provider \in Providers /\ rrset \in Sets /\ Formed(rrset.recs)
      /\ rrset.recs \in SUBSET Entries /\ outside \in SUBSET Entries
      /\ call \in [Tasks -> Calls]
      /\ \A t \in Tasks : pc[t] = "write" => lock = t /\ IsRequest(request[t])
      /\ \A l \in late : l.call \in Calls /\ IsRequest(l.req)
      /\ late # {} => provider = "google"
  BY Zenon DEF Basic, TypeOK, CallTypeOK, RequestInv, Sets, Locked, Shielded
<1> USE DEF UpdateInv
<1>1. ASSUME NEW t \in Tasks, Apart(t), SendStep(t) PROVE Shielded' /\ UpdateInv'
  <2> DEFINE r == Plan(call[t], rrset)
  <2>1. /\ call[t] \in Calls
        /\ r.set.recs = Merged(call[t], rrset.recs)
        /\ provider = "google" => r.base = rrset
    BY <1>0, <1>1, PlanMerges, ZenonT(30) DEF SendStep
  <2>2. Merges(provider, call[t], r, rrset)
    BY <1>0, <2>1, MergedFacts, ZenonT(30) DEF Merges, MergesFrom
  <2> HIDE DEF r
  <2>3. request'[t] = r
    BY <1>1, Zenon DEF SendStep, r
  <2> QED
    BY <1>1, <2>2, <2>3, Zenon DEF Apart, SendStep, serverVars, NoLostUpdate, Shielded
<1>2. ASSUME NEW t \in Tasks, Apart(t), ApplyStep(t) PROVE Shielded' /\ UpdateInv'
  <2>1. NoLostUpdate' /\ (provider # "google" => Merges(provider, call[t], request[t], rrset'))
    BY <1>0, <1>2, AppliedFacts, Zenon DEF ApplyStep
  <2>2. CASE provider = "google"
    BY <1>2, <2>1, <2>2, Zenon DEF Apart, ApplyStep, Shielded, Merges
  <2>3. CASE provider # "google"
    BY <1>0, <1>2, <2>1, <2>3 DEF Apart, ApplyStep, Shielded
  <2> QED
    BY <2>2, <2>3, Zenon
<1>3. ASSUME NEW t \in Tasks, Apart(t), QuietStep(t) PROVE Shielded' /\ UpdateInv'
  BY <1>3 DEF Apart, QuietStep, serverVars, NoLostUpdate, Shielded
<1>4. ASSUME LandStep PROVE Shielded' /\ UpdateInv'
  <2>1. CASE Skip
    BY <1>4, <2>1, Zenon DEF LandStep, Skip, NoLostUpdate, Shielded
  <2>2. CASE \E l \in late : Apply(l.call, l.req)
    <3>1. provider = "google" /\ NoLostUpdate'
      BY <1>0, <2>2, AppliedFacts, Zenon
    <3> QED
      BY <1>4, <3>1, Zenon DEF LandStep, Merges, Shielded
  <2> QED
    BY <1>4, <2>1, <2>2, Zenon DEF LandStep
<1>5. ASSUME OthersWrite PROVE Shielded' /\ UpdateInv'
  <2>1. PICK v \in Foreign :
          /\ outside' = IF Quoted(v) \in outside THEN outside \ {Quoted(v)}
                                                ELSE outside \cup {Quoted(v)}
          /\ LET recs == (rrset.recs \ outside) \cup outside' IN
             rrset' = IF recs = {} THEN NoSet ELSE [rrset EXCEPT !.recs = recs]
    BY <1>5, Zenon DEF OthersWrite
  <2>2. provider = "google" /\ provider' = provider /\ intended' = intended
    BY <1>5, Zenon DEF OthersWrite, Shielded
  <2>3. rrset'.recs = (rrset.recs \ outside) \cup outside'
    BY <1>0, <2>1, Zenon DEF NoSet, Sets
  <2>4. ValuesOf(rrset'.recs) \cap Values = ValuesOf(rrset.recs) \cap Values
    <3>1. \A e \in outside : e.val \in Foreign
      BY Zenon DEF OthersInv, Has, ForeignOf
    <3>2. \A e \in outside' : e.val \in Foreign
      BY <2>1, <3>1 DEF Quoted
    <3> QED
      BY <2>3, <3>1, <3>2, ForeignAssumption, Zenon DEF ValuesOf
  <2> QED
    BY <1>5, <2>2, <2>4, Zenon DEF OthersWrite, callVars, writeVars, Merges, NoLostUpdate, Shielded
<1>6. ASSUME UNCHANGED vars PROVE Shielded' /\ UpdateInv'
  BY <1>6, Zenon DEF vars, callVars, NoLostUpdate, Shielded
<1> QED
  BY <1>1, <1>2, <1>3, <1>4, <1>5, <1>6, StepKinds, Zenon

LEMMA UpdateInvariance == Spec /\ Shielded => []UpdateInv /\ []OthersInv /\ []Shielded
<1>1. Init => UpdateInv
  <2> SUFFICES ASSUME Init PROVE UpdateInv
    OBVIOUS
  <2>1. NoLostUpdate
    BY ForeignAssumption DEF Init, NoLostUpdate, ValuesOf, NoSet
  <2> QED
    BY <2>1, Zenon DEF Init, CallInit, UpdateInv
<1>2. Basic /\ Shielded /\ OthersInv /\ UpdateInv /\ [Next]_vars => Shielded' /\ UpdateInv'
  BY UpdateStep, Zenon
<1>3. Shielded => Undisturbed
  BY Zenon DEF Shielded, Undisturbed
<1> QED
  BY BasicInvariance, OthersInvariance, <1>1, <1>2, <1>3, PTL DEF Spec

(* README.md:14: parallel issuances on the same record cannot clobber each
   other.  Of the ACME values, the zone has the ones that the calls which took
   effect add up to, as long as nothing arrives late and nobody else writes;
   with Google, even then. *)
THEOREM RrsetLosesNoUpdate == Spec /\ Shielded => []NoLostUpdate
<1>1. UpdateInv => NoLostUpdate
  BY Zenon DEF UpdateInv
<1> QED
  BY UpdateInvariance, <1>1, PTL

-----------------------------------------------------------------------------
(* The providers implement TxtRecord. *)

(* A call in progress, as TxtRecord has it. *)
LEMMA RunningFacts ==
    ASSUME Basic, NEW t \in Tasks, pc[t] # "idle"
    PROVE  /\ Running[t] = [op |-> call[t].op, val |-> call[t].val, done |-> done[t]]
           /\ Running[t] # Txt!Idle /\ Running[t].done = done[t]
           /\ call[t] \in Calls /\ call[t] \in Txt!Pending(Running[t])
           /\ \A s : Txt!Effect(Running[t], s) = Txt!Effect(call[t], s)
<1>1. /\ call[t] \in Calls /\ call[t].op \in {"present", "cleanup"}
      /\ call[t] = [op |-> call[t].op, val |-> call[t].val]
  BY Zenon DEF Basic, TypeOK, CallTypeOK, Calls, Ops
<1>2. Running[t] = [op |-> call[t].op, val |-> call[t].val, done |-> done[t]]
  BY Zenon DEF Running
<1>3. Running[t].op = call[t].op /\ Running[t].val = call[t].val /\ Running[t].done = done[t]
  BY <1>2
<1>4. Running[t] # Txt!Idle
  BY <1>1, <1>3 DEF Txt!Idle
<1>5. call[t] \in Txt!Pending(Running[t])
  BY <1>1, <1>3, Zenon DEF Txt!Pending
<1> QED
  BY <1>1, <1>2, <1>3, <1>4, <1>5, Zenon DEF Txt!Effect

(* A call that ends, having its effect now or not, is a Return. *)
LEMMA ReturnRefines ==
    ASSUME Basic, NEW t \in Tasks, pc[t] # "idle", NEW res \in {"ok", "err", "dropped"},
           Finish(t, res),
           \/ UNCHANGED rrset
           \/ ValuesOf(rrset'.recs) = Txt!Effect(call[t], ValuesOf(rrset.recs)),
           \/ res # "ok" \/ done[t]
           \/ ValuesOf(rrset'.recs) = Txt!Effect(call[t], ValuesOf(rrset.recs)),
           \/ UNCHANGED late
           \/ res # "ok" /\ \E r : late' = late \cup {[call |-> call[t], req |-> r]}
    PROVE  Txt!Return(t)
<1>1. /\ Running[t] # Txt!Idle /\ Running[t].done = done[t]
      /\ call[t] \in Txt!Pending(Running[t])
      /\ Txt!Effect(Running[t], ValuesOf(rrset.recs)) = Txt!Effect(call[t], ValuesOf(rrset.recs))
  BY RunningFacts, Zenon
<1>2. Running' = [Running EXCEPT ![t] = Txt!Idle]
  BY Zenon DEF Finish, Running, Txt!Idle, Basic, TypeOK, CallTypeOK
<1>3. result' = [result EXCEPT ![t] = res]
  BY Zenon DEF Finish
<1>4. UNCHANGED Orphans \/ (res # "ok" /\ Orphans' = Orphans \cup {call[t]})
  BY DEF Orphans
<1> QED
  BY <1>1, <1>2, <1>3, <1>4, Zenon DEF Txt!Return

(* A write that is applied while its call goes on is an Apply. *)
LEMMA ApplyRefines ==
    ASSUME Basic, NEW t \in Tasks, pc[t] = "write", NEW state \in {"write", "poll"},
           Goto(t, state), done' = [done EXCEPT ![t] = TRUE],
           ValuesOf(rrset'.recs) = Txt!Effect(call[t], ValuesOf(rrset.recs))
    PROVE  Txt!Apply(t)
<1>1. /\ Running[t] # Txt!Idle
      /\ Running[t] = [op |-> call[t].op, val |-> call[t].val, done |-> done[t]]
      /\ Txt!Effect(Running[t], ValuesOf(rrset.recs)) = Txt!Effect(call[t], ValuesOf(rrset.recs))
  BY RunningFacts, Zenon
<1>2. Running' = [Running EXCEPT ![t].done = TRUE]
  <2>1. Running'[t] = [op |-> call[t].op, val |-> call[t].val, done |-> TRUE]
    BY Zenon DEF Goto, Running, Basic, TypeOK, CallTypeOK
  <2>2. [Running[t] EXCEPT !.done = TRUE] = [op |-> call[t].op, val |-> call[t].val, done |-> TRUE]
    <3>1. ASSUME NEW a, NEW b, NEW d, NEW e
          PROVE  [[op |-> a, val |-> b, done |-> d] EXCEPT !.done = e]
                   = [op |-> a, val |-> b, done |-> e]
      OBVIOUS
    <3>2. \A e : [Running[t] EXCEPT !.done = e] = [op |-> call[t].op, val |-> call[t].val, done |-> e]
      BY <1>1, <3>1
    <3> QED
      BY <3>2, Zenon
  <2>3. ASSUME NEW u \in Tasks, u # t PROVE Running'[u] = Running[u]
    BY <2>3, ZenonT(30) DEF Goto, Running, Basic, TypeOK, CallTypeOK
  <2>4. Running' = [u \in Tasks |-> Running'[u]] /\ Running = [u \in Tasks |-> Running[u]]
    BY Zenon DEF Running
  <2> QED
    BY <2>1, <2>2, <2>3, <2>4, Zenon
<1>3. UNCHANGED <<result, Orphans>>
  BY Zenon DEF Goto, Orphans
<1> QED
  BY <1>1, <1>2, <1>3, Zenon DEF Txt!Apply

(* A call that goes on without a write is a stutter. *)
LEMMA GotoRefines ==
    ASSUME Basic, NEW t \in Tasks, pc[t] # "idle", NEW state, state # "idle",
           pc' = [pc EXCEPT ![t] = state], UNCHANGED <<call, done, result, late, rrset>>
    PROVE  UNCHANGED Txt!vars
<1>1. UNCHANGED Running
  BY Zenon DEF Running, Basic, TypeOK, CallTypeOK
<1> QED
  BY <1>1, Zenon DEF Txt!vars, Orphans

RefineInv == Basic /\ Shielded /\ OthersInv /\ UpdateInv

(* What a call, or a call given up, writes has its effect on the values. *)
LEMMA EffectOfApply ==
    ASSUME RefineInv
    PROVE  /\ \A t \in Tasks : pc[t] = "write" /\ Apply(call[t], request[t]) =>
                 ValuesOf(rrset'.recs) = Txt!Effect(call[t], ValuesOf(rrset.recs))
           /\ \A l \in late : Apply(l.call, l.req) =>
                 ValuesOf(rrset'.recs) = Txt!Effect(l.call, ValuesOf(rrset.recs))
<1>1. /\ call \in [Tasks -> Calls] /\ NoLostUpdate
      /\ \A t \in Tasks : pc[t] = "write" => IsRequest(request[t])
      /\ \A l \in late : l.call \in Calls /\ IsRequest(l.req)
  BY Zenon DEF RefineInv, Basic, TypeOK, CallTypeOK, RequestInv, UpdateInv
<1> QED
  BY <1>1, AppliedFacts, Zenon DEF RefineInv, UpdateInv

(* A call with nothing to do has had its effect. *)
LEMMA NothingToDo ==
    ASSUME Basic, NEW t \in Tasks, Plan(call[t], rrset) = NoRequest
    PROVE  ValuesOf(rrset.recs) = Txt!Effect(call[t], ValuesOf(rrset.recs))
<1>1. Settled(call[t], ValuesOf(rrset.recs))
  BY PlanMerges, Zenon DEF Basic, TypeOK, CallTypeOK
<1> QED
  BY <1>1, Zenon DEF Settled, Txt!Effect

LEMMA NextRefines == ASSUME RefineInv, [Next]_vars PROVE [Txt!Next]_(Txt!vars)
<1>0. Basic
  BY Zenon DEF RefineInv
<1>1. ASSUME NEW t \in Tasks, Start(t) PROVE [Txt!Next]_(Txt!vars)
  <2>1. CASE Begin(t)
    <3>1. PICK c \in Calls : call' = [call EXCEPT ![t] = c]
      BY <2>1, Zenon DEF Begin
    <3>2. Running[t] = Txt!Idle
      BY <2>1, Zenon DEF Begin, Running, Txt!Idle
    <3>3. Running' = [Running EXCEPT ![t] = [op |-> c.op, val |-> c.val, done |-> FALSE]]
      BY <1>0, <2>1, <3>1, Zenon DEF Begin, Running, Basic, TypeOK, CallTypeOK, DoneInv
    <3>4. UNCHANGED <<ValuesOf(rrset.recs), Orphans>>
      BY <1>1, <2>1, Zenon DEF Start, Begin, Orphans, serverVars
    <3>5. Txt!Begin(t)
      BY <2>1, <3>1, <3>2, <3>3, <3>4, Zenon DEF Begin, Txt!Begin, Calls, Ops
    <3> QED
      BY <3>5, Zenon DEF Txt!Next
  <2>2. CASE Resolved(t) \/ Acquire(t)
    BY <1>0, <1>1, <2>2, GotoRefines, Zenon DEF Start, Resolved, Acquire, serverVars
  <2> QED
    BY <1>1, <2>1, <2>2, Zenon DEF Start
<1>2. ASSUME NEW t \in Tasks, NEW res \in {"err", "dropped"}, pc[t] # "idle", Stop(t, res)
      PROVE  Txt!Next
  BY <1>0, <1>2, ReturnRefines, Zenon DEF Stop, Return, serverVars, Txt!Next
<1>3. ASSUME NEW t \in Tasks, Fetch(t) PROVE [Txt!Next]_(Txt!vars)
  <2>1. CASE Plan(call[t], rrset) = NoRequest /\ Stop(t, "ok")
    BY <1>0, <1>3, <2>1, NothingToDo, ReturnRefines, Zenon DEF Fetch, Stop, Return, serverVars, Txt!Next
  <2>2. CASE ~(Plan(call[t], rrset) = NoRequest /\ Stop(t, "ok"))
    BY <1>0, <1>3, <2>2, GotoRefines, Zenon DEF Fetch, Goto, serverVars
  <2> QED
    BY <2>1, <2>2, Zenon
<1>4. ASSUME NEW t \in Tasks, WriteAccepted(t) PROVE Txt!Next
  <2>1. pc[t] = "write" /\ ValuesOf(rrset'.recs) = Txt!Effect(call[t], ValuesOf(rrset.recs))
    BY <1>4, EffectOfApply, Zenon DEF WriteAccepted
  <2>2. CASE Goto(t, "poll") /\ done' = [done EXCEPT ![t] = TRUE]
    BY <1>0, <2>1, <2>2, ApplyRefines, ZenonT(30) DEF Txt!Next
  <2>3. CASE Return(t, "ok")
    BY <1>0, <2>1, <2>3, ReturnRefines, Zenon DEF Return, Txt!Next
  <2> QED
    BY <1>4, <2>2, <2>3, Zenon DEF WriteAccepted
<1>5. ASSUME NEW t \in Tasks, NEW p, NEW applied \in BOOLEAN, pc[t] = "write",
             IF applied THEN Apply(call[t], request[t]) ELSE Skip, RetryOrReturn(t, p, applied)
      PROVE  [Txt!Next]_(Txt!vars)
  <2>1. IF applied THEN ValuesOf(rrset'.recs) = Txt!Effect(call[t], ValuesOf(rrset.recs))
                   ELSE UNCHANGED rrset
    BY <1>5, EffectOfApply, Zenon DEF Skip
  <2>2. CASE Return(t, "err")
    BY <1>0, <1>5, <2>1, <2>2, ReturnRefines, Zenon DEF Return, Txt!Next
  <2>3. CASE Goto(t, "write") /\ done' = [done EXCEPT ![t] = @ \/ applied]
    <3>1. CASE applied
      BY <1>0, <1>5, <2>1, <2>3, <3>1, ApplyRefines, Zenon DEF Txt!Next
    <3>2. CASE ~applied
      <4>1. done' = done
        BY <1>0, <2>3, <3>2, Zenon DEF Basic, TypeOK, CallTypeOK
      <4> QED
        BY <1>0, <1>5, <2>1, <2>3, <3>2, <4>1, GotoRefines, Zenon DEF Goto
    <3> QED
      BY <3>1, <3>2, Zenon
  <2> QED
    BY <1>5, <2>2, <2>3, Zenon DEF RetryOrReturn
<1>6. ASSUME NEW t \in Tasks, Throttled(t) \/ ThrottledByCode(t) \/ Unavailable(t)
      PROVE  [Txt!Next]_(Txt!vars)
  <2>1. CASE Throttled(t)
    BY <1>5, <2>1, Zenon DEF Throttled, Skip, serverVars
  <2>2. CASE ThrottledByCode(t)
    BY <2>2, Zenon DEF ThrottledByCode, callVars, serverVars, Txt!vars, Running, Orphans
  <2>3. CASE Unavailable(t)
    BY <1>5, <2>3, Zenon DEF Unavailable
  <2> QED
    BY <1>6, <2>1, <2>2, <2>3, Zenon
<1>7. ASSUME NEW t \in Tasks, NEW res \in {"err", "dropped"}, Leave(t, res) PROVE Txt!Next
  <2>1. pc[t] = "write"
    BY <1>7, Zenon DEF Leave
  <2>2. CASE Return(t, res) /\ Skip
    BY <1>0, <2>1, <2>2, ReturnRefines, Zenon DEF Return, Skip, Txt!Next
  <2>3. CASE Return(t, res) /\ Apply(call[t], request[t])
    BY <1>0, <2>1, <2>3, EffectOfApply, ReturnRefines, Zenon DEF Return, Txt!Next
  <2>4. CASE Abandon(t, res, request[t]) /\ Skip
    BY <1>0, <2>1, <2>4, ReturnRefines, ZenonT(30) DEF Abandon, Skip, Txt!Next
  <2> QED
    BY <1>7, <2>2, <2>3, <2>4, Zenon DEF Leave
<1>8. ASSUME NEW t \in Tasks, Poll(t) PROVE Txt!Next
  BY <1>0, <1>8, ReturnRefines, ZenonT(30) DEF Poll, Stop, Return, serverVars, Basic, DoneInv, Txt!Next
<1>9. ASSUME NEW t \in Tasks,
             ResolveFails(t) \/ FetchFails(t) \/ WriteRefused(t) \/ TimedOut(t) \/ Cancel(t)
      PROVE  Txt!Next
  BY <1>2, <1>7, <1>9, Zenon DEF ResolveFails, FetchFails, WriteRefused, TimedOut, Cancel
<1>10. ASSUME Land PROVE [Txt!Next]_(Txt!vars)
  <2>1. PICK l \in late : late' = late \ {l} /\ (Apply(l.call, l.req) \/ Skip)
    BY <1>10, Zenon DEF Land
  <2>2. ValuesOf(rrset'.recs) \in {ValuesOf(rrset.recs), Txt!Effect(l.call, ValuesOf(rrset.recs))}
    BY <2>1, EffectOfApply, Zenon DEF Skip
  <2>3. l.call \in Orphans /\ Orphans' \in {Orphans, Orphans \ {l.call}}
    BY <2>1, Zenon DEF Orphans
  <2>4. UNCHANGED <<Running, result>>
    BY <1>10, Zenon DEF Land, Running
  <2>5. /\ {} \in SUBSET Txt!Relieved
        /\ Running' = [t \in Tasks |->
              IF t \in {} THEN [Running[t] EXCEPT !.done = TRUE] ELSE Running[t]]
    BY <2>4, Zenon DEF Running
  <2> QED
    BY <2>2, <2>3, <2>4, <2>5, Zenon DEF Txt!Next, Txt!Straggle
<1>11. ASSUME OthersWrite PROVE Txt!Next
  <2>1. PICK v \in Foreign :
          /\ outside' = IF Quoted(v) \in outside THEN outside \ {Quoted(v)}
                                                ELSE outside \cup {Quoted(v)}
          /\ LET recs == (rrset.recs \ outside) \cup outside' IN
             rrset' = IF recs = {} THEN NoSet ELSE [rrset EXCEPT !.recs = recs]
    BY <1>11, Zenon DEF OthersWrite
  <2>2. rrset'.recs = (rrset.recs \ outside) \cup outside'
    BY <1>0, <2>1, Zenon DEF Basic, TypeOK, NoSet, Sets
  <2>3. /\ provider = "google" /\ \A e \in outside : e \in Entries /\ e.form = "quoted"
        /\ ForeignOf(rrset.recs) = outside
    BY <1>11, Zenon DEF OthersWrite, RefineInv, Shielded, Basic, TypeOK, Formed, OthersInv, Has
  <2>4. \A e \in rrset.recs : e.val = v => e = Quoted(v)
    BY <2>3 DEF ForeignOf, Entries, Quoted
  <2>5. ValuesOf(rrset'.recs) \in {ValuesOf(rrset.recs) \cup {v}, ValuesOf(rrset.recs) \ {v}}
    <3>1. Quoted(v).val = v
      BY Zenon DEF Quoted
    <3>2. outside \subseteq rrset.recs
      BY <2>3, Zenon DEF ForeignOf
    <3>3. CASE Quoted(v) \in outside
      <4>1. rrset'.recs = rrset.recs \ {Quoted(v)}
        BY <2>1, <2>2, <3>2, <3>3, Zenon
      <4> QED
        BY <2>4, <3>1, <4>1, Zenon DEF ValuesOf
    <3>4. CASE Quoted(v) \notin outside
      <4>1. rrset'.recs = rrset.recs \cup {Quoted(v)}
        BY <2>1, <2>2, <3>2, <3>4, Zenon
      <4> QED
        BY <3>1, <4>1, Zenon DEF ValuesOf
    <3> QED
      BY <3>3, <3>4, Zenon
  <2>6. UNCHANGED <<Running, result, Orphans>>
    BY <1>11, Zenon DEF OthersWrite, callVars, Running, Orphans
  <2> QED
    BY <2>5, <2>6, Zenon DEF Txt!Next, Txt!Outside
<1>12. ASSUME UNCHANGED vars PROVE UNCHANGED Txt!vars
  BY <1>12, Zenon DEF vars, callVars, Txt!vars, Running, Orphans
<1> QED
  BY <1>1, <1>3, <1>4, <1>6, <1>8, <1>9, <1>10, <1>11, <1>12, Zenon DEF Next

(* provider.rs:30-41.  As long as nothing arrives late and nobody else writes,
   and with Google even then, every provider of this family implements the
   DnsProvider contract: each step on the zone adds or removes the value of one
   call, and Ok is returned only for a call that had its effect. *)
THEOREM RrsetRefinesTxtRecord == Spec /\ Shielded => ImplementsTxtRecord
<1>1. Init => Txt!Init
  <2> SUFFICES ASSUME Init PROVE Txt!Init
    OBVIOUS
  <2>1. ValuesOf(rrset.recs) \in SUBSET Foreign
    BY DEF Init, ValuesOf, NoSet
  <2> QED
    BY <2>1, Zenon DEF Init, CallInit, Running, Orphans, Txt!Init, Txt!Idle
<1>2. RefineInv /\ [Next]_vars => [Txt!Next]_(Txt!vars)
  BY NextRefines, Zenon
<1>3. Basic /\ Shielded /\ OthersInv /\ UpdateInv => RefineInv
  BY Zenon DEF RefineInv
<1> QED
  BY BasicInvariance, UpdateInvariance, <1>1, <1>2, <1>3, PTL DEF Spec, Txt!Spec, ImplementsTxtRecord
=============================================================================
