------------------------ MODULE RecordProviderProofs -------------------------
(***************************************************************************)
(* The providers that keep one record per value: what they touch, what Ok  *)
(* promises, when a value has one record, and that they implement          *)
(* TxtRecord, for any number of callers, values, calls and late requests.  *)
(*                                                                         *)
(* A request works on one record of its own call's value, because ids are  *)
(* not used twice (IsRequest).  A call that lists the records with nothing *)
(* in flight for its value has, in the requests it still has to make,      *)
(* every record with its value (Covered): nobody else can add one, because *)
(* it has the lock.                                                        *)
(***************************************************************************)
EXTENDS RecordProvider, TLAPS

Records(n) == [id : 0..n - 1, val : Values \cup Foreign]

IdsDiffer(recs) == \A q \in recs, r \in recs : q.id = r.id => q = r

(* Of the records below n, the one called id belongs to call c, if it is still
   there. *)
Owned(recs, n, c, id) == id \in 0..n - 1 /\ \A q \in recs : q.id = id => q.val = c.val

(* What a request of call c may be, with provider p. *)
IsRequest(p, recs, n, c, r) ==
    \/ /\ r.kind = "create" /\ c.op = "present" /\ r.val = c.val
       /\ p # "bunny" => r.method = "POST"
    \/ /\ r.kind = "delete" /\ c.op = "cleanup" /\ Owned(recs, n, c, r.id)
    \/ /\ r.kind = "rollback" /\ c.op = "present" /\ Owned(recs, n, c, r.id)
       /\ p = "porkbun" /\ r.method = "POST"
    \/ /\ r.kind = "get" /\ p = "ovh" /\ r.id \in 0..n - 1
    \/ /\ r.kind = "refresh" /\ p = "ovh"

(* Every record with the value of call c is one that a request in reqs is for. *)
Covered(recs, c, reqs) ==
    \A q \in recs : q.val = c.val => \E r \in reqs : r.kind \in {"get", "delete"} /\ r.id = q.id

Locked == \A t \in Tasks : pc[t] \in {"fetch", "write"} => lock = t

(* The call makes request r, and the ones in rest later. *)
Asks(p, recs, n, c, r, rest) ==
    /\ IsRequest(p, recs, n, c, r)
    /\ \A s \in rest : IsRequest(p, recs, n, c, s) /\ s.kind \in {"get", "delete"}
    /\ r.kind \notin {"get", "delete"} => rest = {}

RequestInv ==
    /\ \A t \in Tasks : pc[t] = "write" =>
          Asks(provider, records, nextId, call[t], request[t], todo[t])
    /\ \A l \in late : l.call \in Calls /\ IsRequest(provider, records, nextId, l.call, l.req)
    /\ late # {} => provider \in LateWrites
    /\ request = [t \in Tasks |-> request[t]] /\ todo = [t \in Tasks |-> todo[t]]

ServerInv ==
    /\ provider \in Providers
    /\ nextId \in Nat /\ nextId > 0
    /\ records \subseteq Records(nextId) /\ IdsDiffer(records)
    /\ served \subseteq Values \cup Foreign

Basic == TypeOK /\ ServerInv /\ Locked /\ RequestInv

-----------------------------------------------------------------------------
(* Requests and the records. *)

(* An id is not used twice: a request stays one of its call, whatever is added
   and deleted. *)
LEMMA RequestStays ==
    ASSUME NEW p, NEW c, NEW r, NEW recs, NEW recs2, NEW n \in Nat, NEW n2 \in Nat, n <= n2,
           \A q \in recs2 : q.id \in 0..n - 1 => q \in recs,
           IsRequest(p, recs, n, c, r)
    PROVE  IsRequest(p, recs2, n2, c, r)
<1>1. \A id : Owned(recs, n, c, id) => Owned(recs2, n2, c, id)
  BY DEF Owned
<1>2. \A id : id \in 0..n - 1 => id \in 0..n2 - 1
  OBVIOUS
<1> QED
  BY <1>1, <1>2, Zenon DEF IsRequest

(* What a request changes: it adds a record with the value of its call under a
   new id, or removes one with that value. *)
LEMMA ApplyFacts ==
    ASSUME ServerInv, NEW c \in Calls, NEW r, IsRequest(provider, records, nextId, c, r), Apply(r)
    PROVE  /\ ServerInv' /\ provider' = provider /\ nextId <= nextId'
           /\ \A q \in records' : q.id \in 0..nextId - 1 => q \in records
           /\ \A q \in records' : q \in records \/ q.val = c.val
           /\ \A q \in records : q \in records' \/ q.val = c.val
           /\ r.kind = "create" => c.val \in ValuesOf(records') /\ records \subseteq records'
           /\ r.kind = "delete" => records' = {q \in records : q.id # r.id}
           /\ r.kind = "refresh" => records' = records
           /\ r.kind # "create" => records' \subseteq records
<1>1. c.val \in Values /\ nextId \in Nat /\ nextId > 0
  BY Zenon DEF Calls, ServerInv
<1>2. \A q \in records : q.id \in 0..nextId - 1 /\ q.val \in Values \cup Foreign
  BY Zenon DEF ServerInv, Records
<1>3. provider' = provider
  BY Zenon DEF Apply
<1>4. ValuesOf(records') \subseteq Values \cup Foreign => served' \subseteq Values \cup Foreign
  BY Zenon DEF Apply, ServerInv
<1>5. CASE r.kind = "create"
  <2>1. r.val = c.val
    BY <1>5, Zenon DEF IsRequest
  <2>2. CASE records' = records \cup {[id |-> nextId, val |-> r.val]} /\ nextId' = nextId + 1
    <3> DEFINE new == [id |-> nextId, val |-> r.val]
    <3>1. new.id = nextId /\ new.val = c.val
      BY <2>1, Zenon
    <3>2. new \in Records(nextId') /\ Records(nextId) \subseteq Records(nextId')
      BY <1>1, <2>1, <2>2 DEF Records
    <3>3. records' = records \cup {new}
      BY <2>2, Zenon
    <3> HIDE DEF new
    <3>4. IdsDiffer(records)'
      <4>1. \A q \in records : q.id # nextId
        BY <1>1, <1>2
      <4> QED
        BY <3>1, <3>3, <4>1, Zenon DEF IdsDiffer, ServerInv
    <3>5. ValuesOf(records') \subseteq Values \cup Foreign /\ c.val \in ValuesOf(records')
      BY <1>1, <1>2, <3>1, <3>3, Zenon DEF ValuesOf
    <3>6. nextId' \in Nat /\ nextId' > 0 /\ nextId <= nextId'
      BY <1>1, <2>2
    <3>7. ServerInv'
      BY <1>3, <1>4, <3>2, <3>3, <3>4, <3>5, <3>6, Zenon DEF ServerInv
    <3>8. \A q \in records' : q.id \in 0..nextId - 1 => q \in records
      BY <1>1, <3>1, <3>3
    <3> QED
      BY <1>3, <1>5, <3>1, <3>3, <3>5, <3>6, <3>7, <3>8, Zenon
  <2>3. CASE UNCHANGED <<records, nextId>> /\ Matching(records, r.val) # {}
    <3>1. c.val \in ValuesOf(records)
      BY <2>1, <2>3 DEF Matching, ValuesOf
    <3>2. ValuesOf(records') \subseteq Values \cup Foreign
      BY <1>2, <2>3, Zenon DEF ValuesOf
    <3> QED
      BY <1>1, <1>3, <1>4, <1>5, <2>3, <3>1, <3>2 DEF ServerInv
  <2> QED
    BY <1>5, <2>2, <2>3, Zenon DEF Apply
<1>6. CASE r.kind \in {"delete", "rollback"}
  <2>1. records' = {q \in records : q.id # r.id} /\ nextId' = nextId
    BY <1>6, Zenon DEF Apply
  <2>2. \A q \in records : q.id = r.id => q.val = c.val
    BY <1>6, Zenon DEF IsRequest, Owned
  <2>3. ValuesOf(records') \subseteq Values \cup Foreign /\ IdsDiffer(records)'
    BY <1>2, <2>1, Zenon DEF ValuesOf, IdsDiffer, ServerInv
  <2> QED
    BY <1>1, <1>3, <1>4, <1>6, <2>1, <2>2, <2>3 DEF ServerInv
<1>7. CASE r.kind = "refresh"
  <2>1. records' = records /\ nextId' = nextId
    BY <1>7, Zenon DEF Apply
  <2>2. ValuesOf(records') \subseteq Values \cup Foreign
    BY <1>2, <2>1, Zenon DEF ValuesOf
  <2> QED
    BY <1>1, <1>3, <1>4, <1>7, <2>1, <2>2 DEF ServerInv
<1> QED
  BY <1>5, <1>6, <1>7, Zenon DEF Apply

-----------------------------------------------------------------------------
(* What a call does next. *)

(* The six providers plan the same requests, with methods of their own. *)
LEMMA PlanShape ==
    ASSUME ServerInv, NEW c \in Calls
    PROVE  \/ provider = "ovh" /\ Plan(c, records) = {Get(q.id) : q \in records}
           \/ /\ provider # "ovh" /\ c.op = "present"
              /\ \E m : /\ provider # "bunny" => m = "POST"
                       /\ Plan(c, records) = IF Matching(records, c.val) = {} THEN {Create(m, c.val)} ELSE {}
           \/ /\ provider # "ovh" /\ c.op = "cleanup"
              /\ \E m : Plan(c, records) = {Delete(m, id) : id \in Matching(records, c.val)}
<1>1. c.op \in {"present", "cleanup"} /\ provider \in Providers
  BY Zenon DEF Calls, Ops, ServerInv
<1>2. CASE provider = "cloudflare"
  BY <1>1, <1>2, Zenon DEF Plan, CloudflarePresent, CloudflareCleanup, CloudflareCreate, CloudflareDelete
<1>3. CASE provider = "bunny"
  BY <1>1, <1>3, Zenon DEF Plan, BunnyPresent, BunnyCleanup, BunnyCreate, BunnyDelete
<1>4. CASE provider = "digitalocean"
  BY <1>1, <1>4, Zenon
     DEF Plan, DigitalOceanPresent, DigitalOceanCleanup, DigitalOceanCreate, DigitalOceanDelete
<1>5. CASE provider = "infomaniak"
  BY <1>1, <1>5, Zenon DEF Plan, InfomaniakPresent, InfomaniakCleanup, InfomaniakCreate, InfomaniakDelete
<1>6. CASE provider = "porkbun"
  BY <1>1, <1>6, Zenon DEF Plan, PorkbunPresent, PorkbunCleanup, PorkbunCreate, PorkbunDelete
<1>7. CASE provider = "ovh"
  BY <1>7, Zenon DEF Plan, OvhList
<1> QED
  BY <1>1, <1>2, <1>3, <1>4, <1>5, <1>6, <1>7, ProvidersAssumption, Zenon

(* They are requests of the call, and they are for every record with its
   value; none is made when that value is there, or gone, already. *)
LEMMA PlanFacts ==
    ASSUME ServerInv, NEW c \in Calls, NEW P, P = Plan(c, records)
    PROVE  /\ \A r \in P : IsRequest(provider, records, nextId, c, r)
           /\ \/ \A r \in P : r.kind \in {"get", "delete"}
              \/ \E r : P = {r} /\ r.kind = "create"
           /\ c.op = "cleanup" \/ provider = "ovh" \/ P # {} => Covered(records, c, P)
           /\ c.op = "present" /\ provider # "ovh" /\ P = {} => c.val \in ValuesOf(records)
           /\ c.op = "cleanup" /\ provider # "ovh" =>
                 /\ \A r \in P : r.kind = "delete" /\ \E q \in records : q.id = r.id /\ q.val = c.val
                 /\ \A r1 \in P, r2 \in P : r1.id = r2.id => r1 = r2
<1>1. c.op \in {"present", "cleanup"}
  BY Zenon DEF Calls, Ops
<1>2. \A q \in records : q.id \in 0..nextId - 1
  BY Zenon DEF ServerInv, Records
<1>3. CASE provider = "ovh" /\ P = {Get(q.id) : q \in records}
  <2>1. \A id : Get(id).kind = "get" /\ Get(id).id = id
    BY Zenon DEF Get
  <2>2. \A r \in P : r.kind = "get" /\ r.id \in 0..nextId - 1
    BY <1>2, <1>3, <2>1, Zenon
  <2>3. \A r \in P : IsRequest(provider, records, nextId, c, r)
    BY <1>3, <2>2, Zenon DEF IsRequest
  <2>4. Covered(records, c, P)
    BY <1>3, <2>1, Zenon DEF Covered
  <2> QED
    BY <1>3, <2>2, <2>3, <2>4, Zenon
<1>4. CASE /\ provider # "ovh" /\ c.op = "present"
           /\ \E m : /\ provider # "bunny" => m = "POST"
                    /\ P = IF Matching(records, c.val) = {} THEN {Create(m, c.val)} ELSE {}
  <2>1. PICK m : /\ provider # "bunny" => m = "POST"
                 /\ P = IF Matching(records, c.val) = {} THEN {Create(m, c.val)} ELSE {}
    BY <1>4, Zenon
  <2>2. Matching(records, c.val) = {} <=> \A q \in records : q.val # c.val
    BY Zenon DEF Matching
  <2>3. IsRequest(provider, records, nextId, c, Create(m, c.val)) /\ Create(m, c.val).kind = "create"
    BY <1>4, <2>1, Zenon DEF IsRequest, Create
  <2> QED
    BY <1>1, <1>4, <2>1, <2>2, <2>3, Zenon DEF Covered, ValuesOf
<1>5. CASE /\ provider # "ovh" /\ c.op = "cleanup"
           /\ \E m : P = {Delete(m, id) : id \in Matching(records, c.val)}
  <2>1. PICK m : P = {Delete(m, id) : id \in Matching(records, c.val)}
    BY <1>5, Zenon
  <2>2. \A id : id \in Matching(records, c.val) <=> \E q \in records : q.id = id /\ q.val = c.val
    BY Zenon DEF Matching
  <2>3. \A id : Delete(m, id).kind = "delete" /\ Delete(m, id).id = id
    BY Zenon DEF Delete
  <2>4. \A id \in Matching(records, c.val) : Owned(records, nextId, c, id)
    BY <1>2, <2>2, SMTT(30) DEF Owned, ServerInv, IdsDiffer
  <2>5. \A r \in P : IsRequest(provider, records, nextId, c, r)
    BY <1>5, <2>1, <2>3, <2>4, ZenonT(30) DEF IsRequest
  <2>6. Covered(records, c, P)
    BY <2>1, <2>2, <2>3, ZenonT(30) DEF Covered
  <2>7. \A r \in P : r.kind = "delete" /\ \E q \in records : q.id = r.id /\ q.val = c.val
    BY <2>1, <2>2, <2>3
  <2>8. \A r1 \in P, r2 \in P : r1.id = r2.id => r1 = r2
    BY <2>1, <2>3
  <2> QED
    BY <1>1, <1>5, <2>5, <2>6, <2>7, <2>8, Zenon
<1> QED
  BY <1>3, <1>4, <1>5, PlanShape, SMTT(30)

(* The requests after one of kind `last`, `rest` being the ones the loop has
   not made. *)
More(c, deleted, last, rest) ==
    IF rest # {} THEN rest ELSE {AfterLoop(c, deleted, last)} \ {NoRequest}

LEMMA MoreFacts ==
    ASSUME NEW c \in Calls, NEW deleted \in BOOLEAN, NEW last, NEW rest,
           \A r \in rest : IsRequest(provider, records, nextId, c, r),
           \/ \A r \in rest : r.kind \in {"get", "delete"}
           \/ \E r : rest = {r},
           NEW M, M = More(c, deleted, last, rest)
    PROVE  /\ \A r \in M : IsRequest(provider, records, nextId, c, r)
           /\ \/ \A r \in M : r.kind \in {"get", "delete"}
              \/ \E r : M = {r}
           /\ rest = {} => \A r \in M : r.kind \in {"create", "refresh"}
           /\ rest = {} /\ c.op = "cleanup" => \A r \in M : r.kind = "refresh"
           /\ rest = {} /\ c.op = "present" /\ provider = "ovh" =>
                 /\ last = "create" => \A r \in M : r.kind = "refresh"
                 /\ last = "refresh" => M = {}
                 /\ last \notin {"create", "refresh"} => \E r : M = {r} /\ r.kind = "create"
           /\ rest = {} /\ provider # "ovh" => M = {}
<1>1. c.op \in {"present", "cleanup"}
  BY Zenon DEF Calls, Ops
<1>2. CASE rest # {}
  BY <1>2, Zenon DEF More
<1>3. CASE rest = {} /\ provider # "ovh"
  BY <1>3, Zenon DEF More, AfterLoop
<1>4. CASE rest = {} /\ provider = "ovh"
  <2>1. M = {AfterLoop(c, deleted, last)} \ {NoRequest}
    BY <1>4, Zenon DEF More
  <2>2. /\ NoRequest.kind = "none" /\ Refresh.kind = "refresh" /\ OvhCreate(c.val).kind = "create"
        /\ OvhCreate(c.val).val = c.val /\ OvhCreate(c.val).method = "POST"
    BY Zenon DEF NoRequest, Refresh, OvhCreate, Create
  <2>3. CASE c.op = "cleanup"
    <3>1. AfterLoop(c, deleted, last) \in {Refresh, NoRequest}
      BY <1>4, <2>3, Zenon DEF AfterLoop, OvhCleanupEnd
    <3>2. M = {} \/ M = {Refresh}
      BY <2>1, <3>1, Zenon
    <3> QED
      BY <1>4, <2>2, <2>3, <3>2, Zenon DEF IsRequest
  <2>4. CASE c.op = "present"
    <3>1. AfterLoop(c, deleted, last) = OvhPresentEnd(c.val, last)
      BY <1>4, <2>4, Zenon DEF AfterLoop
    <3>2. CASE last = "create"
      <4>1. M = {Refresh}
        BY <2>1, <2>2, <3>1, <3>2, Zenon DEF OvhPresentEnd
      <4> QED
        BY <1>4, <2>2, <2>4, <3>2, <4>1, Zenon DEF IsRequest
    <3>3. CASE last = "refresh"
      <4>1. M = {}
        BY <2>1, <3>1, <3>3, Zenon DEF OvhPresentEnd
      <4> QED
        BY <1>4, <2>4, <3>3, <4>1, Zenon
    <3>4. CASE last \notin {"create", "refresh"}
      <4>1. M = {OvhCreate(c.val)}
        BY <2>1, <2>2, <3>1, <3>4, Zenon DEF OvhPresentEnd
      <4> QED
        BY <1>4, <2>2, <2>4, <3>4, <4>1, Zenon DEF IsRequest
    <3> QED
      BY <3>2, <3>3, <3>4, Zenon
  <2> QED
    BY <1>1, <2>3, <2>4, Zenon
<1> QED
  BY <1>2, <1>3, <1>4, Zenon

LEMMA ProceedCases ==
    ASSUME NEW t, NEW rest, NEW last, NEW effect, Proceed(t, rest, last, effect),
           NEW M, M = More(call[t], deletedAny'[t], last, rest)
    PROVE  \/ M = {} /\ ReturnOk(t)
           \/ \E r \in M : Send(t, r, M \ {r}) /\ done' = [done EXCEPT ![t] = @ \/ effect]
  BY Zenon DEF Proceed, More

-----------------------------------------------------------------------------
(* The kinds of step. *)

(* A call ends without Ok: its request was applied, or not, or is left
   behind. *)
GoneStep(t) ==
    /\ pc[t] # "idle"
    /\ \E res \in {"err", "dropped"} : Finish(t, res)
    /\ \/ UNCHANGED <<late, serverVars>>
       \/ Writing(t) /\ Apply(request[t]) /\ UNCHANGED late
       \/ /\ Writing(t) /\ provider \in LateWrites
          /\ late' = late \cup {[call |-> call[t], req |-> request[t]]}
          /\ UNCHANGED serverVars
    /\ UNCHANGED writeVars

(* A request is sent again. *)
RetryStep(t) ==
    /\ Writing(t) /\ attempt[t] < MaxAttempts
    /\ UNCHANGED serverVars \/ (IsIdempotent(request[t].method) /\ Apply(request[t]))
    /\ attempt' = [attempt EXCEPT ![t] = @ + 1]
    /\ Goto(t, "write")
    /\ done' = [done EXCEPT ![t] = @ \/ HadEffect(t)]
    /\ UNCHANGED <<request, todo, deletedAny, sure, promised>>

(* A request is answered with success. *)
AcceptStep(t) ==
    /\ Writing(t) /\ request[t].kind # "rollback"
    /\ Apply(request[t])
    /\ deletedAny' = [deletedAny EXCEPT ![t] = @ \/ request[t].kind = "delete"]
    /\ Proceed(t, todo[t], request[t].kind, HadEffect(t))
    /\ UNCHANGED sure

(* A record that will not resolve is about to be taken back. *)
WarnStep(t) ==
    /\ Writing(t) /\ provider = "porkbun" /\ request[t].kind = "create"
    /\ Matching(records, request[t].val) = {}
    /\ Apply(request[t])
    /\ Send(t, Rollback(nextId), {})
    /\ done' = [done EXCEPT ![t] = TRUE]
    /\ UNCHANGED <<deletedAny, sure>>

LEMMA StepKinds ==
    ASSUME [Next]_vars
    PROVE  \/ \E t \in Tasks : \/ Start(t) \/ Fetch(t) \/ GetRecord(t)
                             \/ GoneStep(t) \/ RetryStep(t) \/ AcceptStep(t) \/ WarnStep(t)
           \/ Land
           \/ UNCHANGED vars
<1>1. ASSUME NEW t \in Tasks, ResolveFails(t) \/ FetchFails(t) \/ Refused(t) PROVE GoneStep(t)
  BY <1>1, Zenon DEF ResolveFails, FetchFails, Refused, Fail, Return, GoneStep
<1>2. ASSUME NEW t \in Tasks, WriteAccepted(t) PROVE AcceptStep(t) \/ GoneStep(t)
  <2>1. CASE request[t].kind = "rollback"
    BY <1>2, <2>1, Zenon DEF WriteAccepted, Writing, Return, GoneStep, writeVars
  <2>2. CASE request[t].kind # "rollback"
    BY <1>2, <2>2, Zenon DEF WriteAccepted, AcceptStep
  <2> QED
    BY <2>1, <2>2, Zenon
<1>3. ASSUME NEW t \in Tasks, CreateWarned(t) PROVE WarnStep(t) \/ GoneStep(t)
  BY <1>3, Zenon DEF CreateWarned, Writing, Fail, Return, GoneStep, WarnStep
<1>4. ASSUME NEW t \in Tasks, Throttled(t) \/ Unavailable(t) PROVE RetryStep(t) \/ GoneStep(t)
  BY <1>4, Zenon DEF Throttled, Unavailable, RetryOrReturn, Writing, Fail, Return, RetryStep, GoneStep
<1>5. ASSUME NEW t \in Tasks, NEW res \in {"err", "dropped"}, Leave(t, res) PROVE GoneStep(t)
  BY <1>5, Zenon DEF Leave, Writing, Return, Abandon, GoneStep
<1>6. ASSUME NEW t \in Tasks, TimedOut(t) \/ Cancel(t) PROVE GoneStep(t)
  BY <1>5, <1>6, ZenonT(30) DEF TimedOut, Cancel, Fail, Return, GoneStep
<1> QED
  BY <1>1, <1>2, <1>3, <1>4, <1>6, Zenon DEF Next

-----------------------------------------------------------------------------
(* Types, the lock, and the requests. *)

States == {"idle", "resolve", "lock", "fetch", "write"}

CallInv ==
    /\ CallTypeOK(States) /\ Locked
    /\ deletedAny \in [Tasks -> BOOLEAN]
    /\ attempt \in [Tasks -> 1..MaxAttempts]
    /\ sure \in [Tasks -> BOOLEAN]
    /\ promised \in [Values -> {"none", "present", "absent"}]
    /\ request = [t \in Tasks |-> request[t]] /\ todo = [t \in Tasks |-> todo[t]]

LEMMA CallInvStep == ASSUME Basic, [Next]_vars PROVE CallInv'
<1>0. CallInv
  BY ZenonT(30) DEF Basic, TypeOK, CallInv, States, RequestInv
<1> USE DEF CallInv, CallTypeOK, Locked, States
<1>1. ASSUME NEW t \in Tasks, Start(t) PROVE CallInv'
  <2>1. CASE Begin(t) /\ UNCHANGED promised
    <3>1. call' \in [Tasks -> Calls] /\ calls' \in 0..MaxCalls
      BY <1>0, <2>1, BoundsAssumption, SMTT(30) DEF Begin
    <3> QED
      BY <1>0, <1>1, <2>1, <3>1, Zenon DEF Start, Begin
  <2>2. CASE Resolved(t) /\ UNCHANGED promised
    BY <1>0, <1>1, <2>2, Zenon DEF Start, Resolved
  <2>3. CASE Acquire(t) /\ promised' = [promised EXCEPT ![call[t].val] = "none"]
    BY <1>0, <1>1, <2>3, NoTaskAssumption, ZenonT(30) DEF Start, Acquire
  <2> QED
    BY <1>1, <2>1, <2>2, <2>3, Zenon DEF Start
<1>2. ASSUME NEW t \in Tasks, NEW res \in {"ok", "err", "dropped"}, Finish(t, res),
             UNCHANGED <<request, todo, attempt>>,
             deletedAny' \in [Tasks -> BOOLEAN], sure' \in [Tasks -> BOOLEAN],
             promised' \in [Values -> {"none", "present", "absent"}]
      PROVE  CallInv'
  BY <1>0, <1>2, NoTaskAssumption, Zenon DEF Finish
<1>3. ASSUME NEW t \in Tasks, Goto(t, "write"), pc[t] \in {"fetch", "write"},
             attempt' \in [Tasks -> 1..MaxAttempts], done' \in [Tasks -> BOOLEAN],
             deletedAny' \in [Tasks -> BOOLEAN], sure' \in [Tasks -> BOOLEAN], UNCHANGED promised,
             \/ UNCHANGED <<request, todo>>
             \/ \E r, rest : request' = [request EXCEPT ![t] = r] /\ todo' = [todo EXCEPT ![t] = rest]
      PROVE  CallInv'
  BY <1>0, <1>3, Zenon DEF Goto
<1> HIDE DEF Locked
<1>4. ASSUME NEW t \in Tasks, NEW r, NEW rest, pc[t] \in {"fetch", "write"}, Send(t, r, rest),
             done' \in [Tasks -> BOOLEAN],
             deletedAny' \in [Tasks -> BOOLEAN], sure' \in [Tasks -> BOOLEAN]
      PROVE  CallInv'
  <2>1. attempt' \in [Tasks -> 1..MaxAttempts]
    BY <1>0, <1>4, SMTT(30) DEF Send, MaxAttempts
  <2> QED
    BY <1>3, <1>4, <2>1, Zenon DEF Send
<1>5. ASSUME NEW t \in Tasks, ReturnOk(t),
             deletedAny' \in [Tasks -> BOOLEAN], sure' \in [Tasks -> BOOLEAN]
      PROVE  CallInv'
  <2>1. promised' \in [Values -> {"none", "present", "absent"}]
    BY <1>0, <1>5, Zenon DEF ReturnOk
  <2> QED
    BY <1>2, <1>5, <2>1, Zenon DEF ReturnOk, Return
<1>6. ASSUME NEW t \in Tasks, NEW rest, NEW last, NEW effect \in BOOLEAN,
             pc[t] \in {"fetch", "write"}, Proceed(t, rest, last, effect),
             deletedAny' \in [Tasks -> BOOLEAN], sure' \in [Tasks -> BOOLEAN]
      PROVE  CallInv'
  <2>1. CASE ReturnOk(t)
    BY <1>5, <1>6, <2>1, Zenon
  <2>2. CASE /\ \E r, more : Send(t, r, more)
             /\ done' = [done EXCEPT ![t] = @ \/ effect]
    <3>1. done' \in [Tasks -> BOOLEAN]
      BY <1>0, <2>2, Zenon
    <3> QED
      BY <1>4, <1>6, <2>2, <3>1
  <2> QED
    BY <1>6, <2>1, <2>2, Zenon DEF Proceed
<1>7. ASSUME NEW t \in Tasks, Fetch(t) PROVE CallInv'
  <2>1. deletedAny' \in [Tasks -> BOOLEAN] /\ sure' \in [Tasks -> BOOLEAN]
    BY <1>0, <1>7, Zenon DEF Fetch
  <2> QED
    BY <1>6, <1>7, <2>1, Zenon DEF Fetch
<1>8. ASSUME NEW t \in Tasks, GetRecord(t) PROVE CallInv'
  <2>1. /\ pc[t] = "write" /\ UNCHANGED <<sure, deletedAny>>
        /\ \/ Proceed(t, todo[t], "get", FALSE)
           \/ ReturnOk(t)
           \/ UNCHANGED done /\ \E r, rest : Send(t, r, rest)
    BY <1>8, Zenon DEF GetRecord
  <2>2. /\ deletedAny' \in [Tasks -> BOOLEAN] /\ sure' \in [Tasks -> BOOLEAN]
        /\ UNCHANGED done => done' \in [Tasks -> BOOLEAN]
    BY <1>0, <2>1, Zenon
  <2> HIDE DEF CallInv, CallTypeOK, States
  <2>3. CASE Proceed(t, todo[t], "get", FALSE)
    BY <1>6, <2>1, <2>2, <2>3, Zenon
  <2>4. CASE ReturnOk(t)
    BY <1>5, <2>2, <2>4, ZenonT(30)
  <2>5. CASE UNCHANGED done /\ \E r, rest : Send(t, r, rest)
    BY <1>4, <2>1, <2>2, <2>5
  <2> QED
    BY <2>1, <2>3, <2>4, <2>5, Zenon
<1>9. ASSUME NEW t \in Tasks, GoneStep(t) PROVE CallInv'
  BY <1>0, <1>2, <1>9, ZenonT(30) DEF GoneStep, writeVars
<1>10. ASSUME NEW t \in Tasks, RetryStep(t) PROVE CallInv'
  <2>1. attempt' \in [Tasks -> 1..MaxAttempts] /\ done' \in [Tasks -> BOOLEAN]
    BY <1>0, <1>10, SMTT(30) DEF RetryStep, HadEffect, MaxAttempts
  <2> QED
    BY <1>0, <1>3, <1>10, <2>1, Zenon DEF RetryStep, Writing
<1>11. ASSUME NEW t \in Tasks, AcceptStep(t) PROVE CallInv'
  <2>1. deletedAny' \in [Tasks -> BOOLEAN] /\ HadEffect(t) \in BOOLEAN
    BY <1>0, <1>11, ZenonT(30) DEF AcceptStep, HadEffect
  <2> QED
    BY <1>0, <1>6, <1>11, <2>1 DEF AcceptStep, Writing
<1>12. ASSUME NEW t \in Tasks, WarnStep(t) PROVE CallInv'
  <2>1. done' \in [Tasks -> BOOLEAN]
    BY <1>0, <1>12, Zenon DEF WarnStep
  <2> QED
    BY <1>0, <1>4, <1>12, <2>1, SMTT(30) DEF WarnStep, Writing
<1>13. ASSUME Land PROVE CallInv'
  <2>1. done' \in [Tasks -> BOOLEAN]
    BY <1>0, <1>13, ZenonT(30) DEF Land, HadEffect
  <2> QED
    BY <1>0, <1>13, <2>1, Zenon DEF Land, writeVars, Locked
<1>14. ASSUME UNCHANGED vars PROVE CallInv'
  BY <1>0, <1>14, Zenon DEF vars, callVars, writeVars, Locked
<1> QED
  BY <1>1, <1>7, <1>8, <1>9, <1>10, <1>11, <1>12, <1>13, <1>14, StepKinds, ZenonT(30)

(* The server is left alone, or applies a request of a call: what was a
   request of a call still is. *)
LEMMA ServerMoves ==
    ASSUME ServerInv, NEW c \in Calls, NEW r,
           \/ UNCHANGED serverVars
           \/ IsRequest(provider, records, nextId, c, r) /\ Apply(r)
    PROVE  /\ ServerInv' /\ provider' = provider
           /\ \A d, s : IsRequest(provider, records, nextId, d, s) =>
                          IsRequest(provider', records', nextId', d, s)
           /\ \A d, s, rest : Asks(provider, records, nextId, d, s, rest) =>
                                Asks(provider', records', nextId', d, s, rest)
<1>1. CASE UNCHANGED serverVars
  BY <1>1, Zenon DEF serverVars, ServerInv
<1>2. CASE IsRequest(provider, records, nextId, c, r) /\ Apply(r)
  <2>1. /\ ServerInv' /\ provider' = provider /\ nextId <= nextId'
        /\ \A q \in records' : q.id \in 0..nextId - 1 => q \in records
    BY <1>2, ApplyFacts, Zenon
  <2>2. nextId \in Nat /\ nextId' \in Nat
    BY <2>1, Zenon DEF ServerInv
  <2>3. \A d, s : IsRequest(provider, records, nextId, d, s) =>
                   IsRequest(provider', records', nextId', d, s)
    BY <2>1, <2>2, RequestStays, Zenon
  <2> QED
    BY <2>1, <2>3, Zenon DEF Asks
<1> QED
  BY <1>1, <1>2, Zenon

(* What is sent first, and kept for later, is the call's. *)
LEMMA MoreAsks ==
    ASSUME NEW p, NEW recs, NEW n, NEW c, NEW M, NEW r \in M,
           \A s \in M : IsRequest(p, recs, n, c, s),
           \/ \A s \in M : s.kind \in {"get", "delete"}
           \/ \E s : M = {s}
    PROVE  Asks(p, recs, n, c, r, M \ {r})
  BY Zenon DEF Asks

LEMMA BasicInit == Init => Basic
<1> SUFFICES ASSUME Init PROVE Basic
  BY Zenon
<1>0. (CHOOSE c \in Calls : TRUE) \in Calls
  <2>1. PICK v : v \in Values
    BY ValuesAssumption, Zenon
  <2>2. [op |-> "present", val |-> v] \in Calls
    BY <2>1, Zenon DEF Calls, Ops
  <2> QED
    BY <2>2, Zenon
<1>1. CallInv
  <2>1. call \in [Tasks -> Calls]
    BY <1>0, Zenon DEF Init, CallInit
  <2> QED
    BY <2>1, BoundsAssumption DEF Init, CallInit, CallInv, CallTypeOK, Locked, States, MaxAttempts
<1>2. records \subseteq Records(nextId) /\ nextId \in Nat /\ nextId > 0 /\ IdsDiffer(records)
  BY DEF Init, Records, IdsDiffer
<1>3. served \subseteq Values \cup Foreign
  BY DEF Init, ValuesOf
<1>4. provider \in Providers /\ RequestInv
  BY Zenon DEF Init, CallInit, RequestInv
<1> QED
  BY <1>1, <1>2, <1>3, <1>4, Zenon DEF Basic, TypeOK, ServerInv, Records, CallInv, States

LEMMA BasicStep == ASSUME Basic, [Next]_vars PROVE Basic'
<1>0. CallInv'
  BY CallInvStep, Zenon
<1> DEFINE W == \A t \in Tasks : pc[t] = "write" =>
                  Asks(provider, records, nextId, call[t], request[t], todo[t])
           L == /\ \A l \in late : l.call \in Calls /\ IsRequest(provider, records, nextId, l.call, l.req)
                /\ late # {} => provider \in LateWrites
<1>1. /\ ServerInv /\ W /\ L /\ call \in [Tasks -> Calls] /\ deletedAny \in [Tasks -> BOOLEAN]
      /\ pc \in [Tasks -> States]
      /\ request = [t \in Tasks |-> request[t]] /\ todo = [t \in Tasks |-> todo[t]]
  BY Zenon DEF Basic, RequestInv, TypeOK, CallTypeOK, States
<1> DEFINE Rest == ServerInv /\ W /\ L
<1>2. ASSUME NEW t \in Tasks, pc[t] = "write"
      PROVE  call[t] \in Calls /\ IsRequest(provider, records, nextId, call[t], request[t])
  BY <1>1, <1>2, Zenon DEF Asks
<1>3. ASSUME NEW t \in Tasks,
             UNCHANGED serverVars \/ (pc[t] = "write" /\ Apply(request[t])),
             UNCHANGED call, pc'[t] # "write",
             \A u \in Tasks \ {t} : pc'[u] = pc[u] /\ request'[u] = request[u] /\ todo'[u] = todo[u],
             \/ UNCHANGED late
             \/ /\ late' = late \cup {[call |-> call[t], req |-> request[t]]}
                /\ pc[t] = "write" /\ provider \in LateWrites
      PROVE  Rest'
  <2>1. /\ ServerInv' /\ provider' = provider
        /\ \A d, s : IsRequest(provider, records, nextId, d, s) =>
                       IsRequest(provider', records', nextId', d, s)
        /\ \A d, s, rest : Asks(provider, records, nextId, d, s, rest) =>
                             Asks(provider', records', nextId', d, s, rest)
    BY <1>1, <1>2, <1>3, ServerMoves, Zenon
  <2>2. W'
    BY <1>1, <1>3, <2>1, Zenon
  <2>3. L'
    BY <1>1, <1>2, <1>3, <2>1, SMTT(30)
  <2> QED
    BY <2>1, <2>2, <2>3, Zenon
<1>4. ASSUME NEW t \in Tasks, NEW r, NEW rest,
             UNCHANGED serverVars \/ (pc[t] = "write" /\ Apply(request[t])),
             Send(t, r, rest),
             Asks(provider', records', nextId', call[t], r, rest)
      PROVE  Rest'
  <2>1. /\ ServerInv' /\ provider' = provider
        /\ \A d, s : IsRequest(provider, records, nextId, d, s) =>
                       IsRequest(provider', records', nextId', d, s)
        /\ \A d, s, x : Asks(provider, records, nextId, d, s, x) =>
                          Asks(provider', records', nextId', d, s, x)
    BY <1>1, <1>2, <1>4, ServerMoves, Zenon
  <2>2. W'
    <3>1. /\ call' = call /\ request'[t] = r /\ todo'[t] = rest
          /\ \A u \in Tasks \ {t} : pc'[u] = pc[u] /\ request'[u] = request[u] /\ todo'[u] = todo[u]
      BY <1>1, <1>4, Zenon DEF Send, Goto
    <3> QED
      BY <1>1, <1>4, <2>1, <3>1, Zenon
  <2>3. L'
    BY <1>1, <1>4, <2>1, Zenon DEF Send, Goto
  <2> QED
    BY <2>1, <2>2, <2>3, Zenon
<1>5. ASSUME NEW t \in Tasks, ReturnOk(t),
             UNCHANGED serverVars \/ (pc[t] = "write" /\ Apply(request[t]))
      PROVE  Rest'
  <2>1. /\ UNCHANGED <<call, late, request, todo>> /\ pc'[t] # "write"
        /\ \A u \in Tasks \ {t} : pc'[u] = pc[u]
    BY <1>1, <1>5, Zenon DEF ReturnOk, Return, Finish
  <2> HIDE DEF Rest
  <2> QED
    BY <1>3, <1>5, <2>1, Zenon
<1>6. ASSUME NEW t \in Tasks, NEW rest, NEW last, NEW effect,
             UNCHANGED serverVars \/ (pc[t] = "write" /\ Apply(request[t])),
             deletedAny' \in [Tasks -> BOOLEAN], UNCHANGED call,
             \A r \in rest : IsRequest(provider', records', nextId', call[t], r),
             \/ \A r \in rest : r.kind \in {"get", "delete"}
             \/ \E r : rest = {r},
             Proceed(t, rest, last, effect)
      PROVE  Rest'
  <2> DEFINE M == More(call[t], deletedAny'[t], last, rest)
  <2>1. /\ \A r \in M : IsRequest(provider', records', nextId', call[t], r)
        /\ \/ \A r \in M : r.kind \in {"get", "delete"}
           \/ \E r : M = {r}
    <3>1. CASE rest # {}
      BY <1>6, <3>1, Zenon DEF More
    <3>2. CASE rest = {}
      <4>1. \A r \in M : IsRequest(provider, records, nextId, call[t], r)
        BY <1>1, <1>6, <3>2, MoreFacts
      <4>2. M = {} \/ \E r : M = {r}
        BY <3>2, Zenon DEF More
      <4>3. \A r \in M : IsRequest(provider', records', nextId', call[t], r)
        BY <1>1, <1>2, <1>6, <4>1, ServerMoves, Zenon
      <4> QED
        BY <4>2, <4>3, Zenon
    <3> QED
      BY <3>1, <3>2, Zenon
  <2>2. CASE ReturnOk(t)
    BY <1>5, <1>6, <2>2, Zenon
  <2>3. CASE \E r \in M : Send(t, r, M \ {r})
    <3>1. PICK r \in M : Send(t, r, M \ {r})
      BY <2>3, ZenonT(30)
    <3>2. Asks(provider', records', nextId', call[t], r, M \ {r})
      BY <2>1, MoreAsks, Zenon
    <3> HIDE DEF M, Rest
    <3> QED
      BY <1>4, <1>6, <3>1, <3>2, Zenon
  <2> HIDE DEF Rest
  <2> QED
    BY <1>6, <2>2, <2>3, ProceedCases, Zenon
<1> HIDE DEF Rest
<1>7. ASSUME NEW t \in Tasks, Start(t) PROVE Rest'
  <2>1. /\ UNCHANGED <<serverVars, request, todo, late>>
        /\ \A u \in Tasks : pc'[u] = "write" => pc[u] = "write" /\ call'[u] = call[u]
    BY <1>1, <1>7, ZenonT(30) DEF Start, Begin, Resolved, Acquire
  <2> QED
    BY <1>1, <2>1, Zenon DEF Rest, serverVars, ServerInv
<1>8. ASSUME NEW t \in Tasks, Fetch(t) PROVE Rest'
  <2> DEFINE P == Plan(call[t], records)
  <2>1. /\ \A r \in P : IsRequest(provider, records, nextId, call[t], r)
        /\ \/ \A r \in P : r.kind \in {"get", "delete"}
           \/ \E r : P = {r}
    BY <1>1, PlanFacts, ZenonT(90)
  <2>2. UNCHANGED serverVars /\ deletedAny' \in [Tasks -> BOOLEAN] /\ Proceed(t, P, "list", FALSE)
    BY <1>1, <1>8, ZenonT(30) DEF Fetch
  <2>3. UNCHANGED <<provider, records, nextId>>
    BY <2>2, Zenon DEF serverVars
  <2>4. UNCHANGED call
    BY <2>2, Zenon DEF Proceed, ReturnOk, Return, Finish, Send, Goto
  <2> HIDE DEF P
  <2> QED
    BY <1>6, <2>1, <2>2, <2>3, <2>4, Zenon
<1>9. ASSUME NEW t \in Tasks, GetRecord(t) PROVE Rest'
  <2>1. PICK q \in records :
          /\ q.id = request[t].id
          /\ UNCHANGED <<serverVars, deletedAny>>
          /\ \/ Proceed(t, todo[t], "get", FALSE)
             \/ ReturnOk(t)
             \/ /\ q.val = call[t].val /\ call[t].op = "cleanup"
                /\ Send(t, OvhDelete(q.id), todo[t])
    BY <1>9, Zenon DEF GetRecord
  <2>2. /\ pc[t] = "write" /\ UNCHANGED <<provider, records, nextId>>
        /\ \A r \in todo[t] : /\ IsRequest(provider, records, nextId, call[t], r)
                              /\ r.kind \in {"get", "delete"}
    BY <1>1, <1>9, <2>1, Zenon DEF GetRecord, serverVars, Asks
  <2>3. CASE Proceed(t, todo[t], "get", FALSE)
    <3>1. UNCHANGED call
      BY <2>3, Zenon DEF Proceed, ReturnOk, Return, Finish, Send, Goto
    <3> QED
      BY <1>1, <1>6, <2>1, <2>2, <2>3, <3>1, ZenonT(30)
  <2>4. CASE ReturnOk(t)
    BY <1>5, <2>1, <2>4, Zenon
  <2>5. CASE /\ q.val = call[t].val /\ call[t].op = "cleanup"
             /\ Send(t, OvhDelete(q.id), todo[t])
    <3>1. OvhDelete(q.id).kind = "delete" /\ OvhDelete(q.id).id = q.id
      BY Zenon DEF OvhDelete, Delete
    <3>2. Owned(records, nextId, call[t], q.id)
      BY <1>1, <2>5, Zenon DEF Owned, ServerInv, Records, IdsDiffer
    <3>3. IsRequest(provider, records, nextId, call[t], OvhDelete(q.id))
      BY <2>5, <3>1, <3>2, Zenon DEF IsRequest
    <3>4. Asks(provider', records', nextId', call[t], OvhDelete(q.id), todo[t])
      BY <2>2, <3>1, <3>3, Zenon DEF Asks
    <3> QED
      BY <1>4, <2>1, <2>5, <3>4, Zenon
  <2> QED
    BY <2>1, <2>3, <2>4, <2>5, Zenon
<1>10. ASSUME NEW t \in Tasks, GoneStep(t) PROVE Rest'
  <2>1. /\ UNCHANGED <<call, request, todo>> /\ pc'[t] # "write"
        /\ \A u \in Tasks \ {t} : pc'[u] = pc[u]
    BY <1>1, <1>10, Zenon DEF GoneStep, Finish, writeVars
  <2>2. /\ UNCHANGED serverVars \/ (pc[t] = "write" /\ Apply(request[t]))
        /\ \/ UNCHANGED late
           \/ /\ late' = late \cup {[call |-> call[t], req |-> request[t]]}
              /\ pc[t] = "write" /\ provider \in LateWrites
    BY <1>10, Zenon DEF GoneStep, Writing
  <2> QED
    BY <1>3, <2>1, <2>2, Zenon
<1>11. ASSUME NEW t \in Tasks, RetryStep(t) PROVE Rest'
  <2>1. /\ UNCHANGED <<call, request, todo, late>> /\ pc[t] = "write"
        /\ UNCHANGED serverVars \/ Apply(request[t])
        /\ \A u \in Tasks : pc'[u] = pc[u]
    BY <1>1, <1>11, Zenon DEF RetryStep, Writing, Goto
  <2>2. /\ ServerInv' /\ provider' = provider
        /\ \A d, s : IsRequest(provider, records, nextId, d, s) =>
                       IsRequest(provider', records', nextId', d, s)
        /\ \A d, s, x : Asks(provider, records, nextId, d, s, x) =>
                          Asks(provider', records', nextId', d, s, x)
    BY <1>1, <1>2, <2>1, ServerMoves, Zenon
  <2> QED
    BY <1>1, <2>1, <2>2, Zenon DEF Rest
<1>12. ASSUME NEW t \in Tasks, AcceptStep(t) PROVE Rest'
  <2>1. /\ pc[t] = "write" /\ Apply(request[t]) /\ deletedAny' \in [Tasks -> BOOLEAN]
        /\ \E k, e : Proceed(t, todo[t], k, e)
    BY <1>1, <1>12, Zenon DEF AcceptStep, Writing
  <2>2. UNCHANGED call
    BY <2>1, Zenon DEF Proceed, ReturnOk, Return, Finish, Send, Goto
  <2>3. \A r \in todo[t] : /\ IsRequest(provider', records', nextId', call[t], r)
                           /\ r.kind \in {"get", "delete"}
    BY <1>1, <1>2, <2>1, ServerMoves, Zenon DEF Asks
  <2> QED
    BY <1>6, <2>1, <2>2, <2>3, Zenon
<1>13. ASSUME NEW t \in Tasks, WarnStep(t) PROVE Rest'
  <2>1. /\ pc[t] = "write" /\ Apply(request[t]) /\ Send(t, Rollback(nextId), {})
        /\ provider = "porkbun" /\ request[t].kind = "create"
        /\ Matching(records, request[t].val) = {}
    BY <1>13, Zenon DEF WarnStep, Writing
  <2>2. /\ records' = records \cup {[id |-> nextId, val |-> request[t].val]} /\ nextId' = nextId + 1
        /\ provider' = provider
    BY <2>1, Zenon DEF Apply
  <2>3. request[t].val = call[t].val /\ call[t].op = "present"
    BY <1>2, <2>1, Zenon DEF IsRequest
  <2>4. Owned(records', nextId', call[t], nextId)
    BY <1>1, <2>2, <2>3 DEF Owned, ServerInv, Records
  <2>5. /\ Rollback(nextId).kind = "rollback" /\ Rollback(nextId).id = nextId
        /\ Rollback(nextId).method = "POST"
    BY Zenon DEF Rollback
  <2>6. Asks(provider', records', nextId', call[t], Rollback(nextId), {})
    BY <2>1, <2>2, <2>3, <2>4, <2>5, Zenon DEF Asks, IsRequest
  <2> QED
    BY <1>4, <2>1, <2>6, Zenon
<1>14. ASSUME Land PROVE Rest'
  <2>1. PICK l \in late : late' = late \ {l} /\ (Apply(l.req) \/ UNCHANGED serverVars)
    BY <1>14, Zenon DEF Land
  <2>2. l.call \in Calls /\ IsRequest(provider, records, nextId, l.call, l.req)
    BY <1>1, Zenon
  <2>3. /\ ServerInv' /\ provider' = provider
        /\ \A d, s : IsRequest(provider, records, nextId, d, s) =>
                       IsRequest(provider', records', nextId', d, s)
        /\ \A d, s, x : Asks(provider, records, nextId, d, s, x) =>
                          Asks(provider', records', nextId', d, s, x)
    BY <1>1, <2>1, <2>2, ServerMoves, Zenon
  <2>4. UNCHANGED <<pc, call, request, todo>>
    BY <1>14, Zenon DEF Land, writeVars
  <2> QED
    BY <1>1, <2>1, <2>3, <2>4, Zenon DEF Rest
<1>15. ASSUME UNCHANGED vars PROVE Rest'
  BY <1>1, <1>15, Zenon DEF vars, callVars, serverVars, writeVars, Rest, ServerInv
<1>16. Rest'
  BY <1>7, <1>8, <1>9, <1>10, <1>11, <1>12, <1>13, <1>14, <1>15, StepKinds, Zenon
<1> QED
  BY <1>0, <1>16, Zenon DEF Rest, CallInv, Basic, TypeOK, RequestInv, ServerInv, Records, States

(* Types, the lock and the shape of the requests, in every reachable state. *)
LEMMA BasicInvariance == Spec => []Basic
<1>1. Basic /\ [Next]_vars => Basic'
  BY BasicStep, Zenon
<1> QED
  BY BasicInit, <1>1, PTL DEF Spec

-----------------------------------------------------------------------------
(* What other people have is left alone. *)

(* The records change only by a request of a call in progress, or of one given
   up. *)
LEMMA WhoWrites ==
    ASSUME Basic, [Next]_vars
    PROVE  \/ UNCHANGED records
           \/ \E t \in Tasks : /\ pc[t] = "write" /\ call[t] \in Calls /\ Apply(request[t])
                             /\ IsRequest(provider, records, nextId, call[t], request[t])
           \/ \E l \in late : /\ l.call \in Calls /\ Apply(l.req)
                            /\ IsRequest(provider, records, nextId, l.call, l.req)
<1>1. /\ \A t \in Tasks : pc[t] = "write" =>
            call[t] \in Calls /\ IsRequest(provider, records, nextId, call[t], request[t])
      /\ \A l \in late : l.call \in Calls /\ IsRequest(provider, records, nextId, l.call, l.req)
  BY Zenon DEF Basic, TypeOK, CallTypeOK, RequestInv, Asks
<1>2. \/ UNCHANGED records
      \/ \E t \in Tasks : pc[t] = "write" /\ Apply(request[t])
      \/ \E l \in late : Apply(l.req)
  BY StepKinds, ZenonT(30)
     DEF Start, Fetch, GetRecord, GoneStep, RetryStep, AcceptStep, WarnStep, Land, Writing,
     serverVars, vars
<1> QED
  BY <1>1, <1>2, Zenon

(* provider.rs:34, 40: whatever the calls do, and wherever they fail, the
   records that other people keep at the name stay as they are.  A request for
   a record by its id cannot hit somebody else's: ids are not used twice. *)
THEOREM RecordForeignUntouched == Spec => ForeignUntouched
<1>1. ASSUME Basic, [Next]_vars
      PROVE  [{r \in records' : r.val \in Foreign} = {r \in records : r.val \in Foreign}]_vars
  <2>1. CASE UNCHANGED records
    BY <2>1, Zenon
  <2>2. CASE \E c \in Calls : \E r : IsRequest(provider, records, nextId, c, r) /\ Apply(r)
    <3>0. PICK c \in Calls : \E r : IsRequest(provider, records, nextId, c, r) /\ Apply(r)
      BY <2>2, Zenon
    <3>1. PICK r : IsRequest(provider, records, nextId, c, r) /\ Apply(r)
      BY <3>0, Zenon
    <3>2. c.val \notin Foreign
      BY ForeignAssumption, Zenon DEF Calls
    <3>3. /\ \A q \in records' : q \in records \/ q.val = c.val
          /\ \A q \in records : q \in records' \/ q.val = c.val
      BY <1>1, <3>1, ApplyFacts, Zenon DEF Basic
    <3>4. \A q : q.val \in Foreign => (q \in records' <=> q \in records)
      BY <3>2, <3>3, Zenon
    <3>5. {q \in records' : q.val \in Foreign} = {q \in records : q.val \in Foreign}
      BY <3>4, Zenon
    <3> QED
      BY <3>5, Zenon
  <2> QED
    BY <1>1, <2>1, <2>2, WhoWrites, Zenon
<1> QED
  BY BasicInvariance, <1>1, PTL DEF Spec, ForeignUntouched

-----------------------------------------------------------------------------
(* What Ok promises. *)

(* A call c that listed the records with nothing in flight for its value has
   every record with that value ahead of it in its request r and the rest.
   (Bunny's create may be sent again after it took effect.) *)
Ahead(p, recs, waiting, c, r, rest) ==
    /\ \A l \in waiting : l.call.val # c.val
    /\ (c.op = "cleanup" \/ r.kind = "get" \/ (r.kind = "create" /\ p # "bunny"))
         => Covered(recs, c, {r} \cup rest)
    /\ c.op = "present" /\ r.kind = "refresh" => c.val \in ValuesOf(recs)

CoverInv == \A t \in Tasks : pc[t] = "write" /\ sure[t] =>
    Ahead(provider, records, late, call[t], request[t], todo[t])

(* A promise stands as long as nothing is at work on its value. *)
PromiseInv == \A v \in Values : promised[v] # "none" =>
    /\ \A l \in late : l.call.val # v
    /\ \A t \in Tasks : pc[t] \in {"fetch", "write"} => call[t].val # v

StoredInv == CoverInv /\ PromiseInv /\ OkIsStored

(* What a value keeps, as far as records with other values go. *)
LEMMA FrameValue ==
    ASSUME NEW v, NEW recs, NEW recs2, \A q : q.val = v => (q \in recs2 <=> q \in recs)
    PROVE  /\ v \in ValuesOf(recs2) <=> v \in ValuesOf(recs)
           /\ \A c, reqs : c.val = v => (Covered(recs2, c, reqs) <=> Covered(recs, c, reqs))
  BY Zenon DEF ValuesOf, Covered

(* A step of the call that has the lock: nobody else lists or writes, so that
   only the records with its own value, and only its own promise, are at
   stake. *)
LEMMA OwnStep ==
    ASSUME Basic, StoredInv, NEW t \in Tasks, pc[t] \in {"fetch", "write"}, UNCHANGED call,
           \A u \in Tasks \ {t} : pc'[u] = pc[u],
           \A l \in late' : l \in late \/ l.call = call[t],
           \A q : q.val # call[t].val => (q \in records' <=> q \in records),
           \A v \in Values \ {call[t].val} : promised'[v] = promised[v],
           pc'[t] = "write" /\ sure'[t] =>
               Ahead(provider', records', late', call[t], request'[t], todo'[t]),
           promised'[call[t].val] # "none" =>
               /\ pc'[t] \notin {"fetch", "write"}
               /\ \A l \in late' : l.call.val # call[t].val
               /\ promised'[call[t].val] = "present" => call[t].val \in ValuesOf(records')
               /\ promised'[call[t].val] = "absent" => call[t].val \notin ValuesOf(records')
    PROVE  StoredInv'
<1>1. \A u \in Tasks \ {t} : pc'[u] \notin {"fetch", "write"}
  BY Zenon DEF Basic, Locked
<1>2. CoverInv'
  BY <1>1, Zenon DEF CoverInv
<1>3. PromiseInv'
  BY <1>1, Zenon DEF StoredInv, PromiseInv
<1>4. ASSUME NEW v \in Values \ {call[t].val}
      PROVE  promised'[v] = promised[v] /\ (v \in ValuesOf(records') <=> v \in ValuesOf(records))
  BY <1>4, FrameValue, Zenon
<1>5. OkIsStored'
  BY <1>4, Zenon DEF StoredInv, OkIsStored, Kept
<1> QED
  BY <1>2, <1>3, <1>5, Zenon DEF StoredInv

(* A call that is told Ok, sure of what it listed. *)
LEMMA OkStep ==
    ASSUME Basic, StoredInv, NEW t \in Tasks, pc[t] \in {"fetch", "write"}, ReturnOk(t),
           \A q : q.val # call[t].val => (q \in records' <=> q \in records),
           sure'[t] => /\ \A l \in late : l.call.val # call[t].val
                       /\ call[t].op = "present" => call[t].val \in ValuesOf(records')
                       /\ call[t].op = "cleanup" => call[t].val \notin ValuesOf(records')
    PROVE  StoredInv'
<1>1. /\ call[t] \in Calls /\ call[t].val \in Values /\ call[t].op \in {"present", "cleanup"}
      /\ promised \in [Values -> {"none", "present", "absent"}] /\ pc \in [Tasks -> States]
  BY Zenon DEF Basic, TypeOK, CallTypeOK, Calls, Ops, States
<1>2. /\ UNCHANGED <<call, late>> /\ pc'[t] = "idle" /\ \A u \in Tasks \ {t} : pc'[u] = pc[u]
  BY <1>1, Zenon DEF ReturnOk, Return, Finish
<1>3. /\ \A v \in Values \ {call[t].val} : promised'[v] = promised[v]
      /\ promised'[call[t].val] =
            IF ~sure'[t] THEN "none" ELSE IF call[t].op = "present" THEN "present" ELSE "absent"
  BY <1>1, Zenon DEF ReturnOk
<1> QED
  BY <1>1, <1>2, <1>3, OwnStep, Zenon

(* A call that sends its next request, sure of what it listed. *)
LEMMA SendStep ==
    ASSUME Basic, StoredInv, NEW t \in Tasks, pc[t] \in {"fetch", "write"},
           NEW r, NEW rest, Send(t, r, rest),
           \A q : q.val # call[t].val => (q \in records' <=> q \in records),
           sure'[t] => Ahead(provider', records', late, call[t], r, rest)
    PROVE  StoredInv'
<1>1. /\ UNCHANGED <<call, late, promised>> /\ request'[t] = r /\ todo'[t] = rest
      /\ \A u \in Tasks \ {t} : pc'[u] = pc[u]
  BY Zenon DEF Send, Goto, Basic, TypeOK, CallTypeOK, RequestInv
<1>2. promised[call[t].val] = "none"
  BY Zenon DEF StoredInv, PromiseInv, Basic, TypeOK, CallTypeOK, Calls
<1> QED
  BY <1>1, <1>2, OwnStep, Zenon

(* Going on without the request just made, whose record is no longer one with
   the value. *)
LEMMA CoverShrinks ==
    ASSUME NEW recs, NEW recs2, NEW c, NEW r, NEW rest, Covered(recs, c, {r} \cup rest),
           recs2 \subseteq recs,
           \A q \in recs2 : q.val = c.val /\ r.kind \in {"get", "delete"} => q.id # r.id
    PROVE  Covered(recs2, c, rest)
  BY Zenon DEF Covered

(* A call after a request, if it is sure of what it listed: the rest of its
   loop covers the records with its value, or its own record is there. *)
Ongoing(recs, c, last, rest) ==
    \/ c.op = "cleanup" /\ Covered(recs, c, rest)
    \/ /\ c.op = "present" /\ Covered(recs, c, rest)
       /\ rest # {} \/ (provider = "ovh" /\ last \in {"list", "get"})
    \/ /\ c.op = "present" /\ rest = {} /\ c.val \in ValuesOf(recs)
       /\ provider # "ovh" \/ last \in {"create", "refresh"}

(* What is ahead of it then: nothing, and what it promised is so, or one of
   the requests that follow. *)
LEMMA AheadOfMore ==
    ASSUME NEW c \in Calls, NEW deleted \in BOOLEAN, NEW last, NEW rest,
           \A r \in rest : IsRequest(provider, records, nextId, c, r),
           \/ \A r \in rest : r.kind \in {"get", "delete"}
           \/ \E r : rest = {r} /\ r.kind = "create",
           NEW M, M = More(c, deleted, last, rest),
           NEW recs, Ongoing(recs, c, last, rest),
           NEW waiting, \A l \in waiting : l.call.val # c.val
    PROVE  /\ M = {} => /\ c.op = "present" => c.val \in ValuesOf(recs)
                        /\ c.op = "cleanup" => c.val \notin ValuesOf(recs)
           /\ \A r \in M : Ahead(provider, recs, waiting, c, r, M \ {r})
<1>1. /\ rest = {} /\ c.op = "cleanup" => \A r \in M : r.kind = "refresh"
      /\ rest = {} /\ c.op = "present" /\ provider = "ovh" =>
            /\ last = "create" => \A r \in M : r.kind = "refresh"
            /\ last = "refresh" => M = {}
            /\ last \notin {"create", "refresh"} => \E r : M = {r} /\ r.kind = "create"
      /\ rest = {} /\ provider # "ovh" => M = {}
  BY MoreFacts
<1>2. CASE rest # {}
  <2>1. M = rest /\ \A r \in M : r.kind \in {"get", "delete", "create"}
    BY <1>2, Zenon DEF More
  <2>2. Covered(recs, c, M)
    BY <1>2, <2>1, ZenonT(30) DEF Ongoing
  <2>3. ASSUME NEW r \in M PROVE {r} \cup (M \ {r}) = M
    BY Zenon
  <2> QED
    BY <1>2, <2>1, <2>2, <2>3, Zenon DEF Ahead
<1>3. CASE rest = {} /\ Covered(recs, c, {})
  <2>1. c.val \notin ValuesOf(recs)
    BY <1>3, Zenon DEF Covered, ValuesOf
  <2>2. \A reqs : Covered(recs, c, reqs)
    BY <1>3, Zenon DEF Covered
  <2>3. c.op = "present" => provider = "ovh" /\ last \notin {"create", "refresh"}
    BY <1>3, <2>1, Zenon DEF Ongoing
  <2>4. c.op = "present" => \E r : M = {r} /\ r.kind = "create"
    BY <1>1, <1>3, <2>3, Zenon
  <2> QED
    BY <2>1, <2>2, <2>4, Zenon DEF Ahead
<1>4. CASE /\ rest = {} /\ c.op = "present" /\ c.val \in ValuesOf(recs)
           /\ provider # "ovh" \/ last \in {"create", "refresh"}
  <2>1. \A r \in M : r.kind = "refresh"
    BY <1>1, <1>4, Zenon
  <2> QED
    BY <1>4, <2>1, ZenonT(30) DEF Ahead
<1> QED
  BY <1>2, <1>3, <1>4, ZenonT(30) DEF Ongoing

(* The step from a request to what follows it. *)
LEMMA ProceedStep ==
    ASSUME Basic, StoredInv, NEW t \in Tasks, pc[t] \in {"fetch", "write"},
           NEW rest, NEW last, NEW effect, Proceed(t, rest, last, effect),
           deletedAny' \in [Tasks -> BOOLEAN], UNCHANGED provider,
           \A q : q.val # call[t].val => (q \in records' <=> q \in records),
           \A r \in rest : IsRequest(provider, records, nextId, call[t], r),
           \/ \A r \in rest : r.kind \in {"get", "delete"}
           \/ \E r : rest = {r} /\ r.kind = "create",
           sure'[t] => /\ \A l \in late : l.call.val # call[t].val
                       /\ Ongoing(records', call[t], last, rest)
    PROVE  StoredInv'
<1>1. call[t] \in Calls /\ deletedAny'[t] \in BOOLEAN
  BY Zenon DEF Basic, TypeOK, CallTypeOK
<1>2. PICK M : M = More(call[t], deletedAny'[t], last, rest)
  BY Zenon
<1>3. sure'[t] => /\ M = {} => /\ call[t].op = "present" => call[t].val \in ValuesOf(records')
                               /\ call[t].op = "cleanup" => call[t].val \notin ValuesOf(records')
                  /\ \A r \in M : Ahead(provider', records', late, call[t], r, M \ {r})
  <2> HAVE sure'[t]
  <2>1. PICK recs, waiting : recs = records' /\ waiting = late
    BY Zenon
  <2>2. Ongoing(recs, call[t], last, rest) /\ \A l \in waiting : l.call.val # call[t].val
    BY <2>1, Zenon
  <2>3. /\ M = {} => /\ call[t].op = "present" => call[t].val \in ValuesOf(recs)
                     /\ call[t].op = "cleanup" => call[t].val \notin ValuesOf(recs)
        /\ \A r \in M : Ahead(provider, recs, waiting, call[t], r, M \ {r})
    BY <1>1, <1>2, <2>2, AheadOfMore, Zenon
  <2> QED
    BY <2>1, <2>3, Zenon
<1>4. CASE M = {} /\ ReturnOk(t)
  BY <1>3, <1>4, OkStep, ZenonT(30)
<1>5. CASE \E r \in M : Send(t, r, M \ {r})
  BY <1>3, <1>5, SendStep, ZenonT(30)
<1>6. (M = {} /\ ReturnOk(t)) \/ \E r \in M : Send(t, r, M \ {r})
  BY <1>2, Zenon DEF Proceed, More
<1> QED
  BY <1>4, <1>5, <1>6, Zenon

LEMMA StoredStep == ASSUME Basic, StoredInv, [Next]_vars PROVE StoredInv'
<1>0. /\ ServerInv /\ call \in [Tasks -> Calls] /\ deletedAny \in [Tasks -> BOOLEAN]
      /\ pc \in [Tasks -> States] /\ sure \in [Tasks -> BOOLEAN]
      /\ promised \in [Values -> {"none", "present", "absent"}]
      /\ \A t \in Tasks : pc[t] = "write" =>
            Asks(provider, records, nextId, call[t], request[t], todo[t])
      /\ \A l \in late : l.call \in Calls /\ IsRequest(provider, records, nextId, l.call, l.req)
  BY Zenon DEF Basic, TypeOK, CallTypeOK, RequestInv, States
<1>1. ASSUME NEW t \in Tasks, pc[t] = "write", Apply(request[t])
      PROVE  /\ \A q : q.val # call[t].val => (q \in records' <=> q \in records)
             /\ provider' = provider
             /\ request[t].kind = "create" => call[t].val \in ValuesOf(records')
             /\ request[t].kind = "delete" => records' = {q \in records : q.id # request[t].id}
             /\ request[t].kind = "refresh" => records' = records
  BY <1>0, <1>1, ApplyFacts, Zenon DEF Asks
<1>2. ASSUME NEW t \in Tasks, pc[t] = "write", sure[t]
      PROVE  Ahead(provider, records, late, call[t], request[t], todo[t])
  BY <1>2, Zenon DEF StoredInv, CoverInv
<1>3. ASSUME NEW t \in Tasks, pc[t] \in {"fetch", "write"} PROVE promised[call[t].val] = "none"
  BY <1>0, <1>3, Zenon DEF StoredInv, PromiseInv, Calls
<1>4. ASSUME NEW t \in Tasks, Start(t) PROVE StoredInv'
  <2>1. /\ UNCHANGED <<serverVars, request, todo, late, sure>>
        /\ \A u \in Tasks : pc'[u] = "write" => pc[u] = "write" /\ call'[u] = call[u]
    BY <1>0, <1>4, ZenonT(30) DEF Start, Begin, Resolved, Acquire
  <2>2. CoverInv'
    BY <2>1, ZenonT(30) DEF StoredInv, CoverInv, serverVars
  <2>3. \A v \in Values : promised'[v] # "none" => promised'[v] = promised[v]
    BY <1>0, <1>4, Zenon DEF Start
  <2>4. PromiseInv'
    <3>1. \A u \in Tasks : pc'[u] \in {"fetch", "write"} =>
             /\ call'[u] = call[u]
             /\ pc[u] \in {"fetch", "write"} \/ promised'[call[u].val] = "none"
      BY <1>0, <1>4, ZenonT(30) DEF Start, Begin, Resolved, Acquire, Calls
    <3> QED
      BY <2>1, <2>3, <3>1 DEF StoredInv, PromiseInv
  <2>5. OkIsStored'
    BY <2>1, <2>3, Zenon DEF StoredInv, OkIsStored, Kept, serverVars
  <2> QED
    BY <2>2, <2>4, <2>5, ZenonT(30) DEF StoredInv
<1>5. ASSUME NEW t \in Tasks, Fetch(t) PROVE StoredInv'
  <2> DEFINE P == Plan(call[t], records)
  <2>1. /\ pc[t] = "fetch" /\ UNCHANGED serverVars /\ deletedAny' \in [Tasks -> BOOLEAN]
        /\ Proceed(t, P, "list", FALSE)
        /\ sure'[t] => \A l \in late : l.call.val # call[t].val
    BY <1>0, <1>5, ZenonT(30) DEF Fetch
  <2>2. UNCHANGED <<provider, records, nextId>>
    BY <2>1, Zenon DEF serverVars
  <2>3. /\ \A r \in P : IsRequest(provider, records, nextId, call[t], r)
        /\ \/ \A r \in P : r.kind \in {"get", "delete"}
           \/ \E r : P = {r} /\ r.kind = "create"
        /\ call[t].op = "cleanup" \/ provider = "ovh" \/ P # {} => Covered(records, call[t], P)
        /\ call[t].op = "present" /\ provider # "ovh" /\ P = {} => call[t].val \in ValuesOf(records)
    BY <1>0, PlanFacts, ZenonT(30)
  <2>4. call[t].op \in {"present", "cleanup"}
    BY <1>0, Zenon DEF Calls, Ops
  <2>5. Ongoing(records', call[t], "list", P)
    BY <2>2, <2>3, <2>4, Zenon DEF Ongoing
  <2> HIDE DEF P
  <2> QED
    BY <2>1, <2>2, <2>3, <2>5, ProceedStep, Zenon
<1>6. ASSUME NEW t \in Tasks, GetRecord(t) PROVE StoredInv'
  <2>1. PICK q \in records :
          /\ q.id = request[t].id
          /\ UNCHANGED <<serverVars, deletedAny, sure>>
          /\ \/ q.val # call[t].val /\ Proceed(t, todo[t], "get", FALSE)
             \/ q.val = call[t].val /\ call[t].op = "present" /\ ReturnOk(t)
             \/ /\ q.val = call[t].val /\ call[t].op = "cleanup"
                /\ Send(t, OvhDelete(q.id), todo[t])
    BY <1>6, ZenonT(30) DEF GetRecord
  <2>2. /\ pc[t] = "write" /\ request[t].kind = "get" /\ UNCHANGED <<provider, records, nextId>>
        /\ call[t].op \in {"present", "cleanup"}
    BY <1>0, <1>6, <2>1, ZenonT(30) DEF GetRecord, serverVars, Calls, Ops
  <2>3. provider = "ovh"
    BY <1>0, <2>2, Zenon DEF Asks, IsRequest
  <2>4. sure[t] => /\ \A l \in late : l.call.val # call[t].val
                   /\ Covered(records, call[t], {request[t]} \cup todo[t])
    BY <1>2, <2>2, ZenonT(30) DEF Ahead
  <2>5. CASE q.val # call[t].val /\ Proceed(t, todo[t], "get", FALSE)
    <3>1. sure[t] => Covered(records, call[t], todo[t])
      <4>1. \A s \in records : s.val = call[t].val => s.id # request[t].id
        BY <1>0, <2>1, <2>5, Zenon DEF ServerInv, IdsDiffer
      <4> QED
        BY <2>4, <4>1, CoverShrinks, ZenonT(30)
    <3>2. \A r \in todo[t] : /\ IsRequest(provider, records, nextId, call[t], r)
                             /\ r.kind \in {"get", "delete"}
      BY <1>0, <2>2, Zenon DEF Asks
    <3>3. sure'[t] => /\ \A l \in late : l.call.val # call[t].val
                      /\ Ongoing(records', call[t], "get", todo[t])
      BY <2>1, <2>2, <2>3, <2>4, <3>1, Zenon DEF Ongoing
    <3> QED
      BY <1>0, <2>1, <2>2, <2>5, <3>2, <3>3, ProceedStep, ZenonT(30)
  <2>6. CASE q.val = call[t].val /\ call[t].op = "present" /\ ReturnOk(t)
    <3>1. call[t].val \in ValuesOf(records)
      BY <2>6, Zenon DEF ValuesOf
    <3> QED
      BY <2>1, <2>2, <2>4, <2>6, <3>1, OkStep, Zenon
  <2>7. CASE /\ q.val = call[t].val /\ call[t].op = "cleanup"
             /\ Send(t, OvhDelete(q.id), todo[t])
    <3>1. OvhDelete(q.id).kind = "delete" /\ OvhDelete(q.id).id = request[t].id
      BY <2>1, ZenonT(30) DEF OvhDelete, Delete
    <3>2. sure[t] => Covered(records, call[t], {OvhDelete(q.id)} \cup todo[t])
      BY <2>4, <3>1, SMTT(30) DEF Covered
    <3>3. sure[t] => Ahead(provider, records, late, call[t], OvhDelete(q.id), todo[t])
      BY <2>4, <2>7, <3>2, Zenon DEF Ahead
    <3> QED
      BY <2>1, <2>2, <2>7, <3>3, SendStep, Zenon
  <2> QED
    BY <2>1, <2>5, <2>6, <2>7, Zenon
<1>7. ASSUME NEW t \in Tasks, GoneStep(t) PROVE StoredInv'
  <2>1. /\ UNCHANGED <<call, request, todo, sure, promised>> /\ pc'[t] = "idle"
        /\ \A u \in Tasks \ {t} : pc'[u] = pc[u]
    BY <1>0, <1>7, Zenon DEF GoneStep, Finish, writeVars
  <2>2. CASE pc[t] \in {"fetch", "write"}
    <3>1. \A q : q.val # call[t].val => (q \in records' <=> q \in records)
      BY <1>1, <1>7, Zenon DEF GoneStep, Writing, serverVars
    <3>2. \A l \in late' : l \in late \/ l.call = call[t]
      BY <1>7 DEF GoneStep
    <3> QED
      BY <1>3, <2>1, <2>2, <3>1, <3>2, OwnStep, Zenon
  <2>3. CASE pc[t] \notin {"fetch", "write"}
    <3>1. UNCHANGED <<late, records, provider>>
      BY <1>7, <2>3, Zenon DEF GoneStep, Writing, serverVars
    <3> QED
      BY <2>1, <3>1, Zenon DEF StoredInv, CoverInv, PromiseInv, OkIsStored, Kept
  <2> QED
    BY <2>2, <2>3, Zenon
<1>8. ASSUME NEW t \in Tasks, RetryStep(t) PROVE StoredInv'
  <2>1. /\ pc[t] = "write" /\ pc'[t] = "write"
        /\ UNCHANGED <<call, request, todo, sure, promised, late>>
        /\ \A u \in Tasks \ {t} : pc'[u] = pc[u]
    BY <1>0, <1>8, ZenonT(30) DEF RetryStep, Writing, Goto
  <2>2. CASE UNCHANGED serverVars
    BY <1>2, <1>3, <2>1, <2>2, OwnStep, ZenonT(30) DEF serverVars
  <2>3. CASE IsIdempotent(request[t].method) /\ Apply(request[t])
    <3>1. sure[t] => Ahead(provider', records', late, call[t], request[t], todo[t])
      <4> HAVE sure[t]
      <4>1. Ahead(provider, records, late, call[t], request[t], todo[t])
        BY <1>2, <2>1, Zenon
      <4>2. \/ request[t].kind = "create" /\ provider = "bunny" /\ call[t].op = "present"
            \/ request[t].kind \in {"delete", "refresh"}
        BY <1>0, <1>8, <2>1, <2>3, ZenonT(30) DEF Asks, IsRequest, IsIdempotent, RetryStep, Writing
      <4>3. CASE request[t].kind = "create" /\ provider = "bunny" /\ call[t].op = "present"
        BY <1>1, <2>1, <2>3, <4>1, <4>3, ZenonT(30) DEF Ahead
      <4>4. CASE request[t].kind = "refresh"
        BY <1>1, <2>1, <2>3, <4>1, <4>4, Zenon DEF Ahead
      <4>5. CASE request[t].kind = "delete"
        <5>1. records' \subseteq records
          BY <1>1, <2>1, <2>3, <4>5, Zenon
        <5>2. \A reqs : Covered(records, call[t], reqs) => Covered(records', call[t], reqs)
          BY <5>1, Zenon DEF Covered
        <5> QED
          BY <4>1, <4>5, <5>2, Zenon DEF Ahead
      <4> QED
        BY <4>2, <4>3, <4>4, <4>5, ZenonT(30)
    <3> QED
      BY <1>1, <1>3, <2>1, <2>3, <3>1, OwnStep, ZenonT(30)
  <2> QED
    BY <1>8, <2>2, <2>3, Zenon DEF RetryStep
<1>9. ASSUME NEW t \in Tasks, AcceptStep(t) PROVE StoredInv'
  <2> DEFINE c == call[t]
  <2>1. /\ pc[t] = "write" /\ Apply(request[t]) /\ deletedAny' \in [Tasks -> BOOLEAN]
        /\ request[t].kind \notin {"get", "rollback"} /\ UNCHANGED sure
        /\ \E e : Proceed(t, todo[t], request[t].kind, e)
    BY <1>0, <1>9, ZenonT(30) DEF AcceptStep, Writing
  <2>2. /\ IsRequest(provider, records, nextId, c, request[t]) /\ c.op \in {"present", "cleanup"}
        /\ \A r \in todo[t] : /\ IsRequest(provider, records, nextId, c, r)
                              /\ r.kind \in {"get", "delete"}
        /\ request[t].kind \notin {"get", "delete"} => todo[t] = {}
    BY <1>0, <2>1, Zenon DEF Asks, Calls, Ops
  <2>3. sure[t] => /\ \A l \in late : l.call.val # c.val
                   /\ c.op = "cleanup" => Covered(records', c, todo[t])
                   /\ c.op = "present" => /\ todo[t] = {} /\ request[t].kind \in {"create", "refresh"}
                                          /\ c.val \in ValuesOf(records')
    <3> HAVE sure[t]
    <3>1. Ahead(provider, records, late, c, request[t], todo[t])
      BY <1>2, <2>1, Zenon
    <3>2. CASE c.op = "cleanup"
      <4>1. request[t].kind \in {"delete", "refresh"}
        BY <2>1, <2>2, <3>2, Zenon DEF IsRequest
      <4>2. /\ records' \subseteq records
            /\ \A q \in records' : request[t].kind \in {"get", "delete"} => q.id # request[t].id
        BY <1>1, <2>1, <4>1, Zenon
      <4>3. Covered(records, c, {request[t]} \cup todo[t])
        BY <3>1, <3>2, Zenon DEF Ahead
      <4>4. Covered(records', c, todo[t])
        BY <4>2, <4>3, CoverShrinks, ZenonT(30)
      <4> QED
        BY <3>1, <3>2, <4>4, Zenon DEF Ahead
    <3>3. CASE c.op = "present"
      <4>1. request[t].kind \in {"create", "refresh"} /\ todo[t] = {}
        BY <2>1, <2>2, <3>3, Zenon DEF IsRequest
      <4>2. c.val \in ValuesOf(records')
        BY <1>1, <2>1, <3>1, <3>3, <4>1, Zenon DEF Ahead
      <4> QED
        BY <3>1, <3>3, <4>1, <4>2, Zenon DEF Ahead
    <3> QED
      BY <2>2, <3>2, <3>3, Zenon
  <2>4. /\ \A q : q.val # c.val => (q \in records' <=> q \in records)
        /\ UNCHANGED provider
    BY <1>1, <2>1, Zenon
  <2>5. PICK e : Proceed(t, todo[t], request[t].kind, e)
    BY <2>1, Zenon
  <2>6. sure'[t] => /\ \A l \in late : l.call.val # c.val
                    /\ Ongoing(records', c, request[t].kind, todo[t])
    BY <2>1, <2>2, <2>3, Zenon DEF Ongoing
  <2> QED
    BY <2>1, <2>2, <2>4, <2>5, <2>6, ProceedStep, ZenonT(30)
<1>10. ASSUME NEW t \in Tasks, WarnStep(t) PROVE StoredInv'
  <2>1. /\ pc[t] = "write" /\ Apply(request[t]) /\ Send(t, Rollback(nextId), {}) /\ UNCHANGED sure
        /\ request[t].kind = "create"
    BY <1>10, Zenon DEF WarnStep, Writing
  <2>2. Rollback(nextId).kind = "rollback" /\ call[t].op = "present"
    BY <1>0, <2>1, ZenonT(30) DEF Rollback, Asks, IsRequest
  <2>3. sure[t] => Ahead(provider', records', late, call[t], Rollback(nextId), {})
    BY <1>2, <2>1, <2>2, Zenon DEF Ahead
  <2> QED
    BY <1>1, <2>1, <2>3, SendStep, ZenonT(30)
<1>11. ASSUME Land PROVE StoredInv'
  <2>1. PICK l \in late : late' = late \ {l} /\ (Apply(l.req) \/ UNCHANGED serverVars)
    BY <1>11, Zenon DEF Land
  <2>2. UNCHANGED <<pc, call, request, todo, sure, promised>>
    BY <1>11, ZenonT(30) DEF Land, writeVars
  <2>3. /\ \A q : q.val # l.call.val => (q \in records' <=> q \in records)
        /\ provider' = provider
    BY <1>0, <2>1, ApplyFacts, Zenon DEF serverVars
  <2>4. ASSUME NEW v, v # l.call.val
        PROVE  /\ v \in ValuesOf(records') <=> v \in ValuesOf(records)
               /\ \A c, reqs : c.val = v => (Covered(records', c, reqs) <=> Covered(records, c, reqs))
    BY <2>3, <2>4, FrameValue, Zenon
  <2>5. CoverInv'
    <3> SUFFICES ASSUME NEW t \in Tasks, pc[t] = "write", sure[t]
                 PROVE  Ahead(provider', records', late', call[t], request[t], todo[t])
      BY <2>2, Zenon DEF CoverInv
    <3>1. Ahead(provider, records, late, call[t], request[t], todo[t])
      BY <1>2, Zenon
    <3>2. call[t].val # l.call.val
      BY <3>1, Zenon DEF Ahead
    <3> QED
      BY <2>1, <2>3, <2>4, <3>1, <3>2, Zenon DEF Ahead
  <2>6. PromiseInv'
    BY <2>1, <2>2, Zenon DEF StoredInv, PromiseInv
  <2>7. OkIsStored'
    BY <2>2, <2>4, Zenon DEF StoredInv, OkIsStored, Kept, PromiseInv
  <2> QED
    BY <2>5, <2>6, <2>7, Zenon DEF StoredInv
<1>12. ASSUME UNCHANGED vars PROVE StoredInv'
  BY <1>12, Zenon
     DEF vars, callVars, serverVars, writeVars, StoredInv, CoverInv, PromiseInv, OkIsStored, Kept
<1> QED
  BY <1>4, <1>5, <1>6, <1>7, <1>8, <1>9, <1>10, <1>11, <1>12, StepKinds, Zenon

LEMMA StoredInvariance == Spec => []StoredInv
<1>1. Init => StoredInv
  BY Zenon DEF Init, CallInit, StoredInv, CoverInv, PromiseInv, OkIsStored, Kept
<1>2. Basic /\ StoredInv /\ [Next]_vars => StoredInv'
  BY StoredStep, Zenon
<1> QED
  BY BasicInvariance, <1>1, <1>2, PTL DEF Spec

(* provider.rs:32, 39: after Ok from `present` the value is in the zone, and
   after Ok from `cleanup` it is not, whatever failed before, with every
   provider of the family, late requests included. *)
THEOREM RecordOkIsStored == Spec => []OkIsStored
<1>1. StoredInv => OkIsStored
  BY Zenon DEF StoredInv
<1> QED
  BY StoredInvariance, <1>1, PTL

-----------------------------------------------------------------------------
(* One record per value. *)

(* The provider gets no late requests, or refuses a second record. *)
Shielded == provider \in LateWrites => provider \in RefusesDuplicates

(* With nothing in flight, a call is sure of what it listed. *)
SureInv == provider \notin LateWrites => \A t \in Tasks : pc[t] = "write" => sure[t]

OneEach(recs) == \A q \in recs, r \in recs : q.val = r.val /\ q.val \in Values => q = r

OneInv == provider # "bunny" => OneEach(records)

LEMMA SureStep == ASSUME Basic, SureInv, [Next]_vars PROVE SureInv' /\ UNCHANGED provider
<1>0. pc \in [Tasks -> States] /\ sure \in [Tasks -> BOOLEAN] /\ (late # {} => provider \in LateWrites)
  BY Zenon DEF Basic, TypeOK, CallTypeOK, RequestInv, States
<1>1. UNCHANGED provider
  BY StepKinds, ZenonT(30)
     DEF Start, Fetch, GetRecord, GoneStep, RetryStep, AcceptStep, WarnStep, Land, Apply,
     serverVars, vars
<1>2. ASSUME NEW t \in Tasks, Fetch(t) PROVE SureInv'
  <2>1. /\ sure'[t] = (\A l \in late : l.call.val # call[t].val)
        /\ \A u \in Tasks \ {t} : sure'[u] = sure[u]
    BY <1>0, <1>2, Zenon DEF Fetch
  <2>2. \A u \in Tasks \ {t} : pc'[u] = pc[u]
    BY <1>0, <1>2, ZenonT(30) DEF Fetch, Proceed, ReturnOk, Return, Finish, Send, Goto
  <2> QED
    BY <1>0, <1>1, <2>1, <2>2, Zenon DEF SureInv
<1>3. ASSUME UNCHANGED sure, \A u \in Tasks : pc'[u] = "write" => pc[u] = "write" PROVE SureInv'
  BY <1>1, <1>3, ZenonT(30) DEF SureInv
<1>4. ASSUME NEW t \in Tasks, Start(t) \/ GoneStep(t) \/ RetryStep(t) \/ WarnStep(t)
      PROVE  UNCHANGED sure /\ \A u \in Tasks : pc'[u] = "write" => pc[u] = "write"
  BY <1>0, <1>4, Zenon DEF Start, Begin, Resolved, Acquire, GoneStep, Finish, RetryStep, WarnStep, Writing,
     Send, Goto, writeVars
<1>5. ASSUME NEW t \in Tasks, GetRecord(t) \/ AcceptStep(t)
      PROVE  UNCHANGED sure /\ \A u \in Tasks : pc'[u] = "write" => pc[u] = "write"
  <2>1. /\ pc[t] = "write" /\ UNCHANGED sure
        /\ \/ \E rest, last, effect : Proceed(t, rest, last, effect)
           \/ ReturnOk(t)
           \/ \E r, rest : Send(t, r, rest)
    BY <1>5, ZenonT(30) DEF GetRecord, AcceptStep, Writing
  <2>2. ReturnOk(t) \/ \E r, rest : Send(t, r, rest)
    BY <2>1, Zenon DEF Proceed
  <2> QED
    BY <1>0, <2>1, <2>2, ZenonT(30) DEF ReturnOk, Return, Finish, Send, Goto
<1>6. ASSUME Land \/ UNCHANGED vars
      PROVE  UNCHANGED sure /\ \A u \in Tasks : pc'[u] = "write" => pc[u] = "write"
  BY <1>6, Zenon DEF Land, vars, callVars, writeVars
<1> QED
  BY <1>1, <1>2, <1>3, <1>4, <1>5, <1>6, StepKinds, Zenon

LEMMA OneStep ==
    ASSUME Basic, StoredInv, SureInv, Shielded, OneInv, [Next]_vars
    PROVE  Shielded' /\ OneInv'
<1>0. ServerInv /\ UNCHANGED provider /\ (late # {} => provider \in LateWrites)
  BY SureStep, Zenon DEF Basic, RequestInv
<1>1. ASSUME NEW c \in Calls, NEW r, IsRequest(provider, records, nextId, c, r), Apply(r),
             r.kind = "create" =>
                \/ provider \in RefusesDuplicates \cup {"bunny"}
                \/ c.val \notin ValuesOf(records)
      PROVE  OneInv'
  <2>1. CASE r.kind # "create"
    <3>1. records' \subseteq records
      BY <1>0, <1>1, <2>1, ApplyFacts, Zenon
    <3> QED
      BY <1>0, <3>1, Zenon DEF OneInv, OneEach
  <2>2. CASE r.kind = "create" /\ provider # "bunny"
    <3>1. r.val = c.val
      BY <1>1, <2>2, Zenon DEF IsRequest
    <3>2. CASE UNCHANGED records
      BY <1>0, <3>2, Zenon DEF OneInv, OneEach
    <3>3. CASE /\ records' = records \cup {[id |-> nextId, val |-> r.val]}
               /\ provider \in RefusesDuplicates => Matching(records, r.val) = {}
      <4>1. \A q \in records : q.val # r.val
        BY <1>1, <2>2, <3>1, <3>3, Zenon DEF Matching, ValuesOf
      <4> QED
        BY <1>0, <3>3, <4>1 DEF OneInv, OneEach
    <3> QED
      BY <1>1, <2>2, <3>2, <3>3, Zenon DEF Apply
  <2>3. CASE provider = "bunny"
    BY <1>0, <2>3, Zenon DEF OneInv
  <2> QED
    BY <2>1, <2>2, <2>3, Zenon
<1>2. ASSUME UNCHANGED records PROVE OneInv'
  BY <1>0, <1>2, Zenon DEF OneInv, OneEach
<1>3. ASSUME NEW t \in Tasks, pc[t] = "write", call[t] \in Calls, Apply(request[t]),
             IsRequest(provider, records, nextId, call[t], request[t])
      PROVE  OneInv'
  <2>1. request[t].kind = "create" =>
           \/ provider \in RefusesDuplicates \cup {"bunny"}
           \/ call[t].val \notin ValuesOf(records)
    <3> SUFFICES ASSUME request[t].kind = "create", provider # "bunny", provider \notin RefusesDuplicates
                 PROVE  call[t].val \notin ValuesOf(records)
      BY Zenon
    <3>1. sure[t] /\ todo[t] = {}
      BY <1>3, Zenon DEF Shielded, SureInv, Basic, RequestInv, Asks
    <3>2. Covered(records, call[t], {request[t]} \cup todo[t])
      BY <1>3, <3>1, Zenon DEF StoredInv, CoverInv, Ahead
    <3> QED
      BY <3>1, <3>2, Zenon DEF Covered, ValuesOf
  <2> QED
    BY <1>1, <1>3, <2>1, Zenon
<1>4. ASSUME NEW l \in late, l.call \in Calls, Apply(l.req),
             IsRequest(provider, records, nextId, l.call, l.req)
      PROVE  OneInv'
  <2>1. provider \in RefusesDuplicates
    BY <1>0, Zenon DEF Shielded
  <2> QED
    BY <1>1, <1>4, <2>1, Zenon
<1>5. Shielded'
  BY <1>0, Zenon DEF Shielded
<1> QED
  BY <1>2, <1>3, <1>4, <1>5, WhoWrites, Zenon

LEMMA OneInvariance == Spec /\ Shielded => []SureInv /\ []Shielded /\ []OneInv
<1>1. Init => SureInv /\ OneInv
  <2> SUFFICES ASSUME Init PROVE SureInv /\ OneInv
    BY Zenon
  <2>1. SureInv
    BY Zenon DEF Init, CallInit, SureInv
  <2>2. OneEach(records)
    BY Zenon DEF Init, OneEach
  <2> QED
    BY <2>1, <2>2, Zenon DEF OneInv
<1>2. Basic /\ SureInv /\ [Next]_vars => SureInv'
  BY SureStep, Zenon
<1>3. Basic /\ StoredInv /\ SureInv /\ Shielded /\ OneInv /\ [Next]_vars => Shielded' /\ OneInv'
  BY OneStep, Zenon
<1> QED
  BY BasicInvariance, StoredInvariance, <1>1, <1>2, <1>3, PTL DEF Spec

(* ovh.rs:391-393, infomaniak.rs:260, porkbun.rs:218: with every provider but
   Bunny, whatever fails, there is at most one record per value, as long as
   late requests are only met by an API that refuses duplicates. *)
THEOREM RecordOnePerValue == Spec /\ Shielded => []OneRecordPerValue
<1>1. OneInv => OneRecordPerValue
  BY Zenon DEF OneInv, OneEach, Matching, OneRecordPerValue, NoDuplicate
<1> QED
  BY OneInvariance, <1>1, PTL

-----------------------------------------------------------------------------
(* The providers implement TxtRecord. *)

(* Which calls had their effect.  The APIs that refuse a second record have one
   record for cleanup to delete; when it is gone, the cleanup has nothing left
   to do. *)
DoneInv == \A t \in Tasks :
    /\ pc[t] # "write" => ~done[t]
    /\ pc[t] = "write" /\ request[t].kind = "rollback" => done[t]
    /\ pc[t] = "write" /\ call[t].op = "cleanup" /\ provider \in RefusesDuplicates =>
          /\ todo[t] = {} /\ request[t].kind = "delete"
          /\ ~done[t] => \E q \in records : q.id = request[t].id

RefineInv == Basic /\ StoredInv /\ SureInv /\ Shielded /\ OneInv /\ DoneInv

(* With one record per value, the request takes the last one away. *)
LEMMA LastRecord ==
    ASSUME Basic, OneInv, provider \in RefusesDuplicates, NEW c \in Calls, NEW q \in records,
           q.val = c.val, records' \subseteq records, q \notin records'
    PROVE  c.val \notin ValuesOf(records')
<1>1. provider # "bunny" /\ c.val \in Values
  BY Zenon DEF RefusesDuplicates, Calls
<1> QED
  BY <1>1, Zenon DEF OneInv, OneEach, ValuesOf

(* Of the steps of another call, only Land can disturb it. *)
LEMMA DoneStep == ASSUME RefineInv, [Next]_vars PROVE DoneInv'
<1>0. /\ Basic /\ ServerInv /\ OneInv /\ DoneInv /\ call \in [Tasks -> Calls]
      /\ deletedAny \in [Tasks -> BOOLEAN]
      /\ pc \in [Tasks -> States] /\ done \in [Tasks -> BOOLEAN]
      /\ request = [t \in Tasks |-> request[t]] /\ todo = [t \in Tasks |-> todo[t]]
      /\ \A t \in Tasks : pc[t] = "write" =>
            lock = t /\ Asks(provider, records, nextId, call[t], request[t], todo[t])
      /\ \A l \in late : l.call \in Calls /\ IsRequest(provider, records, nextId, l.call, l.req)
  BY Zenon DEF RefineInv, Basic, TypeOK, CallTypeOK, RequestInv, States, Locked
<1>1. UNCHANGED provider
  BY SureStep, Zenon DEF RefineInv
<1> DEFINE D(t) == /\ pc[t] # "write" => ~done[t]
                   /\ pc[t] = "write" /\ request[t].kind = "rollback" => done[t]
                   /\ pc[t] = "write" /\ call[t].op = "cleanup" /\ provider \in RefusesDuplicates =>
                         /\ todo[t] = {} /\ request[t].kind = "delete"
                         /\ ~done[t] => \E q \in records : q.id = request[t].id
<1>2. ASSUME NEW t \in Tasks, pc[t] # "idle",
             \A u \in Tasks \ {t} : /\ pc'[u] = pc[u] /\ done'[u] = done[u] /\ call'[u] = call[u]
                                    /\ request'[u] = request[u] /\ todo'[u] = todo[u],
             pc[t] = "write" \/ UNCHANGED records,
             D(t)'
      PROVE  DoneInv'
  <2>1. ASSUME NEW u \in Tasks \ {t} PROVE D(u)'
    <3>1. pc[u] = "write" => UNCHANGED records
      BY <1>0, <1>2, Zenon
    <3> QED
      BY <1>0, <1>1, <1>2, <3>1, ZenonT(90) DEF DoneInv
  <2> QED
    BY <1>2, <2>1, ZenonT(30) DEF DoneInv
<1>3. ASSUME NEW t \in Tasks, pc[t] # "idle", NEW res, Finish(t, res), UNCHANGED <<request, todo>>,
             pc[t] = "write" \/ UNCHANGED records
      PROVE  DoneInv'
  <2>1. pc'[t] = "idle" /\ ~done'[t]
    BY <1>0, <1>3, Zenon DEF Finish
  <2>2. \A u \in Tasks \ {t} : /\ pc'[u] = pc[u] /\ done'[u] = done[u] /\ call'[u] = call[u]
                               /\ request'[u] = request[u] /\ todo'[u] = todo[u]
    BY <1>0, <1>3, Zenon DEF Finish
  <2> QED
    BY <1>2, <1>3, <2>1, <2>2, Zenon
<1>4. ASSUME NEW t \in Tasks, pc[t] # "idle", NEW r, NEW rest, Send(t, r, rest),
             pc[t] = "write" \/ UNCHANGED records,
             NEW d, done' = [done EXCEPT ![t] = d],
             r.kind = "rollback" => d,
             call[t].op = "cleanup" /\ provider \in RefusesDuplicates =>
                 rest = {} /\ r.kind = "delete" /\ \E q \in records' : q.id = r.id
      PROVE  DoneInv'
  <2>1. /\ pc'[t] = "write" /\ call'[t] = call[t] /\ request'[t] = r /\ todo'[t] = rest /\ done'[t] = d
        /\ \A u \in Tasks \ {t} : /\ pc'[u] = pc[u] /\ done'[u] = done[u] /\ call'[u] = call[u]
                                   /\ request'[u] = request[u] /\ todo'[u] = todo[u]
    BY <1>0, <1>4, Zenon DEF Send, Goto
  <2>2. D(t)'
    BY <1>1, <1>4, <2>1, Zenon
  <2> QED
    BY <1>2, <1>4, <2>1, <2>2, ZenonT(30)
<1>5. ASSUME NEW t \in Tasks, Start(t) PROVE DoneInv'
  <2>1. /\ UNCHANGED <<records, request, todo, done>>
        /\ \A u \in Tasks : pc'[u] = "write" <=> pc[u] = "write"
        /\ \A u \in Tasks : pc[u] = "write" => call'[u] = call[u]
    BY <1>0, <1>5, Zenon DEF Start, Begin, Resolved, Acquire, serverVars
  <2> QED
    BY <1>0, <1>1, <2>1, ZenonT(30) DEF DoneInv
<1>6. ASSUME NEW t \in Tasks, Fetch(t) PROVE DoneInv'
  <2> DEFINE c == call[t]
             P == Plan(c, records)
             M == More(c, deletedAny'[t], "list", P)
  <2>1. /\ pc[t] = "fetch" /\ Proceed(t, P, "list", FALSE) /\ UNCHANGED records
        /\ deletedAny'[t] \in BOOLEAN
    BY <1>0, <1>6, Zenon DEF Fetch, serverVars
  <2>2. /\ \A r \in P : IsRequest(provider, records, nextId, c, r)
        /\ \/ \A r \in P : r.kind \in {"get", "delete"}
           \/ \E r : P = {r} /\ r.kind = "create"
        /\ c.op = "cleanup" /\ provider # "ovh" =>
              /\ \A r \in P : r.kind = "delete" /\ \E q \in records : q.id = r.id /\ q.val = c.val
              /\ \A r1 \in P, r2 \in P : r1.id = r2.id => r1 = r2
    BY <1>0, PlanFacts, SMTT(30)
  <2>3. /\ P = {} => \A r \in M : r.kind \in {"create", "refresh"}
        /\ P = {} /\ provider # "ovh" => M = {}
    BY <1>0, <2>1, <2>2, MoreFacts, SMTT(30)
  <2>4. P # {} => M = P
    BY Zenon DEF More
  <2>5. CASE ReturnOk(t)
    BY <1>3, <2>1, <2>5, ZenonT(30) DEF ReturnOk, Return
  <2>6. CASE \E r \in M : Send(t, r, M \ {r}) /\ done' = [done EXCEPT ![t] = @ \/ FALSE]
    <3>1. PICK r \in M : Send(t, r, M \ {r}) /\ done' = [done EXCEPT ![t] = @ \/ FALSE]
      BY <2>6, Zenon
    <3>2. r.kind # "rollback"
      BY <2>2, <2>3, <2>4, <3>1, Zenon
    <3>3. c.op = "cleanup" /\ provider \in RefusesDuplicates =>
             M \ {r} = {} /\ r.kind = "delete" /\ \E q \in records : q.id = r.id
      <4> SUFFICES ASSUME c.op = "cleanup", provider \in RefusesDuplicates
                   PROVE  M \ {r} = {} /\ r.kind = "delete" /\ \E q \in records : q.id = r.id
        BY ZenonT(30)
      <4>1. provider \notin {"ovh", "bunny"} /\ c.val \in Values
        BY <1>0, Zenon DEF RefusesDuplicates, Calls
      <4>2. P # {} /\ M = P
        BY <2>3, <2>4, <3>1, <4>1, ZenonT(30)
      <4>3. ASSUME NEW r2 \in P PROVE r2 = r
        <5>1. PICK q1 \in records : q1.id = r.id /\ q1.val = c.val
          BY <2>2, <3>1, <4>1, <4>2, ZenonT(30)
        <5>2. PICK q2 \in records : q2.id = r2.id /\ q2.val = c.val
          BY <2>2, <4>1, <4>3, ZenonT(30)
        <5>3. q1 = q2
          BY <1>0, <4>1, <5>1, <5>2, Zenon DEF OneInv, OneEach
        <5> QED
          BY <2>2, <3>1, <4>1, <4>2, <4>3, <5>1, <5>2, <5>3, ZenonT(30)
      <4> HIDE DEF P, M
      <4> QED
        BY <2>2, <3>1, <4>1, <4>2, <4>3, ZenonT(30)
    <3>4. PICK d : done' = [done EXCEPT ![t] = d]
      BY <3>1, Zenon
    <3> HIDE DEF M
    <3> QED
      BY <1>4, <2>1, <3>1, <3>2, <3>3, <3>4, ZenonT(30)
  <2> QED
    BY <2>1, <2>5, <2>6, ProceedCases, Zenon
<1>7. ASSUME NEW t \in Tasks, pc[t] = "write", NEW last, NEW effect,
             provider \notin RefusesDuplicates \/ call[t].op = "present" \/ todo[t] = {},
             deletedAny' \in [Tasks -> BOOLEAN], Proceed(t, todo[t], last, effect)
      PROVE  DoneInv'
  <2> DEFINE M == More(call[t], deletedAny'[t], last, todo[t])
  <2>1. \A r \in todo[t] : /\ IsRequest(provider, records, nextId, call[t], r)
                           /\ r.kind \in {"get", "delete"}
    BY <1>0, <1>7, Zenon DEF Asks
  <2>2. /\ todo[t] = {} => \A r \in M : r.kind \in {"create", "refresh"}
        /\ todo[t] = {} /\ provider # "ovh" => M = {}
    BY <1>0, <1>7, <2>1, MoreFacts, SMTT(30)
  <2>3. todo[t] # {} => M = todo[t]
    BY Zenon DEF More
  <2>4. CASE ReturnOk(t)
    BY <1>3, <1>7, <2>4, ZenonT(30) DEF ReturnOk, Return
  <2>5. CASE \E r \in M : Send(t, r, M \ {r}) /\ done' = [done EXCEPT ![t] = @ \/ effect]
    <3>1. PICK r \in M : Send(t, r, M \ {r}) /\ done' = [done EXCEPT ![t] = @ \/ effect]
      BY <2>5, Zenon
    <3>2. r.kind # "rollback"
      BY <2>1, <2>2, <2>3, <3>1, ZenonT(30)
    <3>3. ~(call[t].op = "cleanup" /\ provider \in RefusesDuplicates)
      BY <1>7, <2>2, <3>1, ZenonT(30) DEF RefusesDuplicates
    <3>4. PICK d : done' = [done EXCEPT ![t] = d]
      BY <3>1, ZenonT(30)
    <3> HIDE DEF M
    <3> QED
      BY <1>4, <1>7, <3>1, <3>2, <3>3, <3>4, ZenonT(30)
  <2>6. \/ M = {} /\ ReturnOk(t)
        \/ \E r \in M : Send(t, r, M \ {r}) /\ done' = [done EXCEPT ![t] = @ \/ effect]
    BY <1>7, Zenon DEF Proceed, More
  <2> HIDE DEF M
  <2> QED
    BY <2>4, <2>5, <2>6, Zenon
<1>8. ASSUME NEW t \in Tasks, GetRecord(t) PROVE DoneInv'
  <2>1. /\ pc[t] = "write" /\ request[t].kind = "get" /\ UNCHANGED <<records, deletedAny>>
        /\ \/ Proceed(t, todo[t], "get", FALSE)
           \/ ReturnOk(t)
           \/ UNCHANGED done /\ \E id : Send(t, OvhDelete(id), todo[t])
    BY <1>8, ZenonT(30) DEF GetRecord, serverVars
  <2>2. provider \notin RefusesDuplicates
    BY <1>0, <2>1, Zenon DEF Asks, IsRequest, RefusesDuplicates
  <2>3. CASE Proceed(t, todo[t], "get", FALSE)
    <3>1. deletedAny' \in [Tasks -> BOOLEAN]
      BY <1>0, <2>1, Zenon
    <3> QED
      BY <1>7, <2>1, <2>2, <2>3, <3>1, Zenon
  <2>4. CASE ReturnOk(t)
    BY <1>3, <2>1, <2>4, Zenon DEF ReturnOk, Return
  <2>5. CASE UNCHANGED done /\ \E id : Send(t, OvhDelete(id), todo[t])
    <3>1. PICK id : Send(t, OvhDelete(id), todo[t])
      BY <2>5, Zenon
    <3>2. OvhDelete(id).kind = "delete"
      BY Zenon DEF OvhDelete, Delete
    <3>3. done' = [done EXCEPT ![t] = done[t]]
      BY <1>0, <2>5, Zenon
    <3> QED
      BY <1>4, <2>1, <2>2, <3>1, <3>2, <3>3, ZenonT(30)
  <2> QED
    BY <2>1, <2>3, <2>4, <2>5, ZenonT(30)
<1>9. ASSUME NEW t \in Tasks, GoneStep(t) PROVE DoneInv'
  BY <1>3, <1>9, Zenon DEF GoneStep, Writing, serverVars, writeVars
<1>10. ASSUME NEW t \in Tasks, RetryStep(t) PROVE DoneInv'
  <2>1. /\ pc[t] = "write" /\ UNCHANGED <<call, request, todo>> /\ \A u \in Tasks : pc'[u] = pc[u]
        /\ UNCHANGED records \/ Apply(request[t])
        /\ done'[t] = (done[t] \/ HadEffect(t))
        /\ \A u \in Tasks \ {t} : done'[u] = done[u]
    BY <1>0, <1>10, Zenon DEF RetryStep, Writing, Goto, serverVars
  <2>2. ASSUME call[t].op = "cleanup", provider \in RefusesDuplicates, ~done'[t]
        PROVE  \E q \in records' : q.id = request[t].id
    <3>1. PICK q \in records : q.id = request[t].id
      BY <1>0, <2>1, <2>2, ZenonT(30) DEF DoneInv
    <3>2. request[t].kind = "delete" /\ q.val = call[t].val
      BY <1>0, <2>1, <2>2, <3>1, ZenonT(30) DEF DoneInv, Asks, IsRequest, Owned
    <3>3. CASE Apply(request[t])
      <4>1. records' \subseteq records /\ q \notin records'
        BY <3>1, <3>2, <3>3, Zenon DEF Apply
      <4>2. call[t].val \notin ValuesOf(records')
        BY <1>0, <2>2, <3>2, <4>1, LastRecord, Zenon
      <4> QED
        BY <2>1, <2>2, <4>2, ZenonT(30) DEF HadEffect
    <3> QED
      BY <2>1, <3>1, <3>3, Zenon
  <2>3. D(t)'
    BY <1>0, <1>1, <2>1, <2>2, Zenon DEF DoneInv
  <2> QED
    BY <1>2, <2>1, <2>3, Zenon
<1>11. ASSUME NEW t \in Tasks, AcceptStep(t) PROVE DoneInv'
  <2>1. /\ pc[t] = "write" /\ deletedAny' \in [Tasks -> BOOLEAN]
        /\ \E e : Proceed(t, todo[t], request[t].kind, e)
    BY <1>0, <1>11, Zenon DEF AcceptStep, Writing
  <2>2. provider \notin RefusesDuplicates \/ call[t].op = "present" \/ todo[t] = {}
    BY <1>0, <2>1, Zenon DEF DoneInv, Calls, Ops
  <2> QED
    BY <1>7, <2>1, <2>2, ZenonT(30)
<1>12. ASSUME NEW t \in Tasks, WarnStep(t) PROVE DoneInv'
  <2>1. /\ pc[t] = "write" /\ Send(t, Rollback(nextId), {}) /\ done' = [done EXCEPT ![t] = TRUE]
        /\ request[t].kind = "create"
    BY <1>12, Zenon DEF WarnStep, Writing
  <2>2. call[t].op = "present"
    BY <1>0, <2>1, Zenon DEF Asks, IsRequest
  <2> QED
    BY <1>4, <2>1, <2>2, ZenonT(30)
<1>13. ASSUME Land PROVE DoneInv'
  <2>1. PICK l \in late : Apply(l.req) \/ UNCHANGED serverVars
    BY <1>13, ZenonT(30) DEF Land
  <2>2. /\ UNCHANGED <<pc, call, request, todo>>
        /\ \A t \in Tasks : done'[t] = (done[t] \/ (pc[t] = "write" /\ call[t].op = "cleanup" /\ HadEffect(t)))
    BY <1>13, ZenonT(30) DEF Land, writeVars
  <2>3. ASSUME NEW t \in Tasks, pc[t] = "write", call[t].op = "cleanup", provider \in RefusesDuplicates,
               ~done'[t]
        PROVE  \E q \in records' : q.id = request[t].id
    <3>1. PICK q \in records : q.id = request[t].id
      BY <1>0, <2>2, <2>3, Zenon DEF DoneInv
    <3>2. q.val = call[t].val
      BY <1>0, <2>3, <3>1, Zenon DEF DoneInv, Asks, IsRequest, Owned
    <3>3. records \subseteq records' \/ records' \subseteq records
      BY <1>0, <2>1, ApplyFacts, Zenon DEF serverVars
    <3>4. q \in records'
      <4> SUFFICES ASSUME q \notin records' PROVE FALSE
        BY Zenon
      <4>1. call[t].val \notin ValuesOf(records')
        BY <1>0, <2>3, <3>2, <3>3, LastRecord, Zenon
      <4> QED
        BY <2>2, <2>3, <4>1, Zenon DEF HadEffect
    <3> QED
      BY <3>1, <3>4, Zenon
  <2> QED
    BY <1>0, <1>1, <2>2, <2>3, Zenon DEF DoneInv
<1>14. ASSUME UNCHANGED vars PROVE DoneInv'
  BY <1>0, <1>14, Zenon DEF vars, callVars, serverVars, writeVars, DoneInv
<1> QED
  BY <1>5, <1>6, <1>8, <1>9, <1>10, <1>11, <1>12, <1>13, <1>14, StepKinds, ZenonT(30)

LEMMA RefineInvariance == Spec /\ Shielded => []RefineInv
<1>1. Init => DoneInv
  BY Zenon DEF Init, CallInit, DoneInv
<1>2. RefineInv /\ [Next]_vars => DoneInv'
  BY DoneStep, Zenon
<1>3. Basic /\ StoredInv /\ SureInv /\ Shielded /\ OneInv /\ DoneInv <=> RefineInv
  BY Zenon DEF RefineInv
<1> QED
  BY BasicInvariance, StoredInvariance, OneInvariance, <1>1, <1>2, <1>3, PTL DEF Spec

Vals == ValuesOf(records)

(* What the request of a call, or of one given up, does to the values. *)
LEMMA EffectOfApply ==
    ASSUME ServerInv, NEW c \in Calls, NEW r, IsRequest(provider, records, nextId, c, r), Apply(r)
    PROVE  /\ r.kind # "rollback" => Vals' \in {Vals, Txt!Effect(c, Vals)}
           /\ r.kind = "rollback" => c.op = "present" /\ Vals' \in {Vals, Vals \ {c.val}}
           /\ r.kind = "create" => Vals' = Txt!Effect(c, Vals)
<1>1. /\ \A q \in records' : q \in records \/ q.val = c.val
      /\ \A q \in records : q \in records' \/ q.val = c.val
      /\ r.kind = "create" => c.val \in Vals' /\ records \subseteq records'
      /\ r.kind = "refresh" => records' = records
      /\ r.kind # "create" => records' \subseteq records
  BY ApplyFacts, ZenonT(30) DEF Vals
<1>2. /\ r.kind \in {"create", "delete", "rollback", "refresh"}
      /\ r.kind \in {"create", "rollback"} => c.op = "present"
      /\ r.kind = "delete" => c.op = "cleanup"
  BY Zenon DEF IsRequest, Apply
<1>3. CASE r.kind = "create"
  <2>1. Vals' = Vals \cup {c.val}
    BY <1>1, <1>3, Zenon DEF Vals, ValuesOf
  <2> QED
    BY <1>2, <1>3, <2>1, Zenon DEF Txt!Effect
<1>4. CASE r.kind \in {"delete", "rollback"}
  <2>1. Vals' = Vals \/ Vals' = Vals \ {c.val}
    BY <1>1, <1>4, Zenon DEF Vals, ValuesOf
  <2> QED
    BY <1>2, <1>4, <2>1, Zenon DEF Txt!Effect
<1>5. CASE r.kind = "refresh"
  BY <1>1, <1>5, Zenon DEF Vals
<1> QED
  BY <1>2, <1>3, <1>4, <1>5, Zenon

(* Whether a call had its effect can be seen from the zone. *)
LEMMA EffectSeen ==
    ASSUME NEW t \in Tasks, call[t] \in Calls, Vals' \in {Vals, Txt!Effect(call[t], Vals)}
    PROVE  /\ HadEffect(t) => Vals' = Txt!Effect(call[t], Vals)
           /\ ~HadEffect(t) => Vals' = Vals
<1>1. call[t].op \in {"present", "cleanup"}
  BY Zenon DEF Calls, Ops
<1>2. HadEffect(t) <=> ((call[t].op = "present") <=> (call[t].val \in Vals'))
  BY Zenon DEF HadEffect, Vals
<1> QED
  BY <1>1, <1>2, Zenon DEF Txt!Effect

(* A call in progress, as TxtRecord has it. *)
LEMMA RunningFacts ==
    ASSUME Basic, NEW t \in Tasks, pc[t] # "idle"
    PROVE  /\ Running[t] = [op |-> call[t].op, val |-> call[t].val, done |-> done[t]]
           /\ Running[t] # Txt!Idle /\ Running[t].done = done[t]
           /\ Running[t].op = call[t].op /\ Running[t].val = call[t].val
           /\ call[t] \in Calls /\ call[t] \in Txt!Pending(Running[t])
           /\ call[t].op = "present" /\ done[t] =>
                 [call[t] EXCEPT !.op = "cleanup"] \in Txt!Pending(Running[t])
           /\ \A s : Txt!Effect(Running[t], s) = Txt!Effect(call[t], s)
<1>1. /\ call[t] \in Calls /\ call[t].op \in {"present", "cleanup"}
      /\ call[t] = [op |-> call[t].op, val |-> call[t].val]
      /\ [call[t] EXCEPT !.op = "cleanup"] = [op |-> "cleanup", val |-> call[t].val]
  BY DEF Basic, TypeOK, CallTypeOK, Calls, Ops
<1>2. Running[t] = [op |-> call[t].op, val |-> call[t].val, done |-> done[t]]
  BY Zenon DEF Running
<1>3. Running[t].op = call[t].op /\ Running[t].val = call[t].val /\ Running[t].done = done[t]
  BY <1>2
<1>4. Running[t] # Txt!Idle
  BY <1>1, <1>3 DEF Txt!Idle
<1>5. call[t] \in Txt!Pending(Running[t])
  BY <1>1, <1>3, Zenon DEF Txt!Pending
<1>6. call[t].op = "present" /\ done[t] =>
         [call[t] EXCEPT !.op = "cleanup"] \in Txt!Pending(Running[t])
  BY <1>1, <1>3 DEF Txt!Pending
<1> QED
  BY <1>1, <1>2, <1>3, <1>4, <1>5, <1>6, Zenon DEF Txt!Effect

(* A call that ends, having its effect now or not, or taking it back, is a
   Return. *)
LEMMA ReturnRefines ==
    ASSUME Basic, NEW t \in Tasks, pc[t] # "idle", NEW res \in {"ok", "err", "dropped"},
           Finish(t, res),
           \/ Vals' \in {Vals, Txt!Effect(call[t], Vals)}
           \/ /\ call[t].op = "present" /\ done[t] /\ res # "ok"
              /\ Vals' = Vals \ {call[t].val},
           res # "ok" \/ done[t] \/ Vals' = Txt!Effect(call[t], Vals),
           \/ UNCHANGED Strays
           \/ res # "ok" /\ \E c \in Txt!Pending(Running[t]) : Strays' = Strays \cup {c}
    PROVE  Txt!Return(t)
<1>1. /\ Running[t] # Txt!Idle /\ Running[t].done = done[t]
      /\ Running[t].op = call[t].op /\ Running[t].val = call[t].val
      /\ Txt!Effect(Running[t], Vals) = Txt!Effect(call[t], Vals)
  BY RunningFacts, Zenon
<1>2. Running' = [Running EXCEPT ![t] = Txt!Idle]
  BY ZenonT(30) DEF Finish, Running, Txt!Idle, Basic, TypeOK, CallTypeOK
<1>3. result' = [result EXCEPT ![t] = res] /\ result'[t] = res
  BY Zenon DEF Finish, Basic, TypeOK, CallTypeOK
<1>4. \/ Vals' \in {Vals, Txt!Effect(Running[t], Vals)}
      \/ Txt!Undo(t) /\ result'[t] # "ok"
  BY <1>1, <1>3, Zenon DEF Txt!Undo, Vals
<1> QED
  BY <1>1, <1>2, <1>3, <1>4, Zenon DEF Txt!Return, Vals

(* A call that goes on: an Apply if it has its effect, or else a stutter. *)
LEMMA GoOnRefines ==
    ASSUME Basic, NEW t \in Tasks, pc[t] # "idle",
           pc' = [pc EXCEPT ![t] = "write"], UNCHANGED <<call, result, late>>,
           \/ done' = [done EXCEPT ![t] = TRUE] /\ Vals' = Txt!Effect(call[t], Vals)
           \/ UNCHANGED done /\ Vals' = Vals
    PROVE  Txt!Apply(t) \/ UNCHANGED Txt!vars
<1>0. UNCHANGED Strays
  BY Zenon DEF Strays
<1>1. CASE done' = [done EXCEPT ![t] = TRUE] /\ Vals' = Txt!Effect(call[t], Vals)
  <2>1. /\ Running[t] # Txt!Idle
        /\ Running[t] = [op |-> call[t].op, val |-> call[t].val, done |-> done[t]]
        /\ Txt!Effect(Running[t], Vals) = Txt!Effect(call[t], Vals)
    BY RunningFacts, Zenon
  <2>2. Running' = [Running EXCEPT ![t].done = TRUE]
    <3>1. Running'[t] = [op |-> call[t].op, val |-> call[t].val, done |-> TRUE]
      BY <1>1, Zenon DEF Running, Basic, TypeOK, CallTypeOK
    <3>2. [Running[t] EXCEPT !.done = TRUE] = [op |-> call[t].op, val |-> call[t].val, done |-> TRUE]
      <4>1. ASSUME NEW a, NEW b, NEW d, NEW e
            PROVE  [[op |-> a, val |-> b, done |-> d] EXCEPT !.done = e]
                     = [op |-> a, val |-> b, done |-> e]
        OBVIOUS
      <4>2. \A e : [Running[t] EXCEPT !.done = e] = [op |-> call[t].op, val |-> call[t].val, done |-> e]
        BY <2>1, <4>1
      <4> QED
        BY <4>2, Zenon
    <3>3. ASSUME NEW u \in Tasks, u # t PROVE Running'[u] = Running[u]
      BY <1>1, <3>3, ZenonT(30) DEF Running, Basic, TypeOK, CallTypeOK
    <3>4. Running' = [u \in Tasks |-> Running'[u]] /\ Running = [u \in Tasks |-> Running[u]]
      BY ZenonT(30) DEF Running
    <3> QED
      BY <3>1, <3>2, <3>3, <3>4, ZenonT(30)
  <2> QED
    BY <1>0, <1>1, <2>1, <2>2, Zenon DEF Txt!Apply, Vals
<1>2. CASE UNCHANGED done /\ Vals' = Vals
  <2>1. UNCHANGED Running
    BY <1>2, Zenon DEF Running, Basic, TypeOK, CallTypeOK
  <2> QED
    BY <1>0, <1>2, <2>1, ZenonT(30) DEF Txt!vars, Vals
<1> QED
  BY <1>1, <1>2, Zenon

(* The call that a late request is of, as in Strays. *)
StrayOf(l) == IF l.req.kind = "rollback" THEN [l.call EXCEPT !.op = "cleanup"] ELSE l.call

LEMMA NextRefines == ASSUME RefineInv, [Next]_vars PROVE [Txt!Next]_(Txt!vars)
<1>0. /\ Basic /\ ServerInv /\ DoneInv /\ OneInv /\ call \in [Tasks -> Calls]
      /\ pc \in [Tasks -> States] /\ done \in [Tasks -> BOOLEAN] /\ sure \in [Tasks -> BOOLEAN]
      /\ promised \in [Values -> {"none", "present", "absent"}]
      /\ \A t \in Tasks : pc[t] = "write" =>
            Asks(provider, records, nextId, call[t], request[t], todo[t])
      /\ \A l \in late : l.call \in Calls /\ IsRequest(provider, records, nextId, l.call, l.req)
  BY Zenon DEF RefineInv, Basic, TypeOK, CallTypeOK, RequestInv, States
<1>1. StoredInv'
  BY StoredStep, Zenon DEF RefineInv
<1>2. ASSUME NEW t \in Tasks, pc[t] = "write", Apply(request[t])
      PROVE  /\ request[t].kind # "rollback" => Vals' \in {Vals, Txt!Effect(call[t], Vals)}
             /\ request[t].kind = "rollback" => /\ call[t].op = "present" /\ done[t]
                                                /\ Vals' \in {Vals, Vals \ {call[t].val}}
             /\ request[t].kind = "create" => Vals' = Txt!Effect(call[t], Vals)
  BY <1>0, <1>2, EffectOfApply, Zenon DEF Asks, DoneInv
<1>3. ASSUME NEW t \in Tasks, pc[t] # "idle", ReturnOk(t),
             Vals' \in {Vals, Txt!Effect(call[t], Vals)},
             sure'[t] \/ done[t] \/ Vals' = Txt!Effect(call[t], Vals)
      PROVE  Txt!Next
  <2>1. sure'[t] => HadEffect(t)
    <3>1. call[t].op \in {"present", "cleanup"} /\ call[t].val \in Values
      BY <1>0, ZenonT(30) DEF Calls, Ops
    <3>2. promised'[call[t].val] =
            IF ~sure'[t] THEN "none" ELSE IF call[t].op = "present" THEN "present" ELSE "absent"
      BY <1>0, <1>3, <3>1, ZenonT(30) DEF ReturnOk
    <3> QED
      BY <1>1, <3>1, <3>2, ZenonT(30) DEF StoredInv, OkIsStored, Kept, HadEffect
  <2>2. HadEffect(t) => Vals' = Txt!Effect(call[t], Vals)
    BY <1>0, <1>3, EffectSeen, Zenon
  <2>3. Finish(t, "ok") /\ UNCHANGED Strays
    BY <1>3, Zenon DEF ReturnOk, Return, Strays
  <2>4. Txt!Return(t)
    BY <1>0, <1>3, <2>1, <2>2, <2>3, ReturnRefines, ZenonT(30)
  <2> QED
    BY <2>4, Zenon DEF Txt!Next
<1>4. ASSUME NEW t \in Tasks, pc[t] # "idle", NEW r, NEW rest, Send(t, r, rest),
             \/ done' = [done EXCEPT ![t] = TRUE] /\ Vals' = Txt!Effect(call[t], Vals)
             \/ UNCHANGED done /\ Vals' = Vals
      PROVE  [Txt!Next]_(Txt!vars)
  BY <1>0, <1>4, GoOnRefines, ZenonT(30) DEF Send, Goto, Txt!Next
<1>5. ASSUME NEW t \in Tasks, Start(t) PROVE [Txt!Next]_(Txt!vars)
  <2>0. UNCHANGED <<Vals, Strays, done, late, result>> \/ (UNCHANGED <<Vals, Strays, done>> /\ Begin(t))
    BY <1>5, Zenon DEF Start, Begin, Resolved, Acquire, serverVars, Vals, Strays
  <2>1. CASE Begin(t)
    <3>1. PICK c \in Calls : call' = [call EXCEPT ![t] = c]
      BY <2>1, Zenon DEF Begin
    <3>2. Running[t] = Txt!Idle /\ ~done[t]
      BY <1>0, <2>1, Zenon DEF Begin, Running, Txt!Idle, DoneInv
    <3>3. Running' = [Running EXCEPT ![t] = [op |-> c.op, val |-> c.val, done |-> FALSE]]
      BY <1>0, <2>1, <3>1, <3>2, ZenonT(30) DEF Begin, Running
    <3>4. Txt!Begin(t)
      BY <2>0, <2>1, <3>1, <3>2, <3>3, Zenon DEF Begin, Txt!Begin, Calls, Ops, Vals
    <3> QED
      BY <3>4, Zenon DEF Txt!Next
  <2>2. CASE Resolved(t) \/ Acquire(t)
    <3>1. UNCHANGED Running
      BY <1>0, <2>2, ZenonT(30) DEF Resolved, Acquire, Running
    <3> QED
      BY <2>0, <2>2, <3>1, Zenon DEF Txt!vars, Vals, Resolved, Acquire
  <2> QED
    BY <1>5, <2>1, <2>2, Zenon DEF Start
<1>6. ASSUME NEW t \in Tasks, Fetch(t) PROVE [Txt!Next]_(Txt!vars)
  <2> DEFINE c == call[t]
             P == Plan(c, records)
             M == More(c, deletedAny'[t], "list", P)
  <2>1. pc[t] = "fetch" /\ Proceed(t, P, "list", FALSE) /\ UNCHANGED records /\ deletedAny'[t] \in BOOLEAN
    BY <1>0, <1>6, ZenonT(30) DEF Fetch, serverVars, Basic, TypeOK
  <2>2. UNCHANGED Vals
    BY <2>1, Zenon DEF Vals
  <2>3. CASE M = {} /\ ReturnOk(t)
    <3>1. P = {}
      BY <2>3, Zenon DEF More
    <3>2. c.op = "present" => provider # "ovh"
      <4>1. M = {AfterLoop(c, deletedAny'[t], "list")} \ {NoRequest}
        BY <3>1, Zenon DEF More
      <4>2. c.op = "present" /\ provider = "ovh" => AfterLoop(c, deletedAny'[t], "list") = OvhCreate(c.val)
        BY Zenon DEF AfterLoop, OvhPresentEnd
      <4>3. OvhCreate(c.val).kind # NoRequest.kind
        BY Zenon DEF OvhCreate, Create, NoRequest
      <4> QED
        BY <2>3, <4>1, <4>2, <4>3, Zenon
    <3>3. /\ c.op = "cleanup" => Covered(records, c, {})
          /\ c.op = "present" => c.val \in Vals
      BY <1>0, <3>1, <3>2, PlanFacts, ZenonT(30) DEF Vals
    <3>4. Vals = Txt!Effect(c, Vals)
      BY <1>0, <3>3 DEF Covered, Txt!Effect, Vals, ValuesOf, Calls, Ops
    <3> QED
      BY <1>3, <2>1, <2>2, <2>3, <3>4, ZenonT(30)
  <2>4. CASE \E r \in M : Send(t, r, M \ {r}) /\ done' = [done EXCEPT ![t] = @ \/ FALSE]
    <3>1. PICK r \in M : Send(t, r, M \ {r}) /\ done' = [done EXCEPT ![t] = @ \/ FALSE]
      BY <2>4, Zenon
    <3>2. UNCHANGED done
      BY <1>0, <3>1, ZenonT(30)
    <3> HIDE DEF M
    <3> QED
      BY <1>4, <2>1, <2>2, <3>1, <3>2, ZenonT(30)
  <2>5. \/ M = {} /\ ReturnOk(t)
        \/ \E r \in M : Send(t, r, M \ {r}) /\ done' = [done EXCEPT ![t] = @ \/ FALSE]
    BY <2>1, ZenonT(30) DEF Proceed, More
  <2> QED
    BY <2>3, <2>4, <2>5, ZenonT(30)
<1>7. ASSUME NEW t \in Tasks, GetRecord(t) PROVE [Txt!Next]_(Txt!vars)
  <2>1. /\ pc[t] = "write" /\ request[t].kind = "get" /\ UNCHANGED <<records, sure>>
        /\ \/ Proceed(t, todo[t], "get", FALSE)
           \/ ReturnOk(t)
           \/ UNCHANGED done /\ \E r, rest : Send(t, r, rest)
    BY <1>7, ZenonT(30) DEF GetRecord, serverVars
  <2>2. sure'[t] /\ UNCHANGED Vals
    <3>1. provider \notin LateWrites
      BY <1>0, <2>1, Zenon DEF Asks, IsRequest, RefineInv, Shielded, RefusesDuplicates
    <3> QED
      BY <2>1, <3>1, Zenon DEF RefineInv, SureInv, Vals
  <2>3. CASE ReturnOk(t)
    BY <1>3, <2>1, <2>2, <2>3, ZenonT(30)
  <2>4. CASE UNCHANGED done /\ \E r, rest : Send(t, r, rest)
    BY <1>4, <2>1, <2>2, <2>4, Zenon
  <2>5. CASE Proceed(t, todo[t], "get", FALSE)
    <3>1. ReturnOk(t) \/ (UNCHANGED done /\ \E r, rest : Send(t, r, rest))
      <4>1. done' = [done EXCEPT ![t] = @ \/ FALSE] => UNCHANGED done
        BY <1>0, ZenonT(30)
      <4> QED
        BY <2>5, <4>1, Zenon DEF Proceed
    <3> QED
      BY <2>3, <2>4, <3>1, Zenon
  <2> QED
    BY <2>1, <2>3, <2>4, <2>5, ZenonT(30)
<1>8. ASSUME NEW t \in Tasks, GoneStep(t) PROVE Txt!Next
  <2>1. PICK res \in {"err", "dropped"} : Finish(t, res)
    BY <1>8, Zenon DEF GoneStep
  <2>2. pc[t] # "idle"
    BY <1>8, Zenon DEF GoneStep
  <2>3. CASE UNCHANGED <<late, serverVars>>
    <3>1. UNCHANGED <<Vals, Strays>>
      BY <2>3, Zenon DEF serverVars, Vals, Strays
    <3>2. Txt!Return(t)
      BY <1>0, <2>1, <2>2, <3>1, ReturnRefines, Zenon
    <3> QED
      BY <3>2, Zenon DEF Txt!Next
  <2>4. CASE Writing(t) /\ Apply(request[t]) /\ UNCHANGED late
    <3>1. UNCHANGED Strays
      BY <2>4, ZenonT(30) DEF Strays
    <3>2. \/ Vals' \in {Vals, Txt!Effect(call[t], Vals)}
          \/ call[t].op = "present" /\ done[t] /\ Vals' = Vals \ {call[t].val}
      BY <1>2, <2>4, Zenon DEF Writing
    <3>3. Txt!Return(t)
      BY <1>0, <2>1, <2>2, <3>1, <3>2, ReturnRefines, Zenon
    <3> QED
      BY <3>3 DEF Txt!Next
  <2>5. CASE /\ Writing(t) /\ UNCHANGED serverVars
             /\ late' = late \cup {[call |-> call[t], req |-> request[t]]}
    <3> DEFINE new == [call |-> call[t], req |-> request[t]]
               stray == StrayOf(new)
    <3>0. Strays = {StrayOf(l) : l \in late} /\ Strays' = {StrayOf(l) : l \in late'}
      BY Zenon DEF Strays, StrayOf
    <3>1. Strays' = Strays \cup {stray}
      BY <2>5, <3>0, Zenon
    <3>2. request[t].kind = "rollback" => call[t].op = "present" /\ done[t]
      BY <1>0, <2>5, Zenon DEF Writing, DoneInv, Asks, IsRequest
    <3>3. stray \in Txt!Pending(Running[t])
      BY <1>0, <2>2, <3>2, RunningFacts, ZenonT(30) DEF StrayOf
    <3>4. UNCHANGED Vals
      BY <2>5, Zenon DEF serverVars, Vals
    <3> HIDE DEF stray
    <3>5. Txt!Return(t)
      BY <1>0, <2>1, <2>2, <3>1, <3>3, <3>4, ReturnRefines, ZenonT(30)
    <3> QED
      BY <3>5 DEF Txt!Next
  <2> QED
    BY <1>8, <2>3, <2>4, <2>5, Zenon DEF GoneStep
<1>9. ASSUME NEW t \in Tasks, RetryStep(t) PROVE [Txt!Next]_(Txt!vars)
  <2>1. /\ pc[t] = "write" /\ Goto(t, "write") /\ done' = [done EXCEPT ![t] = @ \/ HadEffect(t)]
    BY <1>9, ZenonT(30) DEF RetryStep, Writing
  <2>2. Vals' \in {Vals, Txt!Effect(call[t], Vals)}
    <3>1. CASE UNCHANGED serverVars
      BY <3>1, Zenon DEF serverVars, Vals
    <3>2. CASE IsIdempotent(request[t].method) /\ Apply(request[t])
      <4>1. request[t].kind # "rollback"
        BY <1>0, <2>1, <3>2, ZenonT(30) DEF Asks, IsRequest, IsIdempotent
      <4> QED
        BY <1>2, <2>1, <3>2, <4>1, ZenonT(30)
    <3> QED
      BY <1>9, <3>1, <3>2, Zenon DEF RetryStep
  <2>3. /\ HadEffect(t) => Vals' = Txt!Effect(call[t], Vals)
        /\ ~HadEffect(t) => Vals' = Vals
    BY <1>0, <2>2, EffectSeen, ZenonT(30)
  <2>4. /\ HadEffect(t) => done' = [done EXCEPT ![t] = TRUE]
        /\ ~HadEffect(t) => UNCHANGED done
    BY <1>0, <2>1, ZenonT(30)
  <2> QED
    BY <1>0, <2>1, <2>3, <2>4, GoOnRefines, ZenonT(30) DEF Goto, Txt!Next
<1>10. ASSUME NEW t \in Tasks, AcceptStep(t) PROVE [Txt!Next]_(Txt!vars)
  <2>1. /\ pc[t] = "write" /\ Apply(request[t]) /\ request[t].kind \notin {"get", "rollback"}
        /\ Proceed(t, todo[t], request[t].kind, HadEffect(t)) /\ UNCHANGED sure
    BY <1>10, ZenonT(30) DEF AcceptStep, Writing
  <2>2. Vals' \in {Vals, Txt!Effect(call[t], Vals)}
    BY <1>2, <2>1, Zenon
  <2>3. /\ HadEffect(t) => Vals' = Txt!Effect(call[t], Vals)
        /\ ~HadEffect(t) => Vals' = Vals
    BY <1>0, <2>2, EffectSeen, Zenon
  <2>4. CASE ReturnOk(t)
    <3>1. sure'[t] \/ done[t] \/ Vals' = Txt!Effect(call[t], Vals)
      <4> SUFFICES ASSUME ~sure[t], ~done[t] PROVE Vals' = Txt!Effect(call[t], Vals)
        BY <2>1, Zenon
      <4>1. provider \in RefusesDuplicates
        BY <2>1, Zenon DEF RefineInv, SureInv, Shielded
      <4>2. call[t].op \in {"present", "cleanup"} /\ IsRequest(provider, records, nextId, call[t], request[t])
        BY <1>0, <2>1, ZenonT(30) DEF Calls, Ops, Asks
      <4>3. CASE call[t].op = "present"
        <5>1. request[t].kind = "create"
          BY <2>1, <4>1, <4>2, <4>3, ZenonT(30) DEF IsRequest, RefusesDuplicates
        <5> QED
          BY <1>2, <2>1, <5>1, Zenon
      <4>4. CASE call[t].op = "cleanup"
        <5>1. PICK q \in records : q.id = request[t].id
          BY <1>0, <2>1, <4>1, <4>4, ZenonT(30) DEF DoneInv
        <5>2. request[t].kind = "delete" /\ q.val = call[t].val
          BY <1>0, <2>1, <4>1, <4>2, <4>4, <5>1, ZenonT(30) DEF DoneInv, IsRequest, Owned
        <5>3. records' \subseteq records /\ q \notin records'
          BY <2>1, <5>1, <5>2, ZenonT(30) DEF Apply
        <5>4. call[t].val \notin ValuesOf(records')
          BY <1>0, <4>1, <5>2, <5>3, LastRecord, ZenonT(30)
        <5> QED
          BY <2>3, <4>4, <5>4, Zenon DEF HadEffect
      <4> QED
        BY <4>2, <4>3, <4>4, Zenon
    <3> QED
      BY <1>3, <2>1, <2>2, <2>4, <3>1, ZenonT(30)
  <2>5. CASE /\ \E r, rest : Send(t, r, rest)
             /\ done' = [done EXCEPT ![t] = @ \/ HadEffect(t)]
    <3>1. /\ HadEffect(t) => done' = [done EXCEPT ![t] = TRUE]
          /\ ~HadEffect(t) => UNCHANGED done
      BY <1>0, <2>5, Zenon
    <3> QED
      BY <1>4, <2>1, <2>3, <2>5, <3>1, ZenonT(30)
  <2> QED
    BY <2>1, <2>4, <2>5, ZenonT(30) DEF Proceed
<1>11. ASSUME NEW t \in Tasks, WarnStep(t) PROVE [Txt!Next]_(Txt!vars)
  <2>1. /\ pc[t] = "write" /\ Apply(request[t]) /\ Send(t, Rollback(nextId), {})
        /\ request[t].kind = "create" /\ done' = [done EXCEPT ![t] = TRUE]
    BY <1>11, Zenon DEF WarnStep, Writing
  <2> QED
    BY <1>2, <1>4, <2>1, ZenonT(30)
<1>12. ASSUME Land PROVE [Txt!Next]_(Txt!vars)
  <2>1. PICK l \in late : late' = late \ {l} /\ (Apply(l.req) \/ UNCHANGED serverVars)
    BY <1>12 DEF Land
  <2>2. /\ UNCHANGED <<pc, call, result>>
        /\ \A t \in Tasks : done'[t] = (done[t] \/ (pc[t] = "write" /\ call[t].op = "cleanup" /\ HadEffect(t)))
    BY <1>12, ZenonT(30) DEF Land
  <2>3. Vals' \in {Vals, Txt!Effect(StrayOf(l), Vals)}
    <3>1. CASE UNCHANGED serverVars
      BY <3>1, Zenon DEF serverVars, Vals
    <3>2. CASE Apply(l.req) /\ l.req.kind # "rollback"
      BY <1>0, <3>2, EffectOfApply, Zenon DEF StrayOf
    <3>3. CASE Apply(l.req) /\ l.req.kind = "rollback"
      <4>1. StrayOf(l).op = "cleanup" /\ StrayOf(l).val = l.call.val
        BY <1>0, <3>3, Zenon DEF StrayOf, Calls
      <4>2. Vals' \in {Vals, Vals \ {l.call.val}}
        BY <1>0, <3>3, EffectOfApply, Zenon
      <4> QED
        BY <4>1, <4>2, Zenon DEF Txt!Effect
    <3> QED
      BY <2>1, <3>1, <3>2, <3>3, Zenon
  <2>4. StrayOf(l) \in Strays /\ Strays' \in {Strays, Strays \ {StrayOf(l)}}
    <3>1. Strays = {StrayOf(m) : m \in late} /\ Strays' = {StrayOf(m) : m \in late'}
      BY Zenon DEF Strays, StrayOf
    <3> QED
      BY <2>1, <3>1, Zenon
  <2> DEFINE relieved == {t \in Tasks : pc[t] = "write" /\ call[t].op = "cleanup" /\ HadEffect(t)}
  <2>5. relieved \in SUBSET Txt!Relieved
    <3>1. ASSUME NEW t \in relieved PROVE Running[t].op = "cleanup" /\ Running[t].val \notin Vals'
      BY <1>0, RunningFacts, Zenon DEF HadEffect, Vals
    <3> QED
      BY <3>1, Zenon DEF Txt!Relieved, Vals
  <2>6. Running' = [t \in Tasks |->
             IF t \in relieved THEN [Running[t] EXCEPT !.done = TRUE] ELSE Running[t]]
    <3>1. ASSUME NEW t \in relieved PROVE Running'[t] = [Running[t] EXCEPT !.done = TRUE]
      <4>1. Running[t] = [op |-> call[t].op, val |-> call[t].val, done |-> done[t]]
        BY <1>0, RunningFacts, Zenon
      <4>2. Running'[t] = [op |-> call[t].op, val |-> call[t].val, done |-> TRUE]
        BY <2>2, <3>1, ZenonT(30) DEF Running
      <4>3. ASSUME NEW a, NEW b, NEW d, NEW e
            PROVE  [[op |-> a, val |-> b, done |-> d] EXCEPT !.done = e]
                     = [op |-> a, val |-> b, done |-> e]
        OBVIOUS
      <4>4. \A e : [Running[t] EXCEPT !.done = e] = [op |-> call[t].op, val |-> call[t].val, done |-> e]
        BY <4>1, <4>3
      <4> QED
        BY <4>2, <4>4, Zenon
    <3>2. ASSUME NEW t \in Tasks, t \notin relieved PROVE Running'[t] = Running[t]
      <4>1. done'[t] = done[t]
        BY <1>0, <2>2, <3>2, Zenon
      <4> QED
        BY <2>2, <4>1, Zenon DEF Running
    <3>3. Running' = [t \in Tasks |-> Running'[t]]
      BY Zenon DEF Running
    <3> HIDE DEF relieved
    <3> QED
      BY <3>1, <3>2, <3>3, Zenon
  <2> HIDE DEF relieved
  <2> QED
    BY <2>2, <2>3, <2>4, <2>5, <2>6, Zenon DEF Txt!Next, Txt!Straggle, Vals
<1>13. ASSUME UNCHANGED vars PROVE UNCHANGED Txt!vars
  BY <1>13, Zenon DEF vars, callVars, serverVars, Txt!vars, Running, Strays
<1> QED
  BY <1>5, <1>6, <1>7, <1>8, <1>9, <1>10, <1>11, <1>12, <1>13, StepKinds, Zenon

(* provider.rs:30-41.  As long as late requests are only met by an API that
   refuses duplicates, every provider of this family implements the DnsProvider
   contract: each step on the zone adds or removes the value of one call, and
   Ok is returned only for a call that had its effect or had nothing left to
   do. *)
THEOREM RecordRefinesTxtRecord == Spec /\ Shielded => ImplementsTxtRecord
<1>1. Init => Txt!Init
  <2> SUFFICES ASSUME Init PROVE Txt!Init
    OBVIOUS
  <2>1. ValuesOf(records) \in SUBSET Foreign
    BY DEF Init, ValuesOf
  <2> QED
    BY <2>1, Zenon DEF Init, CallInit, Running, Strays, Txt!Init, Txt!Idle
<1>2. RefineInv /\ [Next]_vars => [Txt!Next]_(Txt!vars)
  BY NextRefines, Zenon
<1> QED
  BY RefineInvariance, <1>1, <1>2, PTL DEF Spec, Txt!Spec, ImplementsTxtRecord
=============================================================================
