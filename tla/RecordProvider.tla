--------------------------- MODULE RecordProvider ----------------------------
(***************************************************************************)
(* The providers whose API keeps one record per TXT value, each with an id *)
(* of its own: Cloudflare, Bunny, DigitalOcean, Infomaniak, OVH and        *)
(* Porkbun.  `present` lists the records of the name and creates its own   *)
(* unless it is there; `cleanup` lists them and deletes, one request each, *)
(* every record with its value.  OVH reads each record by itself, and      *)
(* serves a change only once the zone is refreshed; Porkbun takes back a   *)
(* record that it was told will not resolve.                               *)
(*                                                                         *)
(* The API server is external, as in RrsetProvider.                        *)
(***************************************************************************)
EXTENDS ProviderCall

CONSTANTS Providers,   \* the providers to check
          Foreign,     \* values other people keep at the name
          LateWrites   \* the providers whose requests may arrive after their
                       \* caller left

ASSUME ProvidersAssumption ==
    Providers \subseteq {"cloudflare", "bunny", "digitalocean", "infomaniak", "ovh", "porkbun"}
ASSUME ForeignAssumption == Foreign \cap Values = {}
ASSUME LateWritesAssumption == LateWrites \subseteq Providers

MaxAttempts == 3   \* common.rs: MAX_ATTEMPTS

VARIABLES
    provider,   \* the provider in use
    records,    \* the records the server has at the name
    nextId,     \* the id of the next record created
    served,     \* the values its nameservers answer with
    request,    \* request[t]: the request t is making
    todo,       \* todo[t]: the requests its loop still has to make
    deletedAny, \* deletedAny[t]: as in OVH's cleanup
    attempt,    \* attempt[t]: 1-based, as in send_retrying
    sure,       \* sure[t]: nothing for t's value was in flight when t listed
    promised    \* what the last call on each value that returned Ok promised

serverVars == <<provider, records, nextId, served>>
writeVars == <<request, todo, deletedAny, attempt, sure, promised>>
vars == <<callVars, serverVars, writeVars>>

ValuesOf(s) == {r.val : r \in s}
Matching(s, v) == {r.id : r \in {q \in s : q.val = v}}

-----------------------------------------------------------------------------
(* Requests. *)

NoRequest == [kind |-> "none"]
Create(method, v) == [kind |-> "create", method |-> method, val |-> v]
Delete(method, id) == [kind |-> "delete", method |-> method, id |-> id]
Rollback(id) == [kind |-> "rollback", method |-> "POST", id |-> id]
Get(id) == [kind |-> "get", method |-> "GET", id |-> id]
Refresh == [kind |-> "refresh", method |-> "POST"]

(* Mutant: a POST is replayed too. *)
IsReplayed(method) == TRUE

(* reqwest's Method::is_idempotent. *)
IsIdempotent(method) == method \in {"GET", "PUT", "DELETE"}

(* The APIs that refuse a second record with the same value; the code takes
   their error code (ALREADY_EXISTS, DUPLICATE_RECORD) for success. *)
RefusesDuplicates == {"infomaniak", "porkbun"}

-----------------------------------------------------------------------------
(* The requests each provider makes once it has listed the records s. *)

CloudflareCreate(v) == Create("POST", v)
CloudflareDelete(id) == Delete("DELETE", id)
CloudflarePresent(s, v) == IF Matching(s, v) = {} THEN {CloudflareCreate(v)} ELSE {}
(* Mutant: every record of the name is deleted. *)
CloudflareCleanupAll(s, v) == {CloudflareDelete(r.id) : r \in s}

CloudflareCleanup(s, v) == {CloudflareDelete(id) : id \in Matching(s, v)}

BunnyCreate(v) == Create("PUT", v)
BunnyDelete(id) == Delete("DELETE", id)
BunnyPresent(s, v) == IF Matching(s, v) = {} THEN {BunnyCreate(v)} ELSE {}
(* Mutant: only the first record with the value is deleted. *)
BunnyCleanupFirst(s, v) ==
    IF Matching(s, v) = {} THEN {} ELSE {BunnyDelete(CHOOSE id \in Matching(s, v) : TRUE)}

BunnyCleanup(s, v) == {BunnyDelete(id) : id \in Matching(s, v)}

DigitalOceanCreate(v) == Create("POST", v)
DigitalOceanDelete(id) == Delete("DELETE", id)
(* Mutant: any record of the name counts as the value's. *)
DigitalOceanPresentByName(s, v) == IF s = {} THEN {DigitalOceanCreate(v)} ELSE {}

DigitalOceanPresent(s, v) == IF Matching(s, v) = {} THEN {DigitalOceanCreate(v)} ELSE {}
DigitalOceanCleanup(s, v) == {DigitalOceanDelete(id) : id \in Matching(s, v)}

InfomaniakCreate(v) == Create("POST", v)
InfomaniakDelete(id) == Delete("DELETE", id)
InfomaniakPresent(s, v) == IF Matching(s, v) = {} THEN {InfomaniakCreate(v)} ELSE {}
InfomaniakCleanup(s, v) == {InfomaniakDelete(id) : id \in Matching(s, v)}

PorkbunCreate(v) == Create("POST", v)
PorkbunDelete(id) == Delete("POST", id)
PorkbunPresent(s, v) == IF Matching(s, v) = {} THEN {PorkbunCreate(v)} ELSE {}
PorkbunCleanup(s, v) == {PorkbunDelete(id) : id \in Matching(s, v)}

(* OVH lists ids only: both calls start by getting the records one by one. *)
OvhList(s) == {Get(r.id) : r \in s}
OvhCreate(v) == Create("POST", v)
OvhDelete(id) == Delete("DELETE", id)

Plan(c, s) ==
    LET p == c.op = "present" IN
    CASE provider = "cloudflare" -> IF p THEN CloudflarePresent(s, c.val) ELSE CloudflareCleanup(s, c.val)
      [] provider = "bunny" -> IF p THEN BunnyPresent(s, c.val) ELSE BunnyCleanup(s, c.val)
      [] provider = "digitalocean" -> IF p THEN DigitalOceanPresent(s, c.val) ELSE DigitalOceanCleanup(s, c.val)
      [] provider = "infomaniak" -> IF p THEN InfomaniakPresent(s, c.val) ELSE InfomaniakCleanup(s, c.val)
      [] provider = "porkbun" -> IF p THEN PorkbunPresent(s, c.val) ELSE PorkbunCleanup(s, c.val)
      [] provider = "ovh" -> OvhList(s)

(* What follows OVH's loop over the records, `last` being the request made
   last: present creates its record and refreshes the zone, cleanup refreshes
   it if anything was deleted. *)
OvhPresentEnd(v, last) ==
    CASE last = "create" -> Refresh
      [] last = "refresh" -> NoRequest
      [] OTHER -> OvhCreate(v)

OvhCleanupEnd(deleted, last) ==
    IF deleted /\ last # "refresh" THEN Refresh ELSE NoRequest

AfterLoop(c, deleted, last) ==
    IF provider # "ovh" THEN NoRequest
    ELSE IF c.op = "present" THEN OvhPresentEnd(c.val, last)
    ELSE OvhCleanupEnd(deleted, last)

-----------------------------------------------------------------------------

TypeOK ==
    /\ CallTypeOK({"idle", "resolve", "lock", "fetch", "write"})
    /\ provider \in Providers
    /\ records \subseteq [id : 0..nextId - 1, val : Values \cup Foreign]
    /\ nextId \in Nat
    /\ served \subseteq Values \cup Foreign
    /\ deletedAny \in [Tasks -> BOOLEAN]
    /\ attempt \in [Tasks -> 1..MaxAttempts]
    /\ sure \in [Tasks -> BOOLEAN]
    /\ promised \in [Values -> {"none", "present", "absent"}]

(* The name is empty, or somebody else has a record there. *)
Init ==
    /\ CallInit
    /\ provider \in Providers
    /\ records \in {{}} \cup {{[id |-> 0, val |-> f]} : f \in Foreign}
    /\ nextId = 1
    /\ served = ValuesOf(records)
    /\ request = [t \in Tasks |-> NoRequest]
    /\ todo = [t \in Tasks |-> {}]
    /\ deletedAny = [t \in Tasks |-> FALSE]
    /\ attempt = [t \in Tasks |-> 1]
    /\ sure = [t \in Tasks |-> FALSE]
    /\ promised = [v \in Values |-> "none"]

(* The outcome of earlier calls is open again once a call on the same value
   has the lock. *)
Start(t) ==
    /\ \/ (Begin(t) \/ Resolved(t)) /\ UNCHANGED promised
       \/ Acquire(t) /\ promised' = [promised EXCEPT ![call[t].val] = "none"]
    /\ UNCHANGED <<serverVars, request, todo, deletedAny, attempt, sure>>

(* The call ends without Ok, and without another request. *)
Fail(t, res) == Return(t, res) /\ UNCHANGED writeVars

(* An argument is refused, or the zone is not found. *)
ResolveFails(t) == pc[t] = "resolve" /\ Fail(t, "err") /\ UNCHANGED serverVars

(* Ok tells the caller that its value is there, or gone. *)
ReturnOk(t) ==
    /\ Return(t, "ok")
    /\ promised' = [promised EXCEPT ![call[t].val] =
          IF ~sure'[t] THEN "none" ELSE IF call[t].op = "present" THEN "present" ELSE "absent"]
    /\ UNCHANGED <<request, todo, attempt>>

(* The call sends request r and keeps the requests `rest` for later. *)
Send(t, r, rest) ==
    /\ Goto(t, "write")
    /\ request' = [request EXCEPT ![t] = r]
    /\ todo' = [todo EXCEPT ![t] = rest]
    /\ attempt' = [attempt EXCEPT ![t] = 1]
    /\ UNCHANGED promised

(* The call is through with one request, of kind `last`: it goes on with the
   ones in `rest`, or with what follows the loop, or it returns Ok.  It had its
   effect on the zone, or not yet. *)
Proceed(t, rest, last, effect) ==
    LET after == AfterLoop(call[t], deletedAny'[t], last)
        more == IF rest # {} THEN rest ELSE {after} \ {NoRequest} IN
    \/ /\ more = {}
       /\ ReturnOk(t)
    \/ /\ \E r \in more : Send(t, r, more \ {r})
       /\ done' = [done EXCEPT ![t] = @ \/ effect]

(* list_matching_records / fetch_existing / list_records answers. *)
Fetch(t) ==
    /\ pc[t] = "fetch"
    /\ sure' = [sure EXCEPT ![t] = \A l \in late : l.call.val # call[t].val]
    /\ deletedAny' = [deletedAny EXCEPT ![t] = FALSE]
    /\ Proceed(t, Plan(call[t], records), "list", FALSE)
    /\ UNCHANGED serverVars

(* The listing fails, or has more pages than are read. *)
FetchFails(t) == pc[t] = "fetch" /\ Fail(t, "err") /\ UNCHANGED serverVars

(* OVH's get_record answers.  A record with the value ends present, and is
   deleted next by cleanup; a record that is gone (404) is an error. *)
GetRecord(t) ==
    /\ pc[t] = "write"
    /\ request[t].kind = "get"
    /\ \E r \in records :
          /\ r.id = request[t].id
          /\ UNCHANGED <<serverVars, sure, deletedAny>>
          /\ \/ /\ r.val # call[t].val
                /\ Proceed(t, todo[t], "get", FALSE)
             \/ /\ r.val = call[t].val /\ call[t].op = "present"
                /\ ReturnOk(t)
             \/ /\ r.val = call[t].val /\ call[t].op = "cleanup"
                /\ Send(t, OvhDelete(r.id), todo[t])
                /\ UNCHANGED done

(* A request that writes is in flight. *)
Writing(t) == pc[t] = "write" /\ request[t].kind # "get"

(* The server applies request r.  OVH's nameservers pick changes up when the
   zone is refreshed, the others at once. *)
Apply(r) ==
    /\ \/ /\ r.kind = "create"
          /\ provider \in RefusesDuplicates => Matching(records, r.val) = {}
          /\ records' = records \cup {[id |-> nextId, val |-> r.val]}
          /\ nextId' = nextId + 1
       \/ /\ r.kind = "create"
          /\ provider \in RefusesDuplicates /\ Matching(records, r.val) # {}
          /\ UNCHANGED <<records, nextId>>
       \/ /\ r.kind \in {"delete", "rollback"}
          /\ records' = {q \in records : q.id # r.id}
          /\ UNCHANGED nextId
       \/ /\ r.kind = "refresh"
          /\ UNCHANGED <<records, nextId>>
    /\ served' = IF provider = "ovh" /\ r.kind # "refresh" THEN served ELSE ValuesOf(records')
    /\ UNCHANGED provider

(* The call has had its effect: its value is there, or no longer there. *)
HadEffect(t) == (call[t].op = "present") <=> (call[t].val \in ValuesOf(records'))

(* The request is applied and answered with success.  A delete of a record
   that is gone (404, INVALID_RECORD_ID) counts as one.  Porkbun's rollback is
   followed by the error that caused it. *)
WriteAccepted(t) ==
    /\ Writing(t)
    /\ Apply(request[t])
    /\ UNCHANGED sure
    /\ \/ /\ request[t].kind # "rollback"
          /\ deletedAny' = [deletedAny EXCEPT ![t] = @ \/ request[t].kind = "delete"]
          /\ Proceed(t, todo[t], request[t].kind, HadEffect(t))
       \/ /\ request[t].kind = "rollback"
          /\ Return(t, "err")
          /\ UNCHANGED <<request, todo, deletedAny, attempt, promised>>

(* Porkbun stored the record and warns that it will not resolve: it is taken
   back if its id came with the warning, and the call fails. *)
CreateWarned(t) ==
    /\ Writing(t)
    /\ provider = "porkbun" /\ request[t].kind = "create"
    /\ Matching(records, request[t].val) = {}
    /\ Apply(request[t])
    /\ \/ /\ Send(t, Rollback(nextId), {})
          /\ done' = [done EXCEPT ![t] = TRUE]
          /\ UNCHANGED <<deletedAny, sure>>
       \/ Fail(t, "err")

(* The request is refused (a 4xx other than 429): its caller gets the error. *)
Refused(t) == pc[t] = "write" /\ Fail(t, "err") /\ UNCHANGED serverVars

(* The attempt failed in a way send_retrying retries, up to MaxAttempts.  A
   Retry-After above MAX_RETRY_WAIT ends the retries early. *)
RetryOrReturn(t, retryable) ==
    \/ /\ retryable /\ attempt[t] < MaxAttempts
       /\ attempt' = [attempt EXCEPT ![t] = @ + 1]
       /\ Goto(t, "write")
       /\ done' = [done EXCEPT ![t] = @ \/ HadEffect(t)]
       /\ UNCHANGED <<request, todo, deletedAny, sure, promised>>
    \/ Fail(t, "err")

(* 429: not processed, so retried whatever the method. *)
Throttled(t) ==
    /\ Writing(t)
    /\ UNCHANGED serverVars
    /\ RetryOrReturn(t, TRUE)

(* 503: the server gave up, before or after it applied the request. *)
Unavailable(t) ==
    /\ Writing(t)
    /\ Apply(request[t]) \/ UNCHANGED serverVars
    /\ RetryOrReturn(t, IsIdempotent(request[t].method))

(* No answer within the client's timeout, a body that cannot be read, or the
   future is dropped while the request is out: it was applied, or never will
   be, or may be later. *)
Leave(t, res) ==
    /\ Writing(t)
    /\ \/ Return(t, res) /\ UNCHANGED serverVars
       \/ Return(t, res) /\ Apply(request[t])
       \/ provider \in LateWrites /\ Abandon(t, res, request[t]) /\ UNCHANGED serverVars
    /\ UNCHANGED writeVars

TimedOut(t) == Leave(t, "err")

(* The future is dropped at an await. *)
Cancel(t) ==
    \/ Leave(t, "dropped")
    \/ /\ pc[t] \in {"resolve", "lock", "fetch"} \/ (pc[t] = "write" /\ ~Writing(t))
       /\ Fail(t, "dropped")
       /\ UNCHANGED serverVars

(* A request whose caller is gone reaches the server, or is lost.  It may do
   the work of a cleanup in progress, whose delete is then answered 404. *)
Land ==
    \E l \in late :
        /\ late' = late \ {l}
        /\ Apply(l.req) \/ UNCHANGED serverVars
        /\ done' = [t \in Tasks |->
              done[t] \/ (pc[t] = "write" /\ call[t].op = "cleanup" /\ HadEffect(t))]
        /\ UNCHANGED <<pc, call, lock, calls, result, writeVars>>

Next ==
    \/ \E t \in Tasks :
          \/ Start(t) \/ ResolveFails(t)
          \/ Fetch(t) \/ FetchFails(t) \/ GetRecord(t)
          \/ WriteAccepted(t) \/ CreateWarned(t)
          \/ Refused(t) \/ Throttled(t) \/ Unavailable(t)
          \/ TimedOut(t) \/ Cancel(t)
    \/ Land

Spec == Init /\ [][Next]_vars

-----------------------------------------------------------------------------

(* provider.rs:34, 40: whatever the calls do, and wherever they fail, the
   records that other people keep at the name stay as they are. *)
ForeignUntouched ==
    [][ {r \in records' : r.val \in Foreign} = {r \in records : r.val \in Foreign} ]_vars

(* common.rs:26-29: a 503 is only retried where "replaying it" could not
   "create a duplicate record": there is one record per value. *)
NoDuplicate == \A v \in Values : \A r \in Matching(records, v), q \in Matching(records, v) : r = q

(* ovh.rs:391-393, infomaniak.rs:260, porkbun.rs:218: with every provider but Bunny,
   listing under the lock, not replaying a create, and the APIs that refuse a
   second record leave one record per value, whatever fails. *)
OneRecordPerValue == provider # "bunny" => NoDuplicate

(* The last call that returned Ok for a value, with no other at work on it
   since, left `set` as it promised. *)
Kept(set) ==
    \A v \in Values : /\ promised[v] = "present" => v \in set
                      /\ promised[v] = "absent" => v \notin set

(* provider.rs:32, 39: after Ok from `present` the value is in the zone, and
   after Ok from `cleanup` it is not, however many records earlier attempts
   had left behind and wherever they had failed.  (A request still in flight
   when the call listed the records is excepted.) *)
OkIsStored == Kept(ValuesOf(records))

(* provider.rs:36: presenting "a value that is already there must succeed";
   Ok means that the nameservers have it. *)
OkIsServed == Kept(served)

(* The calls given up: a rollback in flight will do what cleanup does. *)
Strays == {IF l.req.kind = "rollback" THEN [l.call EXCEPT !.op = "cleanup"] ELSE l.call : l \in late}

Txt == INSTANCE TxtRecord WITH values <- ValuesOf(records), running <- Running,
                               orphans <- Strays

(* Every provider of this family implements the DnsProvider contract: each
   step on the zone adds or removes the value of one call, and Ok is returned
   only for a call that had its effect. *)
ImplementsTxtRecord == Txt!Spec
=============================================================================
