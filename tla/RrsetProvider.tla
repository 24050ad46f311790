---------------------------- MODULE RrsetProvider ----------------------------
(***************************************************************************)
(* The providers whose API writes the TXT record set of a name as a whole: *)
(* Gandi, Scaleway, deSEC, PowerDNS, Route53 and Google Cloud DNS.         *)
(* `present` and `cleanup` read the set, merge their own value in or out,  *)
(* and write the set back, under the record's lock.                        *)
(*                                                                         *)
(* The API server is external: it answers, refuses, throttles (429), gives *)
(* up before or after applying the request (503), or does not answer in    *)
(* time.  A request whose caller is gone may be applied later (MaxLate).   *)
(***************************************************************************)
EXTENDS ProviderCall

CONSTANTS Providers,     \* the providers to check
          Foreign,       \* values other people keep at the name
          OtherWriters,  \* the providers whose sets they change while we run
          LateWrites     \* the providers whose requests may arrive after their
                         \* caller left

ASSUME ProvidersAssumption ==
    Providers \subseteq {"gandi", "scaleway", "desec", "powerdns", "route53", "google"}
ASSUME ForeignAssumption == Foreign \cap Values = {}
ASSUME ExposedAssumption == OtherWriters \subseteq Providers /\ LateWrites \subseteq Providers

MaxAttempts == 3   \* common.rs: MAX_ATTEMPTS

VARIABLES
    provider,  \* the provider in use
    rrset,     \* the record set the server has at the name
    outside,   \* the entries other people expect to find in it
    request,   \* request[t]: the write t is making
    attempt,   \* attempt[t]: 1-based, as in send_retrying
    round,     \* round[t]: 1-based, the `attempt` of Route53's send
    intended   \* the values that the calls which took effect add up to

vars == <<callVars, provider, rrset, outside, request, attempt, round, intended>>

(* An entry is a value in the form the API keeps it: presentation format, or
   as another client typed it. *)
Entries == [val : Values \cup Foreign, form : {"quoted", "plain"}]
Quoted(v) == [val |-> v, form |-> "quoted"]

(* TTLs: the configured one, or another that the set had before. *)
Sets == [ttl : {"config", "other"}, recs : SUBSET Entries]
NoSet == [ttl |-> "config", recs |-> {}]

ValuesOf(recs) == {e.val : e \in recs}
Without(recs, v) == {e \in recs : e.val # v}

-----------------------------------------------------------------------------
(* Requests.  `base` is the set a conditional write expects to find. *)

NoRequest == [method |-> "none"]
Replace(method, ttl, recs) ==
    [method |-> method, kind |-> "replace", set |-> [ttl |-> ttl, recs |-> recs]]
Delete(method) == [method |-> method, kind |-> "replace", set |-> NoSet]
Conditional(base, set) ==
    [method |-> "POST", kind |-> "conditional", base |-> base, set |-> set]

(* The server applies a write: a conditional one only to the set it names. *)
Accepts(r, s) == r.kind = "conditional" => s = r.base

(* reqwest's Method::is_idempotent. *)
IsIdempotent(method) == method \in {"PUT", "DELETE"}

-----------------------------------------------------------------------------
(* Gandi: fetch_existing, then put_values or delete_record. *)

GandiPut(recs) == Replace("PUT", "config", recs)

GandiDelete == Delete("DELETE")

(* Mutant: the set is replaced by the one value. *)
GandiPresentAlone(s, v) ==
    IF v \in ValuesOf(s.recs) THEN NoRequest ELSE GandiPut({Quoted(v)})

GandiPresent(s, v) ==
    IF v \in ValuesOf(s.recs) THEN NoRequest
    ELSE GandiPut(s.recs \cup {Quoted(v)})

GandiCleanup(s, v) ==
    LET remaining == Without(s.recs, v) IN
    IF remaining = s.recs THEN NoRequest
    ELSE IF remaining = {} THEN GandiDelete ELSE GandiPut(remaining)

(* Scaleway: fetch_existing, then a PATCH that sets or deletes. *)

ApplySet(recs) == Replace("PATCH", "config", recs)

ApplyDelete == Delete("PATCH")

ScalewayPresent(s, v) ==
    IF v \in ValuesOf(s.recs) THEN NoRequest
    ELSE ApplySet(s.recs \cup {Quoted(v)})

(* Mutant: the whole set goes. *)
ScalewayCleanupAll(s, v) ==
    IF Without(s.recs, v) = s.recs THEN NoRequest ELSE ApplyDelete

ScalewayCleanup(s, v) ==
    LET remaining == Without(s.recs, v) IN
    IF remaining = s.recs THEN NoRequest
    ELSE IF remaining = {} THEN ApplyDelete ELSE ApplySet(remaining)

(* deSEC: fetch_existing unquotes every value, write_values quotes them all
   again; no value deletes the set. *)

DesecFetch(s) == ValuesOf(s.recs)

WriteValues(values) ==
    IF values = {} THEN Delete("PATCH")
    ELSE Replace("PATCH", "config", {Quoted(v) : v \in values})

DesecPresent(s, v) ==
    IF v \in DesecFetch(s) THEN NoRequest ELSE WriteValues(DesecFetch(s) \cup {v})

DesecCleanup(s, v) ==
    IF v \notin DesecFetch(s) THEN NoRequest ELSE WriteValues(DesecFetch(s) \ {v})

(* PowerDNS: REPLACE with the set's own TTL, or DELETE. *)

PatchRrset(s) == IF s.recs = {} THEN Delete("PATCH") ELSE Replace("PATCH", s.ttl, s.recs)

PowerDnsPresent(s, v) ==
    IF v \in ValuesOf(s.recs) THEN NoRequest
    ELSE PatchRrset([s EXCEPT !.recs = @ \cup {Quoted(v)}])

PowerDnsCleanup(s, v) ==
    IF v \notin ValuesOf(s.recs) THEN NoRequest
    ELSE PatchRrset([s EXCEPT !.recs = Without(@, v)])

(* Route53: UPSERT with the set's own TTL; a DELETE names the current set. *)

(* Mutant: the configured TTL replaces the one of the set. *)
UpsertOwnTtl(s) == Replace("POST", "config", s.recs)

Upsert(s) == Replace("POST", s.ttl, s.recs)

Route53Present(s, v) ==
    IF v \in ValuesOf(s.recs) THEN NoRequest
    ELSE Upsert([s EXCEPT !.recs = @ \cup {Quoted(v)}])

Route53Cleanup(s, v) ==
    LET remaining == Without(s.recs, v) IN
    IF v \notin ValuesOf(s.recs) THEN NoRequest
    ELSE IF remaining = {} THEN Conditional(s, NoSet)
    ELSE Upsert([s EXCEPT !.recs = remaining])

(* Google: one change deletes the set exactly as fetched and adds the new one,
   so it is refused if the set changed in between. *)

(* Mutant: the change does not name the set it replaces. *)
ApplyChangeBlindly(s, recs) ==
    IF recs = {} THEN Delete("POST") ELSE Replace("POST", s.ttl, recs)

ApplyChange(s, recs) ==
    Conditional(s, IF recs = {} THEN NoSet ELSE [s EXCEPT !.recs = recs])

GooglePresent(s, v) ==
    IF v \in ValuesOf(s.recs) THEN NoRequest
    ELSE ApplyChange(s, s.recs \cup {Quoted(v)})

GoogleCleanup(s, v) ==
    IF v \notin ValuesOf(s.recs) THEN NoRequest
    ELSE ApplyChange(s, Without(s.recs, v))

(* The write a call makes after it read s, or NoRequest when the call has
   nothing to do and returns Ok. *)
Plan(c, s) ==
    LET p == c.op = "present" IN
    CASE provider = "gandi" -> IF p THEN GandiPresent(s, c.val) ELSE GandiCleanup(s, c.val)
      [] provider = "scaleway" -> IF p THEN ScalewayPresent(s, c.val) ELSE ScalewayCleanup(s, c.val)
      [] provider = "desec" -> IF p THEN DesecPresent(s, c.val) ELSE DesecCleanup(s, c.val)
      [] provider = "powerdns" -> IF p THEN PowerDnsPresent(s, c.val) ELSE PowerDnsCleanup(s, c.val)
      [] provider = "route53" -> IF p THEN Route53Present(s, c.val) ELSE Route53Cleanup(s, c.val)
      [] provider = "google" -> IF p THEN GooglePresent(s, c.val) ELSE GoogleCleanup(s, c.val)

(* Providers whose write is accepted first and polled until it is in sync. *)
Asynchronous == {"route53", "google"}

-----------------------------------------------------------------------------

TypeOK ==
    /\ CallTypeOK({"idle", "resolve", "lock", "fetch", "write", "poll"})
    /\ provider \in Providers
    /\ rrset \in Sets
    /\ outside \subseteq Entries
    /\ attempt \in [Tasks -> 1..MaxAttempts]
    /\ round \in [Tasks -> 1..MaxAttempts]
    /\ intended \subseteq Values

(* The name is empty, or somebody else has values there.  Two of the APIs may
   return a value as another client typed it. *)
Init ==
    /\ CallInit
    /\ provider \in Providers
    /\ \E form \in {"quoted", "plain"}, vs \in SUBSET Foreign :
          /\ form = "plain" => provider \in {"gandi", "scaleway"}
          /\ outside = {[val |-> v, form |-> form] : v \in vs}
    /\ rrset = IF outside = {} THEN NoSet ELSE [ttl |-> "other", recs |-> outside]
    /\ request = [t \in Tasks |-> NoRequest]
    /\ attempt = [t \in Tasks |-> 1]
    /\ round = [t \in Tasks |-> 1]
    /\ intended = {}

serverVars == <<provider, rrset, outside>>
writeVars == <<request, attempt, round>>

Start(t) ==
    /\ Begin(t) \/ Resolved(t) \/ Acquire(t)
    /\ UNCHANGED <<intended, serverVars, writeVars>>

(* The call returns without another request. *)
Stop(t, res) == Return(t, res) /\ UNCHANGED <<intended, serverVars, writeVars>>

(* An argument is refused, or the zone is not found. *)
ResolveFails(t) == pc[t] = "resolve" /\ Stop(t, "err")

(* fetch_existing / fetch_rrset answers; the merge follows without an await. *)
Fetch(t) ==
    /\ pc[t] = "fetch"
    /\ LET r == Plan(call[t], rrset) IN
          \/ /\ r = NoRequest
             /\ Stop(t, "ok")
          \/ /\ r # NoRequest
             /\ Goto(t, "write")
             /\ request' = [request EXCEPT ![t] = r]
             /\ attempt' = [attempt EXCEPT ![t] = 1]
             /\ round' = [round EXCEPT ![t] = 1]
             /\ UNCHANGED <<done, intended, serverVars>>

FetchFails(t) == pc[t] = "fetch" /\ Stop(t, "err")

(* The server applies request r of call c. *)
Apply(c, r) ==
    /\ Accepts(r, rrset)
    /\ rrset' = r.set
    /\ intended' = IF c.op = "present" THEN intended \cup {c.val} ELSE intended \ {c.val}

(* The server does not apply a request. *)
Skip == UNCHANGED <<rrset, intended>>

(* The write is applied and answered with success. *)
WriteAccepted(t) ==
    /\ pc[t] = "write"
    /\ Apply(call[t], request[t])
    /\ \/ /\ provider \in Asynchronous
          /\ Goto(t, "poll")
          /\ done' = [done EXCEPT ![t] = TRUE]
       \/ /\ provider \notin Asynchronous
          /\ Return(t, "ok")
    /\ UNCHANGED <<provider, outside, writeVars>>

(* The write is refused (a 4xx other than 429): its caller gets the error. *)
WriteRefused(t) == pc[t] = "write" /\ Stop(t, "err")

(* The attempt failed in a way send_retrying retries, up to MaxAttempts.  A
   Retry-After above MAX_RETRY_WAIT ends the retries early. *)
RetryOrReturn(t, retryable, applied) ==
    \/ /\ retryable
       /\ attempt[t] < MaxAttempts
       /\ attempt' = [attempt EXCEPT ![t] = @ + 1]
       /\ Goto(t, "write")
       /\ done' = [done EXCEPT ![t] = @ \/ applied]
       /\ UNCHANGED <<request, round>>
    \/ /\ Return(t, "err")
       /\ UNCHANGED writeVars

(* 429: not processed, so retried whatever the method. *)
Throttled(t) ==
    /\ pc[t] = "write"
    /\ RetryOrReturn(t, TRUE, FALSE)
    /\ UNCHANGED <<intended, serverVars>>

(* Route53's own loop over send_retrying: a 400 with a throttling code is sent
   again, with a fresh count of attempts. *)
ThrottledByCode(t) ==
    /\ pc[t] = "write"
    /\ provider = "route53" /\ round[t] < MaxAttempts
    /\ round' = [round EXCEPT ![t] = @ + 1]
    /\ attempt' = [attempt EXCEPT ![t] = 1]
    /\ UNCHANGED <<callVars, serverVars, request, intended>>

(* 503: the server gave up, before or after it applied the request. *)
Unavailable(t) ==
    /\ pc[t] = "write"
    /\ \E applied \in BOOLEAN :
          /\ IF applied THEN Apply(call[t], request[t]) ELSE Skip
          /\ RetryOrReturn(t, IsIdempotent(request[t].method), applied)
    /\ UNCHANGED <<provider, outside>>

(* No answer within the client's timeout, or the future is dropped while the
   request is out: it was applied, or never will be, or may be later. *)
Leave(t, res) ==
    /\ pc[t] = "write"
    /\ \/ Return(t, res) /\ Skip
       \/ Return(t, res) /\ Apply(call[t], request[t])
       \/ provider \in LateWrites /\ Abandon(t, res, request[t]) /\ Skip
    /\ UNCHANGED <<provider, outside, writeVars>>

TimedOut(t) == Leave(t, "err")

(* wait_for_change: in sync, or still pending at the deadline, or the status
   could not be read. *)
Poll(t) == pc[t] = "poll" /\ \E res \in {"ok", "err"} : Stop(t, res)

(* The future is dropped at an await. *)
Cancel(t) ==
    \/ Leave(t, "dropped")
    \/ pc[t] \in {"resolve", "lock", "fetch", "poll"} /\ Stop(t, "dropped")

(* A request whose caller is gone reaches the server, or is lost. *)
Land ==
    \E l \in late :
        /\ late' = late \ {l}
        /\ Apply(l.call, l.req) \/ Skip
        /\ UNCHANGED <<pc, call, lock, calls, result, done, provider, outside, writeVars>>

(* Somebody else adds or removes a value of theirs, in one step. *)
OthersWrite ==
    /\ provider \in OtherWriters
    /\ \E v \in Foreign :
          /\ outside' = IF Quoted(v) \in outside THEN outside \ {Quoted(v)}
                                                ELSE outside \cup {Quoted(v)}
          /\ LET recs == (rrset.recs \ outside) \cup outside' IN
             rrset' = IF recs = {} THEN NoSet ELSE [rrset EXCEPT !.recs = recs]
    /\ UNCHANGED <<callVars, provider, writeVars, intended>>

Next ==
    \/ \E t \in Tasks :
          \/ Start(t) \/ ResolveFails(t)
          \/ Fetch(t) \/ FetchFails(t)
          \/ WriteAccepted(t) \/ WriteRefused(t)
          \/ Throttled(t) \/ ThrottledByCode(t) \/ Unavailable(t)
          \/ TimedOut(t) \/ Poll(t) \/ Cancel(t)
    \/ Land
    \/ OthersWrite

Spec == Init /\ [][Next]_vars

-----------------------------------------------------------------------------

(* README.md:14: parallel issuances on the same record "can't clobber each
   other".  Of the ACME values, the zone has the ones that the calls which
   took effect add up to: no write restores a value that was cleaned up, or
   drops one that was presented, behind the back of another call. *)
NoLostUpdate == ValuesOf(rrset.recs) \cap Values = intended

(* gandi.rs:239, scaleway.rs:302, powerdns.rs:359, route53.rs:799: the values
   other people keep at the name are written back exactly as they are. *)
ForeignKept == {e \in rrset.recs : e.val \in Foreign} = outside

(* route53.rs:29, google_cloud_dns.rs:36, powerdns.rs:361: a set that existed
   keeps its own TTL, as long as nobody else writes to it. *)
TtlKept ==
    provider \in {"powerdns", "route53", "google"} /\ outside # {}
        /\ provider \notin OtherWriters => rrset.ttl = "other"

(* What a call is about to write was merged from what the server has now, or
   the server already has it (a replayed PUT): the lock leaves no room for a
   stale merge, as long as nothing arrives late and nobody else writes. *)
MergeIsFresh ==
    \A t \in Tasks : pc[t] = "write" /\ provider \notin LateWrites \cup OtherWriters =>
        request[t] = Plan(call[t], rrset) \/ (done[t] /\ rrset = request[t].set)

Txt == INSTANCE TxtRecord WITH values <- ValuesOf(rrset.recs), running <- Running,
                               orphans <- Orphans

(* Every provider of this family implements the DnsProvider contract: each
   step on the zone adds or removes the value of one call, and Ok is returned
   only for a call that had its effect. *)
ImplementsTxtRecord == Txt!Spec
=============================================================================
