--------------------------- MODULE UpdateProvider ----------------------------
(***************************************************************************)
(* The providers that send the server one value to add or to remove, and   *)
(* leave the merge to it: Hetzner (add_records and remove_records, run by  *)
(* the server as an action that is polled until it settles) and RFC 2136   *)
(* (one signed update over TCP, without a lock).                           *)
(*                                                                         *)
(* The server is external.  It may be slow: an action may settle, and an   *)
(* update may arrive, after its caller has left.                           *)
(***************************************************************************)
EXTENDS ProviderCall

CONSTANTS Providers,     \* the providers to check
          Foreign,       \* values other people keep at the name
          OtherWriters   \* the providers whose sets they change while we run

ASSUME ProvidersAssumption == Providers \subseteq {"hetzner", "rfc2136"}
ASSUME ForeignAssumption == Foreign \cap Values = {}
ASSUME OtherWritersAssumption == OtherWriters \subseteq Providers

MaxAttempts == 3   \* common.rs: MAX_ATTEMPTS

VARIABLES
    provider,  \* the provider in use
    rrset,     \* the record set the server has at the name
    request,   \* request[t]: the update t is sending
    attempt,   \* attempt[t]: 1-based, as in send_retrying
    action     \* action[t]: the status of t's action on the server

serverVars == <<provider, rrset>>
writeVars == <<request, attempt, action>>
vars == <<callVars, serverVars, writeVars>>

NoSet == [ttl |-> "config", vals |-> {}]
NoRequest == [kind |-> "none"]
AddValue(v, ttl) == [kind |-> "add", val |-> v, ttl |-> ttl]
RemoveValue(v) == [kind |-> "remove", val |-> v, ttl |-> "none"]

-----------------------------------------------------------------------------

(* Mutant: the TTL is always sent. *)
HetznerPresentTtl(s, v) == IF v \in s.vals THEN NoRequest ELSE AddValue(v, "config")

(* A TTL goes along only when the set does not exist yet. *)
HetznerPresent(s, v) ==
    IF v \in s.vals THEN NoRequest
    ELSE AddValue(v, IF s.vals = {} THEN "config" ELSE "none")

HetznerCleanup(s, v) == IF v \in s.vals THEN RemoveValue(v) ELSE NoRequest

HetznerPlan(c, s) ==
    IF c.op = "present" THEN HetznerPresent(s, c.val) ELSE HetznerCleanup(s, c.val)

(* build_present_message and build_cleanup_message. *)
Rfc2136Update(c) == IF c.op = "present" THEN AddValue(c.val, "config") ELSE RemoveValue(c.val)

(* An answer to an update: whether it is one to ours, its code, and whether
   its signature verifies.  Only the server's own answers verify. *)
Answers == [ours : BOOLEAN, rcode : {"NoError", "error"}, verified : BOOLEAN]

(* Mutant: an answer is believed without its signature. *)
BelieveResponse(a) == a.ours /\ a.rcode = "NoError"

CheckResponse(a) == a.ours /\ a.rcode = "NoError" /\ a.verified

(* Hetzner refuses a TTL other than the set's. *)
TtlMatches(r) == r.ttl = "none" \/ rrset.vals = {} \/ r.ttl = rrset.ttl
Accepts(r) == provider = "hetzner" => TtlMatches(r)

-----------------------------------------------------------------------------

TypeOK ==
    /\ CallTypeOK({"idle", "resolve", "lock", "fetch", "write", "poll"})
    /\ provider \in Providers
    /\ rrset \in [ttl : {"config", "other"}, vals : SUBSET (Values \cup Foreign)]
    /\ attempt \in [Tasks -> 1..MaxAttempts]
    /\ action \in [Tasks -> {"none", "running", "success", "error"}]

Init ==
    /\ CallInit
    /\ provider \in Providers
    /\ rrset \in {NoSet} \cup [ttl : {"config", "other"}, vals : (SUBSET Foreign) \ {{}}]
    /\ request = [t \in Tasks |-> NoRequest]
    /\ attempt = [t \in Tasks |-> 1]
    /\ action = [t \in Tasks |-> "none"]

Start(t) ==
    /\ Begin(t) \/ (provider = "hetzner" /\ (Resolved(t) \/ Acquire(t)))
    /\ UNCHANGED <<serverVars, writeVars>>

(* The call sends an update. *)
Send(t, r) ==
    /\ Goto(t, "write")
    /\ request' = [request EXCEPT ![t] = r]
    /\ attempt' = [attempt EXCEPT ![t] = 1]
    /\ UNCHANGED <<done, serverVars, action>>

(* RFC 2136 names its zone and sends the update at once. *)
SendUpdate(t) ==
    /\ provider = "rfc2136" /\ pc[t] = "resolve"
    /\ Send(t, Rfc2136Update(call[t]))

(* The call returns without another request. *)
Stop(t, res) ==
    /\ Return(t, res)
    /\ action' = [action EXCEPT ![t] = "none"]
    /\ UNCHANGED <<serverVars, request, attempt>>

(* An argument is refused, the zone is not found, or fetch_existing fails. *)
Fails(t) == pc[t] \in {"resolve", "fetch"} /\ Stop(t, "err")

(* Hetzner's fetch_existing answers. *)
Fetch(t) ==
    /\ pc[t] = "fetch"
    /\ LET r == HetznerPlan(call[t], rrset) IN
          IF r = NoRequest THEN Stop(t, "ok") ELSE Send(t, r)

(* The server applies update r. *)
Apply(r) ==
    /\ Accepts(r)
    /\ \/ /\ r.kind = "add"
          /\ rrset' = [ttl |-> IF r.ttl = "none" THEN rrset.ttl ELSE r.ttl,
                       vals |-> rrset.vals \cup {r.val}]
       \/ /\ r.kind = "remove"
          /\ rrset' = IF rrset.vals \subseteq {r.val} THEN NoSet
                      ELSE [rrset EXCEPT !.vals = @ \ {r.val}]
    /\ UNCHANGED provider

(* RFC 2136: an answer comes back, after the server applied the update or
   instead of it. *)
Answered(t) ==
    /\ provider = "rfc2136" /\ pc[t] = "write"
    /\ \E a \in Answers :
          /\ \/ Apply(request[t])
             \/ UNCHANGED serverVars /\ (a.verified => a.rcode = "error")
          /\ Return(t, IF CheckResponse(a) THEN "ok" ELSE "err")
    /\ UNCHANGED writeVars

(* Hetzner: the POST is accepted, and its action is under way. *)
ActionCreated(t) ==
    /\ provider = "hetzner" /\ pc[t] = "write"
    /\ Goto(t, "poll")
    /\ action' = [action EXCEPT ![t] = "running"]
    /\ UNCHANGED <<done, serverVars, request, attempt>>

(* The server runs the action to its end. *)
ActionSettles(t) ==
    /\ pc[t] = "poll" /\ action[t] = "running"
    /\ \/ /\ Apply(request[t])
          /\ action' = [action EXCEPT ![t] = "success"]
          /\ done' = [done EXCEPT ![t] = TRUE]
       \/ /\ action' = [action EXCEPT ![t] = "error"]
          /\ UNCHANGED <<serverVars, done>>
    /\ UNCHANGED <<pc, call, lock, calls, result, late, request, attempt>>

(* The caller leaves an update behind that is not settled: it was applied, or
   never will be, or may be later. *)
LeaveBehind(t, res) ==
    /\ \/ Return(t, res) /\ UNCHANGED serverVars
       \/ Return(t, res) /\ Apply(request[t])
       \/ Abandon(t, res, request[t]) /\ UNCHANGED serverVars
    /\ action' = [action EXCEPT ![t] = "none"]
    /\ UNCHANGED <<request, attempt>>

(* Mutant: the action is polled without a deadline. *)
PollUntilSettled(t) ==
    /\ pc[t] = "poll"
    /\ \/ action[t] = "success" /\ Stop(t, "ok")
       \/ action[t] = "error" /\ Stop(t, "err")

(* wait_for_action: settled, or still running at the deadline, or its status
   could not be read. *)
WaitForAction(t) ==
    /\ pc[t] = "poll"
    /\ \/ action[t] = "success" /\ Stop(t, "ok")
       \/ action[t] # "running" /\ Stop(t, "err")
       \/ action[t] = "running" /\ LeaveBehind(t, "err")

(* The POST is refused (a 4xx, or a 429 once the attempts are used up). *)
Refused(t) == provider = "hetzner" /\ pc[t] = "write" /\ Stop(t, "err")

(* 429: sent again, up to MaxAttempts; the POST of a 503 is not. *)
Throttled(t) ==
    /\ provider = "hetzner" /\ pc[t] = "write"
    /\ attempt[t] < MaxAttempts
    /\ attempt' = [attempt EXCEPT ![t] = @ + 1]
    /\ UNCHANGED <<callVars, serverVars, request, action>>

(* No usable answer: a timeout, a broken connection, a 503. *)
TimedOut(t) == pc[t] = "write" /\ LeaveBehind(t, "err")

(* The future is dropped at an await. *)
Cancel(t) ==
    \/ pc[t] \in {"resolve", "lock", "fetch"} /\ Stop(t, "dropped")
    \/ pc[t] = "write" /\ LeaveBehind(t, "dropped")
    \/ /\ pc[t] = "poll"
       /\ IF action[t] = "running" THEN LeaveBehind(t, "dropped") ELSE Stop(t, "dropped")

(* An update whose caller is gone takes effect, or never will. *)
Land ==
    \E l \in late :
        /\ late' = late \ {l}
        /\ Apply(l.req) \/ UNCHANGED serverVars
        /\ UNCHANGED <<pc, call, lock, calls, result, done, writeVars>>

(* Somebody else adds or removes a value of theirs. *)
OthersWrite ==
    /\ provider \in OtherWriters
    /\ \E v \in Foreign :
          LET vals == IF v \in rrset.vals THEN rrset.vals \ {v} ELSE rrset.vals \cup {v} IN
          rrset' = IF vals = {} THEN NoSet
                   ELSE [ttl |-> IF rrset.vals = {} THEN "other" ELSE rrset.ttl, vals |-> vals]
    /\ UNCHANGED <<callVars, provider, writeVars>>

Next ==
    \/ \E t \in Tasks :
          \/ Start(t) \/ SendUpdate(t) \/ Fails(t) \/ Fetch(t)
          \/ Answered(t) \/ ActionCreated(t) \/ ActionSettles(t) \/ WaitForAction(t)
          \/ Refused(t) \/ Throttled(t) \/ TimedOut(t) \/ Cancel(t)
    \/ Land
    \/ OthersWrite

Spec == Init /\ [][Next]_vars

(* Every request has a timeout and polling a deadline; nothing is assumed of
   the server's actions. *)
Fairness == \A t \in Tasks :
    /\ WF_vars((Start(t) /\ pc[t] = "resolve") \/ SendUpdate(t))
    /\ SF_vars(Start(t) /\ pc[t] = "lock")
    /\ WF_vars(Fails(t) \/ Fetch(t))
    /\ WF_vars(Answered(t) \/ ActionCreated(t) \/ Refused(t) \/ Throttled(t) \/ TimedOut(t))
    /\ WF_vars(WaitForAction(t))

FairSpec == Spec /\ Fairness

-----------------------------------------------------------------------------

(* hetzner.rs:385-388: "the API rejects one that differs from the TTL of an
   existing RRSet".  As long as nobody else writes, no update is on its way,
   or comes late, with a TTL that the set would refuse. *)
TtlAccepted ==
    /\ \A t \in Tasks : pc[t] \in {"write", "poll"} /\ action[t] \in {"none", "running"} =>
          Accepts(request[t])
    /\ \A l \in late : Accepts(l.req)

Txt == INSTANCE TxtRecord WITH values <- rrset.vals, running <- Running, orphans <- Orphans

(* Both providers implement the DnsProvider contract, late updates, answers
   that are not the server's and other writers included: each step on the zone
   adds or removes the value of one call, and Ok is returned only for a call
   that had its effect. *)
ImplementsTxtRecord == Txt!Spec

(* A call returns even if the server never settles its action
   (hetzner.rs:252) or never answers (rfc2136.rs:426). *)
EveryCallReturns == \A t \in Tasks : pc[t] # "idle" ~> pc[t] = "idle"
=============================================================================
