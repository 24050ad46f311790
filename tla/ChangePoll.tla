------------------------------ MODULE ChangePoll -----------------------------
(***************************************************************************)
(* wait_for_change (Route53, Google Cloud DNS) and wait_for_action         *)
(* (Hetzner): a write was accepted, and its change is polled until it has  *)
(* settled or the deadline is near.  A poll is a GET that send_retrying    *)
(* repeats, with the waits retry_delay gives, and that Route53's send      *)
(* repeats once more.                                                      *)
(*                                                                         *)
(* The API is external.  Time is counted in units from the start of the    *)
(* wait.                                                                   *)
(***************************************************************************)
EXTENDS Naturals

CONSTANTS ChangeTimeout,   \* CHANGE_TIMEOUT, ACTION_TIMEOUT
          PollInterval,    \* CHANGE_POLL_INTERVAL, ACTION_POLL_INTERVAL
          RequestTime,     \* the client's timeout for one attempt
          TokenTime,       \* the longest access_token takes (Google)
          MaxRetryWait,    \* MAX_RETRY_WAIT
          Backoff          \* RETRY_BACKOFF

ASSUME ChangeAssumption ==
    /\ ChangeTimeout \in Nat /\ PollInterval \in Nat /\ RequestTime \in Nat
    /\ TokenTime \in Nat /\ MaxRetryWait \in Nat /\ Backoff \in Nat

VARIABLES
    api,         \* which provider, fixed
    ppc,         \* where the wait is
    time,        \* the clock; the deadline is ChangeTimeout
    status,      \* the change at the API
    settledAt,   \* history: when it settled
    seen,        \* the status in the last answer
    sentAt,      \* when the attempt under way was sent
    attempt,     \* of send_retrying
    cycle        \* of Route53's send, around send_retrying

pollVars == <<api, ppc, time, status, settledAt, seen, sentAt, attempt, cycle>>
requestVars == <<sentAt, attempt, cycle>>

MaxAttempts == 3

Over == {"ok", "failed", "late", "err"}

PollTypeOK ==
    /\ api \in {"route53", "google", "hetzner"}
    /\ ppc \in {"look", "fetch", "send", "answer"} \cup Over
    /\ time \in Nat /\ settledAt \in Nat /\ sentAt \in Nat
    /\ status \in {"pending", "done", "failed"}
    /\ seen \in {"pending", "done", "failed"}
    /\ attempt \in 1..MaxAttempts /\ cycle \in 1..MaxAttempts

(* Only an action of Hetzner's fails once it was accepted. *)
Settled == {"done"} \cup (IF api = "hetzner" THEN {"failed"} ELSE {})

(* The answer to the write shows the change pending, or settled already. *)
PollInit ==
    /\ api \in {"route53", "google", "hetzner"}
    /\ ppc = "look" /\ time = 0
    /\ status \in {"pending"} \cup Settled /\ seen = status /\ settledAt = 0
    /\ sentAt = 0 /\ attempt = 1 /\ cycle = 1

Settle ==
    /\ ppc \notin Over /\ status = "pending"
    /\ status' \in Settled
    /\ settledAt' = time
    /\ UNCHANGED <<api, ppc, time, seen, requestVars>>

(* Mutant: the deadline is only looked at once it has passed. *)
LookTooLate ==
    /\ ppc = "look"
    /\ \/ seen = "done" /\ ppc' = "ok" /\ UNCHANGED time
       \/ seen = "failed" /\ ppc' = "failed" /\ UNCHANGED time
       \/ seen = "pending" /\ time > ChangeTimeout /\ ppc' = "late" /\ UNCHANGED time
       \/ /\ seen = "pending" /\ time <= ChangeTimeout
          /\ ppc' = "fetch" /\ time' = time + PollInterval
    /\ UNCHANGED <<api, status, settledAt, seen, requestVars>>

(* Mutant: the deadline comes before the status. *)
LookAtClockFirst ==
    /\ ppc = "look"
    /\ \/ time + PollInterval > ChangeTimeout /\ ppc' = "late" /\ UNCHANGED time
       \/ /\ time + PollInterval <= ChangeTimeout
          /\ \/ seen = "done" /\ ppc' = "ok" /\ UNCHANGED time
             \/ seen = "failed" /\ ppc' = "failed" /\ UNCHANGED time
             \/ seen = "pending" /\ ppc' = "fetch" /\ time' = time + PollInterval
    /\ UNCHANGED <<api, status, settledAt, seen, requestVars>>

(* The loop: settled, or no time for another interval, or sleep. *)
Look ==
    /\ ppc = "look"
    /\ \/ seen = "done" /\ ppc' = "ok" /\ UNCHANGED time
       \/ seen = "failed" /\ ppc' = "failed" /\ UNCHANGED time
       \/ seen = "pending" /\ time + PollInterval > ChangeTimeout /\ ppc' = "late" /\ UNCHANGED time
       \/ /\ seen = "pending" /\ time + PollInterval <= ChangeTimeout
          /\ ppc' = "fetch" /\ time' = time + PollInterval
    /\ UNCHANGED <<api, status, settledAt, seen, requestVars>>

(* fetch_change, fetch_action, get: Google's takes its token first. *)
Fetch ==
    /\ ppc = "fetch"
    /\ \/ \E d \in 0..(IF api = "google" THEN TokenTime ELSE 0) :
             /\ ppc' = "send" /\ time' = time + d
             /\ sentAt' = time + d /\ attempt' = 1 /\ cycle' = 1
       \/ api = "google" /\ ppc' = "err" /\ UNCHANGED <<time, requestVars>>
    /\ UNCHANGED <<api, status, settledAt, seen>>

(* The API handles the request within the client's timeout. *)
Handle ==
    /\ ppc = "send"
    /\ \E d \in 0..RequestTime : time' = time + d
    /\ seen' = status
    /\ ppc' = "answer"
    /\ UNCHANGED <<api, status, settledAt, requestVars>>

(* The answer arrives within the same timeout. *)
Answer ==
    /\ ppc = "answer"
    /\ \E d \in 0..RequestTime : time + d <= sentAt + RequestTime /\ time' = time + d
    /\ ppc' = "look"
    /\ UNCHANGED <<api, status, settledAt, seen, requestVars>>

(* retry_delay: Retry-After in seconds up to MAX_RETRY_WAIT, or the backoff,
   which doubles. *)
RetryBackoff(n) == Backoff * (IF n = 1 THEN 1 ELSE 2)
RetryDelays == (0..MaxRetryWait) \cup {RetryBackoff(attempt)}

(* 429 or 503: another attempt, unless it was the last. *)
Busy ==
    /\ ppc = "send" /\ attempt < MaxAttempts
    /\ \E d \in 0..RequestTime, wait \in RetryDelays : time' = time + d + wait
    /\ attempt' = attempt + 1 /\ sentAt' = time'
    /\ UNCHANGED <<api, ppc, status, settledAt, seen, cycle>>

(* Route53: a response whose body has a throttling code is sent again, with
   all its attempts. *)
Throttled ==
    /\ ppc = "send" /\ api = "route53" /\ cycle < MaxAttempts
    /\ \E d \in 0..RequestTime : time' = time + d + RetryBackoff(cycle)
    /\ cycle' = cycle + 1 /\ attempt' = 1 /\ sentAt' = time'
    /\ UNCHANGED <<api, ppc, status, settledAt, seen>>

(* Any other answer, the last one, a Retry-After that is too long, or none. *)
RequestFails ==
    /\ ppc = "send"
    /\ \E d \in 0..RequestTime : time' = time + d
    /\ ppc' = "err"
    /\ UNCHANGED <<api, status, settledAt, seen, requestVars>>

CallStep == Look \/ Fetch \/ Handle \/ Answer \/ Busy \/ Throttled \/ RequestFails

PollNext == Settle \/ CallStep

PollSpec == PollInit /\ [][PollNext]_pollVars

(* Requests and sleeps end; the change need not settle. *)
FairPollSpec == PollSpec /\ WF_pollVars(CallStep)

-----------------------------------------------------------------------------

(* The longest pause before another attempt. *)
MaxPause == IF MaxRetryWait > 2 * Backoff THEN MaxRetryWait ELSE 2 * Backoff

(* The longest a poll takes: one send_retrying, or three at Route53. *)
OneSend == 3 * RequestTime + 2 * MaxPause
Poll == IF api = "route53" THEN 3 * OneSend + 2 * MaxPause
        ELSE IF api = "google" THEN TokenTime + OneSend ELSE OneSend

(* route53.rs:386, google_cloud_dns.rs:459, hetzner.rs:252: "still pending" is
   reported only of a change that had not settled an interval, and the time of
   an answer, before the deadline. *)
LateIsReal ==
    ppc = "late" => status = "pending" \/ settledAt + RequestTime + PollInterval > ChangeTimeout

(* A call outlasts the deadline by one poll at most, however the API throttles
   it, so the record's lock is given back in time. *)
ChangeWaitBounded == time <= ChangeTimeout + Poll
=============================================================================
