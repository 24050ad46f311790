------------------------------- MODULE ApiClock ------------------------------
(***************************************************************************)
(* OVH: the offset of the API's clock from the local one.  sync_time, which *)
(* every call makes first, measures it once; signed_request adds it to the *)
(* local time.  The API's clock and the steps an operator or NTP sets the  *)
(* local one by are external.                                              *)
(***************************************************************************)
EXTENDS ProviderTasks, Integers

CONSTANTS Skews,      \* how far the local clock may be ahead
          MaxClock,   \* bound on the API's clock
          MaxDelay    \* bound on the time the answer to /auth/time takes

ASSUME ClockAssumption == Skews \subseteq Int /\ MaxClock \in Nat /\ MaxDelay \in Nat

VARIABLES
    clock,    \* the API's clock
    skew,     \* how far the local one is ahead of it
    delta,    \* time_delta, or Nothing
    cpc,      \* cpc[t]: where the call is
    sample,   \* sample[t]: the time the API answered
    ts,       \* ts[t]: X-Ovh-Timestamp of the request it is waiting for
    stepped   \* history: the local clock was set since delta was

clockVars == <<clock, skew, delta, cpc, sample, ts, stepped>>

ClockInit ==
    /\ clock = 0 /\ skew \in Skews /\ delta = Nothing /\ stepped = FALSE
    /\ cpc = [t \in Tasks |-> "sync"]
    /\ sample = [t \in Tasks |-> 0]
    /\ ts = [t \in Tasks |-> 0]

NowTimestamp == clock + skew

(* sync_time: nothing to do, or GET /auth/time, which the API answers. *)
SyncDone(t) ==
    /\ cpc[t] = "sync" /\ delta # Nothing
    /\ cpc' = [cpc EXCEPT ![t] = "sign"]
    /\ UNCHANGED <<clock, skew, delta, sample, ts, stepped>>

AuthTime(t) ==
    /\ cpc[t] = "sync" /\ delta = Nothing
    /\ cpc' = [cpc EXCEPT ![t] = "answer"]
    /\ sample' = [sample EXCEPT ![t] = clock]
    /\ UNCHANGED <<clock, skew, delta, ts, stepped>>

(* The request failed: the local clock is used as it is. *)
SyncFails(t) ==
    /\ cpc[t] = "answer" \/ (cpc[t] = "sync" /\ delta = Nothing)
    /\ cpc' = [cpc EXCEPT ![t] = "sign"]
    /\ UNCHANGED <<clock, skew, delta, sample, ts, stepped>>

(* Mutant: the offset with the opposite sign. *)
MeasuredBackwards(t) == NowTimestamp - sample[t]

Measured(t) == sample[t] - NowTimestamp

(* time_delta.set: the first answer counts. *)
SetDelta(t) ==
    /\ cpc[t] = "answer"
    /\ delta' = IF delta = Nothing THEN Measured(t) ELSE delta
    /\ stepped' = IF delta = Nothing THEN FALSE ELSE stepped
    /\ cpc' = [cpc EXCEPT ![t] = "sign"]
    /\ UNCHANGED <<clock, skew, sample, ts>>

(* signed_request *)
SignedRequest(t) ==
    /\ cpc[t] = "sign"
    /\ ts' = [ts EXCEPT ![t] = NowTimestamp + (IF delta = Nothing THEN 0 ELSE delta)]
    /\ cpc' = [cpc EXCEPT ![t] = "sent"]
    /\ UNCHANGED <<clock, skew, delta, sample, stepped>>

(* The call goes on to its next request, or another call begins. *)
RequestOver(t) ==
    /\ cpc[t] = "sent"
    /\ cpc' \in {[cpc EXCEPT ![t] = "sign"], [cpc EXCEPT ![t] = "sync"]}
    /\ ts' = [ts EXCEPT ![t] = 0]
    /\ UNCHANGED <<clock, skew, delta, sample, stepped>>

ClockTick ==
    /\ clock < MaxClock
    /\ \A t \in Tasks : cpc[t] = "answer" => clock < sample[t] + MaxDelay
    /\ clock' = clock + 1
    /\ UNCHANGED <<skew, delta, cpc, sample, ts, stepped>>

StepClock ==
    /\ skew' \in Skews /\ stepped' = TRUE
    /\ UNCHANGED <<clock, delta, cpc, sample, ts>>

ClockNext ==
    \/ ClockTick \/ StepClock
    \/ \E t \in Tasks :
          \/ SyncDone(t) \/ AuthTime(t) \/ SyncFails(t) \/ SetDelta(t)
          \/ SignedRequest(t) \/ RequestOver(t)

ClockSpec == ClockInit /\ [][ClockNext]_clockVars

-----------------------------------------------------------------------------

(* ovh.rs:94-96: a request is signed with the API's time, behind it by no more
   than the answer to /auth/time took, whichever of several calls measured it.
   Two cases are left open: nothing was measured yet, and the local clock was
   set afterwards, which no later call notices. *)
SignedWithApiTime ==
    [][\A t \in Tasks :
          /\ cpc[t] = "sign" /\ cpc'[t] = "sent"
          /\ delta # Nothing /\ ~stepped
          => clock - MaxDelay <= ts'[t] /\ ts'[t] <= clock]_clockVars
=============================================================================
