---------------------------- MODULE TimingProofs -----------------------------
(***************************************************************************)
(* What depends on a clock.                                                *)
(*                                                                         *)
(* The waits: what holds of wait_for_propagation whatever the number of    *)
(* nameservers, the timeout, the interval and the length of a lookup; and  *)
(* that the wait for a change is neither too short nor too long, whatever  *)
(* the timeouts, intervals and backoffs are.  LateIsReal is not inductive: *)
(* the answer that said "pending" may be old by the time the clock is      *)
(* looked at.  The invariant keeps how old: no older than the request it   *)
(* answers.  ChangeWaitBounded needs what every attempt so far may have    *)
(* cost.                                                                   *)
(*                                                                         *)
(* Google's token and OVH's clock: whoever exchanges a token holds the     *)
(* lock, and one that is taken from the cache has its margin left; the     *)
(* offset to the API's clock is wrong by no more than the answer's delay.  *)
(***************************************************************************)
EXTENDS Propagation, ChangePoll, TokenCache, ApiClock, FiniteSetTheorems, TLAPS

-----------------------------------------------------------------------------
(* wait_for_propagation. *)

All == Nameservers \cup {Fallback}

(* A target that is neither still to be asked nor to be asked again has
   confirmed; a pass is over unless targets are being asked. *)
Progress ==
    /\ pc \in {"ask", "sleep", "ok", "timeout"} =>
          targets # {} /\ targets \ (round \cup still) \subseteq served
    /\ pc \in {"sleep", "ok", "timeout"} => round = {}
    /\ pc \in {"lookup", "ok"} => still = {}

(* This pass has taken x at most, and is the first or began in time. *)
Within(x) == elapsed <= x \/ elapsed < Timeout + Interval + x

(* Each lookup of a pass has its share of the time the pass may take. *)
Clock ==
    /\ pc \in {"lookup", "err"} => elapsed = 0
    /\ pc = "ask" => Within(MaxLookup * (Cardinality(targets) - Cardinality(round)))
    /\ pc = "sleep" => elapsed < Timeout
    /\ pc \in {"ok", "timeout"} => Within(MaxLookup * Cardinality(targets))

PropagationInv == TypeOK /\ Progress /\ Clock

(* The targets are a finite set, and no pass asks more than there are. *)
LEMMA FiniteTargets ==
    ASSUME NEW T \in SUBSET All, NEW S \in SUBSET T
    PROVE  /\ IsFiniteSet(S) /\ IsFiniteSet(T)
           /\ Cardinality(S) \in Nat /\ Cardinality(T) \in Nat
           /\ Cardinality(S) <= Cardinality(T)
<1>1. IsFiniteSet(All)
  BY NameserversAssumption, FS_AddElement, Zenon DEF All
<1> QED
  BY <1>1, FS_Subset, FS_CardinalityType, Zenon

(* A pass with n lookups left to make has room for one more lookup's time. *)
LEMMA OneMoreLookup ==
    ASSUME NEW m \in Nat, NEW k \in Nat, NEW n \in Nat
    PROVE  m * (k - n) + m = m * (k - (n - 1))
  OBVIOUS

(* A pass takes no negative time. *)
LEMMA NoNegativeTime ==
    ASSUME NEW m \in Nat, NEW k \in Nat, NEW n \in Nat, n <= k
    PROVE  m * (k - n) \in Nat /\ m * k \in Nat /\ m * (k - n) <= m * k
<1>1. m * (k - n) \in Nat /\ m * n \in Nat /\ m * k \in Nat
  OBVIOUS
<1>2. m * k = m * (k - n) + m * n
  OBVIOUS
<1> QED
  BY <1>1, <1>2

(* Before the first lookup nothing is confirmed and no time has passed. *)
LEMMA InitPropagationInv == Init => PropagationInv
  BY DEF Init, PropagationInv, TypeOK, Progress, Clock

(* Polling starts with every target to be asked. *)
LEMMA WatchKeeps ==
    ASSUME PropagationInv, pc = "lookup", NEW S \in SUBSET All, S # {}, Watch(S)
    PROVE  PropagationInv'
<1> USE TimingAssumption
<1>1. TypeOK'
  BY Zenon DEF PropagationInv, TypeOK, Progress, Watch, dnsVars, All
<1>2. Progress'
  BY Zenon DEF PropagationInv, Progress, Watch, dnsVars
<1>3. MaxLookup * (Cardinality(S) - Cardinality(S)) \in Nat
  BY FiniteTargets, NoNegativeTime, SMTT(30)
<1>4. Clock'
  BY <1>3 DEF PropagationInv, Clock, Within, Watch, dnsVars
<1> QED
  BY <1>1, <1>2, <1>4, Zenon DEF PropagationInv

(* A lookup confirms its target, or puts it aside for the next pass. *)
LEMMA AskKeeps == ASSUME PropagationInv, Ask PROVE PropagationInv'
<1> USE TimingAssumption
<1>1. PICK n \in round : round' = round \ {n} /\ \E confirmed \in BOOLEAN : Check(n, confirmed)
  BY Zenon DEF Ask
<1>2. PICK d \in 0..MaxLookup : elapsed' = elapsed + d
  BY Zenon DEF Ask
<1>3. pc = "ask" /\ pc' = "ask" /\ targets' = targets
      /\ serving' = serving /\ served' = served
  BY Zenon DEF Ask, dnsVars
<1>4. TypeOK'
  BY <1>1, <1>2, <1>3, SMTT(30) DEF PropagationInv, TypeOK, Check
<1>5. Progress'
  BY <1>1, <1>3, Zenon DEF PropagationInv, TypeOK, Progress, Check
<1>6. Clock'
  <2>1. targets \in SUBSET All /\ round \in SUBSET targets /\ elapsed \in Nat
    BY Zenon DEF PropagationInv, TypeOK, All
  <2>2. /\ IsFiniteSet(round)
        /\ Cardinality(targets) \in Nat /\ Cardinality(round) \in Nat
    BY <2>1, FiniteTargets, Zenon
  <2>3. Cardinality(round') = Cardinality(round) - 1
    BY <1>1, <2>2, FS_RemoveElement, Zenon
  <2>4. Within(MaxLookup * (Cardinality(targets) - Cardinality(round)))
    BY <1>3, Zenon DEF PropagationInv, Clock
  <2>5. MaxLookup * (Cardinality(targets) - Cardinality(round)) + MaxLookup
          = MaxLookup * (Cardinality(targets) - (Cardinality(round) - 1))
    BY <2>2, OneMoreLookup
  <2> DEFINE x == MaxLookup * (Cardinality(targets) - Cardinality(round))
             y == MaxLookup * (Cardinality(targets) - (Cardinality(round) - 1))
  <2>6. x \in Int
    BY <2>2
  <2>7. elapsed' <= y \/ elapsed' < Timeout + Interval + y
    <3>1. Within(x) /\ x + MaxLookup = y
      BY <2>4, <2>5, Zenon
    <3> HIDE DEF x, y
    <3> QED
      BY <1>2, <2>1, <2>6, <3>1, SMTT(30) DEF Within
  <2> QED
    BY <1>3, <2>3, <2>7, Zenon DEF Clock, Within
<1> QED
  BY <1>4, <1>5, <1>6, Zenon DEF PropagationInv

(* A pass ends with Ok, the timeout, or time to spare. *)
LEMMA EndRoundKeeps == ASSUME PropagationInv, EndRound PROVE PropagationInv'
<1> USE TimingAssumption
<1>1. TypeOK'
  BY Zenon DEF PropagationInv, TypeOK, EndRound, dnsVars
<1>2. Progress'
  BY Zenon DEF PropagationInv, TypeOK, Progress, EndRound, dnsVars
<1>3. Cardinality(round) = 0 /\ Cardinality(targets) \in Nat
  BY FiniteTargets, FS_EmptySet, Zenon DEF PropagationInv, TypeOK, All, EndRound
<1>4. MaxLookup * (Cardinality(targets) - 0) = MaxLookup * Cardinality(targets)
  BY <1>3
<1>5. Within(MaxLookup * Cardinality(targets))
  BY <1>3, <1>4, Zenon DEF PropagationInv, Clock, EndRound
<1>6. Clock'
  BY <1>5, SMTT(30) DEF PropagationInv, TypeOK, Clock, Within, EndRound, dnsVars
<1> QED
  BY <1>1, <1>2, <1>6, Zenon DEF PropagationInv

(* The next pass starts at most one interval after the time was up. *)
LEMMA SleepKeeps == ASSUME PropagationInv, Sleep PROVE PropagationInv'
<1> USE TimingAssumption
<1>1. TypeOK'
  BY DEF PropagationInv, TypeOK, Sleep, dnsVars
<1>2. Progress'
  BY Zenon DEF PropagationInv, Progress, Sleep, dnsVars
<1>3. targets \in SUBSET All /\ still \in SUBSET targets
  BY Zenon DEF PropagationInv, TypeOK, All
<1>4. MaxLookup * (Cardinality(targets) - Cardinality(still)) \in Nat
  BY <1>3, FiniteTargets, NoNegativeTime, Zenon
<1>5. Clock'
  BY <1>4 DEF PropagationInv, TypeOK, Clock, Within, Sleep, dnsVars
<1> QED
  BY <1>1, <1>2, <1>5 DEF PropagationInv

(* Every step of the wait, and every change in DNS, keeps the invariant. *)
LEMMA NextPropagationInv == PropagationInv /\ [Next]_vars => PropagationInv'
<1> SUFFICES ASSUME PropagationInv, [Next]_vars PROVE PropagationInv'
  BY Zenon
<1>1. CASE AuthoritativeNameservers
  <2>1. PICK S \in (SUBSET Nameservers) \ {{}} : pc = "lookup" /\ Watch(S)
    BY <1>1, Zenon DEF AuthoritativeNameservers
  <2>2. S \in SUBSET All /\ S # {}
    BY Zenon DEF All
  <2> QED
    BY <2>1, <2>2, WatchKeeps, Zenon
<1>2. CASE UseFallback
  BY <1>2, WatchKeeps, Zenon DEF UseFallback, All
<1>3. CASE FallbackFails
  BY <1>3, Zenon DEF PropagationInv, TypeOK, Progress, Clock, Within, FallbackFails, dnsVars
<1>4. CASE Ask
  BY <1>4, AskKeeps, Zenon
<1>5. CASE EndRound
  BY <1>5, EndRoundKeeps, Zenon
<1>6. CASE Sleep
  BY <1>6, SleepKeeps
<1>7. CASE Propagate
  BY <1>7, Zenon DEF PropagationInv, TypeOK, Progress, Clock, Within, Propagate
<1>8. CASE Withdraw
  BY <1>8, Zenon DEF PropagationInv, TypeOK, Progress, Clock, Within, Withdraw
<1>9. CASE UNCHANGED vars
  BY <1>9, Zenon DEF PropagationInv, TypeOK, Progress, Clock, Within, vars, dnsVars
<1> QED
  BY <1>1, <1>2, <1>3, <1>4, <1>5, <1>6, <1>7, <1>8, <1>9, Zenon DEF Next

(* PropagationInv holds in every state of wait_for_propagation. *)
LEMMA PropagationInvariance == Spec => []PropagationInv
<1> QED
  BY InitPropagationInv, NextPropagationInv, PTL DEF Spec

(* propagation.rs:32-51: Ok means that there was a target, and that every
   target served the record at some time. *)
THEOREM PropagationIsComplete == Spec => []OkMeansServed
<1>1. PropagationInv => OkMeansServed
  BY Zenon DEF PropagationInv, Progress, OkMeansServed
<1> QED
  BY <1>1, PropagationInvariance, PTL

(* propagation.rs:55-88: the wait is over after its first pass, or late by less
   than an interval and a pass over the targets. *)
THEOREM PropagationEndsInTime == Spec => []OvershootBounded
<1>1. PropagationInv => OvershootBounded
  <2> SUFFICES ASSUME PropagationInv PROVE OvershootBounded
    BY Zenon
  <2> USE TimingAssumption
  <2>1. targets \in SUBSET All /\ round \in SUBSET targets /\ elapsed \in Nat
    BY Zenon DEF PropagationInv, TypeOK, All
  <2>2. /\ MaxLookup * Cardinality(targets) \in Nat
        /\ MaxLookup * (Cardinality(targets) - Cardinality(round)) \in Nat
        /\ MaxLookup * (Cardinality(targets) - Cardinality(round)) <= MaxLookup * Cardinality(targets)
    BY <2>1, FiniteTargets, NoNegativeTime, Zenon
  <2>3. Within(MaxLookup * Cardinality(targets))
    BY <2>1, <2>2 DEF PropagationInv, TypeOK, Clock, Within
  <2> QED
    BY <2>3, Zenon DEF OvershootBounded, Within
<1> QED
  BY <1>1, PropagationInvariance, PTL

-----------------------------------------------------------------------------
(* wait_for_change and wait_for_action. *)

(* An answer that says "pending" was true after the request was sent, and the
   request was over in time. *)
Fresh ==
    /\ settledAt <= time
    /\ ppc = "send" => time = sentAt
    /\ ppc = "answer" =>
          /\ sentAt <= time /\ time <= sentAt + RequestTime
          /\ seen = "pending" => status = "pending" \/ settledAt >= sentAt
    /\ ppc = "look" /\ seen = "pending" => status = "pending" \/ settledAt + RequestTime >= time
    /\ LateIsReal

(* What the attempts and the cycles before the present ones may have cost. *)
Tried == IF attempt = 1 THEN 0 ELSE IF attempt = 2 THEN RequestTime + MaxPause
         ELSE 2 * RequestTime + 2 * MaxPause
Cycled == IF cycle = 1 THEN 0 ELSE IF cycle = 2 THEN 3 * RequestTime + 3 * MaxPause
          ELSE 6 * RequestTime + 6 * MaxPause
Token == IF api = "google" THEN TokenTime ELSE 0

Budget ==
    /\ cycle # 1 => api = "route53"
    /\ ppc = "fetch" => time <= ChangeTimeout
    /\ ppc = "send" => time <= ChangeTimeout + Token + Cycled + Tried
    /\ ppc = "answer" => sentAt <= ChangeTimeout + Token + Cycled + Tried
    /\ ChangeWaitBounded

PollInv == PollTypeOK /\ Fresh /\ Budget

(* retry_delay never waits longer than the longest pause. *)
LEMMA PauseBound ==
    /\ MaxPause \in Nat /\ MaxRetryWait <= MaxPause
    /\ \A n \in 1..3 : RetryBackoff(n) \in Nat /\ RetryBackoff(n) <= MaxPause
BY ChangeAssumption, SMTT(30) DEF MaxPause, RetryBackoff

(* What is left of the bound when an attempt is sent. *)
LEMMA OneMoreAttempt ==
    ASSUME PollTypeOK, cycle # 1 => api = "route53"
    PROVE  Token + Cycled + Tried + RequestTime <= Poll
BY ChangeAssumption, PauseBound, SMTT(30)
   DEF PollTypeOK, MaxAttempts, Token, Cycled, Tried, Poll, OneSend

(* The same of the attempt that a step sends. *)
LEMMA OneMoreAttemptNext ==
    ASSUME PollTypeOK', cycle' # 1 => api' = "route53"
    PROVE  Token' + Cycled' + Tried' + RequestTime <= Poll'
BY ChangeAssumption, PauseBound, SMTT(30)
   DEF PollTypeOK, MaxAttempts, Token, Cycled, Tried, Poll, OneSend

(* At the start the answer to the write is fresh. *)
LEMMA InitPollInv == PollInit => PollInv
<1> SUFFICES ASSUME PollInit PROVE PollInv
  BY Zenon
<1>1. PollTypeOK
  BY SMTT(30) DEF PollInit, Settled, PollTypeOK, MaxAttempts
<1>2. Poll \in Nat /\ Token \in Nat
  BY ChangeAssumption, PauseBound, SMTT(30) DEF Poll, OneSend, Token
<1>3. Budget
  BY <1>2, ChangeAssumption, SMTT(30) DEF PollInit, Budget, ChangeWaitBounded
<1> QED BY <1>1, <1>3, ChangeAssumption, SMTT(30) DEF PollInv, PollInit, Fresh, LateIsReal

(* Every step of the wait, and of the API, keeps the invariant. *)
LEMMA NextPollInv == PollInv /\ [PollNext]_pollVars => PollInv'
<1> SUFFICES ASSUME PollInv, [PollNext]_pollVars PROVE PollInv'
  OBVIOUS
<1> USE ChangeAssumption DEF PollInv
<1>a. MaxPause \in Nat
  BY PauseBound, Zenon
<1>b. Token + Cycled + Tried + RequestTime <= Poll
  BY OneMoreAttempt, Zenon DEF Budget
<1>c. Token \in Nat /\ Cycled \in Nat /\ Tried \in Nat /\ Poll \in Nat
  BY <1>a DEF Token, Cycled, Tried, Poll, OneSend
<1>1. CASE Settle
  <2>1. PollTypeOK' /\ Fresh'
    BY <1>1, SMTT(30) DEF Settle, Settled, PollTypeOK, Over, Fresh, LateIsReal, requestVars
  <2>2. Budget'
    BY <1>1, Zenon DEF Settle, Budget, ChangeWaitBounded, Token, Cycled, Tried, Poll, requestVars
  <2> QED BY <2>1, <2>2, Zenon
<1>2. CASE Look
  <2>1. /\ time' \in {time, time + PollInterval} /\ ppc' \in {"ok", "failed", "late", "fetch"}
        /\ ppc' = "fetch" => time' <= ChangeTimeout
        /\ ppc' # "fetch" => time' = time
        /\ ppc' = "late" => seen = "pending" /\ time + PollInterval > ChangeTimeout
        /\ UNCHANGED <<api, status, settledAt, seen, sentAt, attempt, cycle>>
        /\ ppc = "look"
    BY <1>2, Zenon DEF Look, requestVars
  <2>2. PollTypeOK'
    BY <2>1, SMTT(30) DEF PollTypeOK, Over
  <2>3. Fresh'
    BY <2>1, SMTT(30) DEF PollTypeOK, Fresh, LateIsReal
  <2>4. Poll' = Poll
    BY <2>1, Zenon DEF Poll
  <2>5. Budget'
    BY <2>1, <2>4, <1>c, SMTT(30) DEF PollTypeOK, Budget, ChangeWaitBounded
  <2> QED BY <2>2, <2>3, <2>5, Zenon
<1>3. CASE Fetch
  <2>1. CASE ppc' = "send"
    <3>1. PICK d \in 0..Token : time' = time + d
      BY <1>3, <2>1, Zenon DEF Fetch, Token
    <3>2. /\ sentAt' = time' /\ attempt' = 1 /\ cycle' = 1 /\ ppc = "fetch"
          /\ UNCHANGED <<api, status, settledAt, seen>>
      BY <1>3, <2>1, SMTT(30) DEF Fetch
    <3>3. time' \in Nat /\ time <= time' /\ time' <= time + Token
      BY <3>1, <1>c, SMTT(30) DEF PollTypeOK
    <3>4. PollTypeOK' /\ Fresh'
      BY <2>1, <3>2, <3>3, SMTT(30) DEF PollTypeOK, MaxAttempts, Fresh, LateIsReal
    <3>5. /\ Token' = Token /\ Cycled' = 0 /\ Tried' = 0
          /\ Token' + Cycled' + Tried' + RequestTime <= Poll'
      <4>1. Token' = Token /\ Cycled' = 0 /\ Tried' = 0
        BY <3>2, Zenon DEF Token, Cycled, Tried
      <4>2. cycle' # 1 => api' = "route53"
        BY <3>2, Zenon
      <4> QED BY <3>4, <4>1, <4>2, OneMoreAttemptNext, Zenon
    <3>6. Poll' = Poll
      BY <3>2, Zenon DEF Poll
    <3>7. Budget'
      BY <2>1, <3>2, <3>3, <3>5, <3>6, <1>c, SMTT(30) DEF PollTypeOK, Budget, ChangeWaitBounded
    <3> QED BY <3>4, <3>7, Zenon
  <2>2. CASE ppc' = "err" /\ UNCHANGED <<api, time, status, settledAt, seen, sentAt, attempt, cycle>>
    <3>1. PollTypeOK' /\ Fresh'
      BY <2>2, Zenon DEF PollTypeOK, Over, Fresh, LateIsReal
    <3>2. Budget'
      BY <2>2, Zenon DEF Budget, ChangeWaitBounded, Poll
    <3> QED BY <3>1, <3>2
  <2> QED BY <1>3, <2>1, <2>2, Zenon DEF Fetch, requestVars
<1>4. CASE Handle \/ RequestFails
  <2>1. PICK d \in 0..RequestTime : time' = time + d
    BY <1>4, Zenon DEF Handle, RequestFails
  <2>2. /\ ppc = "send" /\ ppc' \in {"answer", "err"}
        /\ ppc' = "answer" => seen' = status
        /\ seen' \in {seen, status}
        /\ UNCHANGED <<api, status, settledAt, sentAt, attempt, cycle>>
    BY <1>4, Zenon DEF Handle, RequestFails, requestVars
  <2>3. PollTypeOK' /\ Fresh'
    BY <2>1, <2>2, SMTT(30) DEF PollTypeOK, Over, Fresh, LateIsReal
  <2>4. Token' = Token /\ Cycled' = Cycled /\ Tried' = Tried /\ Poll' = Poll
    BY <2>2, Zenon DEF Token, Cycled, Tried, Poll
  <2>5. Budget'
    BY <2>1, <2>2, <2>4, <1>b, <1>c, SMTT(30) DEF PollTypeOK, Fresh, Budget, ChangeWaitBounded
  <2> QED BY <2>3, <2>5, Zenon
<1>5. CASE Answer
  <2>1. PICK d \in 0..RequestTime : time + d <= sentAt + RequestTime /\ time' = time + d
    BY <1>5, Zenon DEF Answer
  <2>2. /\ ppc = "answer" /\ ppc' = "look"
        /\ UNCHANGED <<api, status, settledAt, seen, sentAt, attempt, cycle>>
    BY <1>5, Zenon DEF Answer, requestVars
  <2>3. PollTypeOK' /\ Fresh'
    BY <2>1, <2>2 DEF PollTypeOK, Fresh, LateIsReal
  <2>4. Poll' = Poll
    BY <2>2, Zenon DEF Poll
  <2>5. Budget'
    BY <2>1, <2>2, <2>4, <1>b, <1>c DEF PollTypeOK, Budget, ChangeWaitBounded
  <2> QED BY <2>3, <2>5
<1>6. CASE Busy
  <2>1. PICK d \in 0..RequestTime, wait \in RetryDelays : time' = time + d + wait
    BY <1>6, Zenon DEF Busy
  <2>2. wait \in Nat /\ wait <= MaxPause
    BY <2>1, PauseBound DEF RetryDelays, PollTypeOK, MaxAttempts
  <2>3. /\ ppc = "send" /\ ppc' = "send" /\ attempt < 3
        /\ attempt' = attempt + 1 /\ sentAt' = time'
        /\ UNCHANGED <<api, status, settledAt, seen, cycle>>
    BY <1>6, Zenon DEF Busy, MaxAttempts
  <2>4. time' \in Nat /\ time <= time' /\ time' <= time + RequestTime + MaxPause
    BY <2>1, <2>2, <1>a, SMTT(30) DEF PollTypeOK
  <2>5. PollTypeOK' /\ Fresh'
    BY <2>3, <2>4, SMTT(30) DEF PollTypeOK, MaxAttempts, Fresh, LateIsReal
  <2>6. Tried' = Tried + RequestTime + MaxPause /\ Token' = Token /\ Cycled' = Cycled /\ Poll' = Poll
    BY <2>3, <1>a DEF PollTypeOK, MaxAttempts, Tried, Token, Cycled, Poll
  <2>7. Token' + Cycled' + Tried' + RequestTime <= Poll'
    BY <2>3, <2>5, OneMoreAttemptNext, Zenon DEF Budget
  <2>8. Budget'
    BY <2>3, <2>4, <2>6, <2>7, <1>a, <1>c, SMTT(30) DEF PollTypeOK, Budget, ChangeWaitBounded
  <2> QED BY <2>5, <2>8, Zenon
<1>7. CASE Throttled
  <2>1. PICK d \in 0..RequestTime : time' = time + d + RetryBackoff(cycle)
    BY <1>7, Zenon DEF Throttled
  <2>2. /\ ppc = "send" /\ ppc' = "send" /\ cycle < 3 /\ api = "route53"
        /\ cycle' = cycle + 1 /\ attempt' = 1 /\ sentAt' = time'
        /\ UNCHANGED <<api, status, settledAt, seen>>
    BY <1>7, Zenon DEF Throttled, MaxAttempts
  <2>3. RetryBackoff(cycle) \in Nat /\ RetryBackoff(cycle) <= MaxPause
    BY PauseBound, Zenon DEF PollTypeOK, MaxAttempts
  <2>4. time' \in Nat /\ time <= time' /\ time' <= time + RequestTime + MaxPause
    BY <2>1, <2>3, <1>a, SMTT(30) DEF PollTypeOK
  <2>5. PollTypeOK' /\ Fresh'
    BY <2>2, <2>4, SMTT(30) DEF PollTypeOK, MaxAttempts, Fresh, LateIsReal
  <2>6. /\ Tried' = 0 /\ Token' = Token /\ Poll' = Poll
        /\ Cycled' = Cycled + 3 * RequestTime + 3 * MaxPause
        /\ Tried <= 2 * RequestTime + 2 * MaxPause
    BY <2>2, <1>a DEF PollTypeOK, MaxAttempts, Tried, Token, Cycled, Poll
  <2>7. Token' + Cycled' + Tried' + RequestTime <= Poll'
    BY <2>2, <2>5, OneMoreAttemptNext, Zenon
  <2>8. Budget'
    BY <2>2, <2>4, <2>6, <2>7, <1>a, <1>c, SMTT(30) DEF PollTypeOK, Budget, ChangeWaitBounded
  <2> QED BY <2>5, <2>8
<1>8. CASE UNCHANGED pollVars
  BY <1>8, SMTT(30) DEF pollVars, PollTypeOK, Fresh, LateIsReal, Budget, ChangeWaitBounded, Poll, Token,
              Cycled, Tried
<1> QED BY <1>1, <1>2, <1>3, <1>4, <1>5, <1>6, <1>7, <1>8, Zenon DEF PollNext, CallStep

(* PollInv holds in every state of the wait. *)
LEMMA PollInvariance == PollSpec => []PollInv
BY InitPollInv, NextPollInv, PTL DEF PollSpec

(* route53.rs:386, google_cloud_dns.rs:459, hetzner.rs:252: for all timeouts
   and intervals, "still pending" is said only of a change that was pending,
   or that settled too late for another poll to see it. *)
THEOREM LateVerdictIsReal == PollSpec => []LateIsReal
<1>1. PollInv => LateIsReal
  BY Zenon DEF PollInv, Fresh
<1> QED BY <1>1, PollInvariance, PTL

(* common.rs:44-99: for all timeouts and backoffs, the wait outlasts its
   deadline by one poll at most, with every retry a poll may make. *)
THEOREM ChangeWaitEndsInTime == PollSpec => []ChangeWaitBounded
<1>1. PollInv => ChangeWaitBounded
  BY Zenon DEF PollInv, Budget
<1> QED BY <1>1, PollInvariance, PTL

-----------------------------------------------------------------------------
(* The token of Google Cloud DNS. *)

TokenIds == 1..Len(issued)

TokenTypeOK ==
    /\ now \in Nat
    /\ issued \in Seq([at : Nat, life : Lifetimes])
    /\ tpc \in [Tasks -> {"none", "exchange", "issued", "have", "forget"}]
    /\ inHand \in [Tasks -> Nat]
    /\ taken \in [Tasks -> Nat]
    /\ revoked \subseteq Nat /\ refused \subseteq TokenIds
    /\ token # Nothing => token.id \in TokenIds /\ token.refreshAt \in Nat

(* The mutex is held during an exchange. *)
ExchangeLocked == \A t \in Tasks : tpc[t] \in {"exchange", "issued"} => lock = t

(* What a token is good for at least: it was taken while it had the margin, or
   its lifetime, ahead of it, less what its answer took. *)
Least(id) == IF issued[id].life < Margin THEN issued[id].life ELSE Margin

TakenInTime(id, when) == when + Least(id) <= issued[id].at + issued[id].life + MaxLatency

(* A token in hand was issued; one that is on its way is known to nobody, and
   one that was refused was revoked or used for too long. *)
HandOf(t) ==
    /\ tpc[t] \in {"issued", "have", "forget"} => inHand[t] \in TokenIds
    /\ tpc[t] = "issued" =>
          now <= issued[inHand[t]].at + MaxLatency /\ inHand[t] \notin refused
    /\ tpc[t] \in {"have", "forget"} => TakenInTime(inHand[t], taken[t])
    /\ tpc[t] = "forget" =>
          inHand[t] \in revoked \/ now + MaxLatency >= taken[t] + Least(inHand[t])

(* The cached token is given out only in time. *)
CachedInTime ==
    token # Nothing =>
        /\ token.id \notin refused
        /\ \A when \in Nat : when < token.refreshAt => TakenInTime(token.id, when)

TokenInv ==
    /\ TokenTypeOK /\ ExchangeLocked /\ CachedInTime
    /\ \A t \in Tasks : HandOf(t)

LEMMA TokenInvInit == TokenInit => TokenInv
BY TokenAssumption DEF TokenInit, TokenInv, TokenTypeOK, ExchangeLocked, HandOf, CachedInTime,
   TokenIds

(* A token that was issued stays what it is. *)
LEMMA IssuedStays ==
    ASSUME TokenTypeOK, NEW x \in [at : Nat, life : Lifetimes], issued' = Append(issued, x)
    PROVE  /\ issued' \in Seq([at : Nat, life : Lifetimes])
           /\ Len(issued') = Len(issued) + 1 /\ Len(issued) \in Nat
           /\ \A id \in TokenIds : id \in TokenIds' /\ issued'[id] = issued[id]
           /\ issued'[Len(issued) + 1] = x
<1>1. issued \in Seq([at : Nat, life : Lifetimes])
  BY Zenon DEF TokenTypeOK
<1>2. issued' \in Seq([at : Nat, life : Lifetimes])
  BY <1>1
<1>3. Len(issued') = Len(issued) + 1 /\ Len(issued) \in Nat /\ issued'[Len(issued) + 1] = x
  BY <1>1
<1>4. \A id \in TokenIds : id \in TokenIds'
  BY <1>3 DEF TokenIds
<1>5. \A id \in TokenIds : issued'[id] = issued[id]
  BY <1>1, SMTT(30) DEF TokenIds
<1> QED
  BY <1>2, <1>3, <1>4, <1>5, Zenon

(* The smaller of two numbers. *)
LEMMA SmallerFacts ==
    \A a \in Nat, b \in Nat : LET least == IF a < b THEN a ELSE b
                             IN  least \in Nat /\ least <= a /\ least <= b
OBVIOUS

LEMMA IssuedFacts ==
    ASSUME TokenTypeOK, NEW id \in TokenIds
    PROVE  /\ issued[id].at \in Nat /\ issued[id].life \in Nat
           /\ issued[id].life \in Lifetimes /\ Least(id) \in Nat
           /\ Least(id) <= issued[id].life /\ Least(id) <= Margin
<1> DEFINE R == [at : Nat, life : Lifetimes]
<1>1. issued \in Seq(R) /\ id \in 1..Len(issued)
  BY Zenon DEF TokenTypeOK, TokenIds
<1>2. issued[id] \in R
  <2> HIDE DEF R
  <2> QED BY <1>1
<1>3. /\ issued[id].at \in Nat /\ issued[id].life \in Lifetimes
  BY <1>2, Zenon
<1>4. issued[id].life \in Nat /\ Margin \in Nat
  BY <1>3, TokenAssumption, Zenon
<1> QED
  BY <1>3, <1>4, SmallerFacts, ZenonT(30) DEF Least

(* What a step of one call leaves alone of the others. *)
OtherHands(t) ==
    \A u \in Tasks \ {t} : tpc'[u] = tpc[u] /\ inHand'[u] = inHand[u] /\ taken'[u] = taken[u]

LEMMA HandsOfOthers ==
    ASSUME TokenInv, NEW t \in Tasks, OtherHands(t), HandOf(t)',
           UNCHANGED <<now, issued, revoked, refused>>
    PROVE  \A u \in Tasks : HandOf(u)'
<1>1. ASSUME NEW u \in Tasks \ {t} PROVE HandOf(u)'
  BY <1>1, Zenon DEF TokenInv, OtherHands, HandOf, TakenInTime, Least, TokenIds
<1> QED
  BY <1>1, Zenon

(* access_token, with a token in the cache and without. *)
LEMMA TokenHitKeeps == ASSUME TokenInv, NEW t \in Tasks, TokenHit(t) PROVE TokenInv'
<1>1. /\ UNCHANGED <<now, token, lock, issued, revoked, refused>>
      /\ tpc' = [tpc EXCEPT ![t] = "have"] /\ inHand' = [inHand EXCEPT ![t] = token.id]
      /\ taken' = [taken EXCEPT ![t] = now]
      /\ token # Nothing /\ now < token.refreshAt
  BY Zenon DEF TokenHit, Usable
<1>2. TokenTypeOK /\ token.id \in TokenIds /\ now \in Nat /\ TokenIds \subseteq Nat
  BY <1>1, SMTT(30) DEF TokenInv, TokenTypeOK, TokenIds
<1>3. TokenTypeOK'
  BY <1>1, <1>2, Zenon DEF TokenTypeOK, TokenIds
<1>4. /\ tpc'[t] = "have" /\ inHand'[t] = token.id /\ taken'[t] = now /\ OtherHands(t)
      /\ \A u \in Tasks : tpc'[u] \in {"exchange", "issued"} => tpc[u] \in {"exchange", "issued"}
  BY <1>1, <1>2, Zenon DEF TokenTypeOK, OtherHands
<1>5. TakenInTime(token.id, now)
  BY <1>1, <1>2, Zenon DEF TokenInv, CachedInTime
<1>6. HandOf(t)'
  BY <1>1, <1>2, <1>4, <1>5, Zenon DEF HandOf, TakenInTime, Least, TokenIds
<1>7. \A u \in Tasks : HandOf(u)'
  BY <1>1, <1>4, <1>6, HandsOfOthers, ZenonT(30)
<1>8. ExchangeLocked' /\ CachedInTime'
  BY <1>1, <1>4, ZenonT(30) DEF TokenInv, ExchangeLocked, CachedInTime, TakenInTime, Least
<1> QED
  BY <1>3, <1>7, <1>8, Zenon DEF TokenInv

LEMMA TokenMissKeeps == ASSUME TokenInv, NEW t \in Tasks, TokenMiss(t) PROVE TokenInv'
<1>1. /\ UNCHANGED <<now, token, inHand, taken, issued, revoked, refused>>
      /\ tpc' = [tpc EXCEPT ![t] = "exchange"] /\ lock = Nothing /\ lock' = t
  BY Zenon DEF TokenMiss
<1>2. TokenTypeOK'
  BY <1>1, Zenon DEF TokenInv, TokenTypeOK, TokenIds
<1>3. tpc'[t] = "exchange" /\ OtherHands(t)
  BY <1>1, ZenonT(30) DEF TokenInv, TokenTypeOK, OtherHands
<1>4. HandOf(t)'
  BY <1>3, Zenon DEF HandOf
<1>5. \A u \in Tasks : HandOf(u)'
  BY <1>1, <1>3, <1>4, HandsOfOthers, Zenon
<1>6. ExchangeLocked'
  BY <1>1, <1>3, TasksAssumption, ZenonT(30) DEF TokenInv, ExchangeLocked, OtherHands
<1>7. CachedInTime'
  BY <1>1, Zenon DEF TokenInv, CachedInTime, TakenInTime, Least
<1> QED
  BY <1>2, <1>5, <1>6, <1>7, Zenon DEF TokenInv

(* The endpoint issues a token: the tokens issued before stay what they are. *)
LEMMA IssueKeeps == ASSUME TokenInv, NEW t \in Tasks, Issue(t) PROVE TokenInv'
<1> DEFINE id == Len(issued) + 1
<1>1. /\ UNCHANGED <<now, token, lock, taken, revoked, refused>>
      /\ tpc[t] = "exchange" /\ tpc' = [tpc EXCEPT ![t] = "issued"]
      /\ inHand' = [inHand EXCEPT ![t] = id]
  BY Zenon DEF Issue
<1>2. PICK life \in Lifetimes : issued' = Append(issued, [at |-> now, life |-> life])
  BY Zenon DEF Issue
<1>3. TokenTypeOK /\ now \in Nat
  BY Zenon DEF TokenInv, TokenTypeOK
<1>4. /\ issued' \in Seq([at : Nat, life : Lifetimes])
      /\ Len(issued') = id /\ Len(issued) \in Nat
      /\ \A i \in TokenIds : i \in TokenIds' /\ issued'[i] = issued[i]
      /\ issued'[id] = [at |-> now, life |-> life]
  BY <1>2, <1>3, IssuedStays, ZenonT(30)
<1>5. id \in Nat /\ id \in TokenIds' /\ id \notin TokenIds
  BY <1>4 DEF TokenIds
<1> HIDE DEF id
<1>6. TokenTypeOK'
  BY <1>1, <1>3, <1>4, <1>5, Zenon DEF TokenTypeOK
<1>7. \A i \in TokenIds : \A when \in Nat :
         /\ (issued[i].at)' = issued[i].at /\ Least(i)' = Least(i)
         /\ (TakenInTime(i, when))' <=> TakenInTime(i, when)
  BY <1>4, Zenon DEF TakenInTime, Least
<1>8. OtherHands(t) /\ tpc'[t] = "issued" /\ inHand'[t] = id
  BY <1>1, <1>3, <1>5, ZenonT(30) DEF TokenTypeOK, OtherHands
<1>9. HandOf(t)'
  BY <1>1, <1>3, <1>4, <1>5, <1>8, TokenAssumption, SMTT(30) DEF TokenTypeOK, HandOf
<1>10. ASSUME NEW u \in Tasks \ {t} PROVE HandOf(u)'
  <2>1. HandOf(u) /\ tpc'[u] = tpc[u] /\ inHand'[u] = inHand[u] /\ taken'[u] = taken[u]
    BY <1>8, ZenonT(30) DEF TokenInv, OtherHands
  <2>2. taken[u] \in Nat
    BY <1>3, Zenon DEF TokenTypeOK
  <2>3. inHand[u] \in TokenIds =>
           /\ inHand[u] \in TokenIds' /\ (issued'[inHand[u]]).at = issued[inHand[u]].at
           /\ Least(inHand[u])' = Least(inHand[u])
           /\ TakenInTime(inHand[u], taken[u])' <=> TakenInTime(inHand[u], taken[u])
    <3> SUFFICES ASSUME inHand[u] \in TokenIds
                 PROVE  /\ inHand[u] \in TokenIds' /\ (issued'[inHand[u]]).at = issued[inHand[u]].at
                        /\ Least(inHand[u])' = Least(inHand[u])
                        /\ TakenInTime(inHand[u], taken[u])' <=> TakenInTime(inHand[u], taken[u])
      BY ZenonT(30)
    <3>1. inHand[u] \in TokenIds' /\ issued'[inHand[u]] = issued[inHand[u]]
      BY <1>4, Zenon
    <3>2. Least(inHand[u])' = Least(inHand[u])
      BY <2>1, <3>1, Zenon DEF Least
    <3>3. (issued[inHand[u]])' = issued[inHand[u]] /\ (taken[u])' = taken[u]
      BY <2>1, <3>1, Zenon
    <3>4. TakenInTime(inHand[u], taken[u])' <=> TakenInTime(inHand[u], taken[u])
      BY <3>2, <3>3, ZenonT(30) DEF TakenInTime
    <3> QED
      BY <3>1, <3>2, <3>4, ZenonT(30)
  <2>4. (tpc[u] \in {"issued", "have", "forget"} => inHand[u] \in TokenIds)'
    BY <2>1, <2>3, ZenonT(30) DEF HandOf
  <2>5. (tpc[u] = "issued" =>
           now <= issued[inHand[u]].at + MaxLatency /\ inHand[u] \notin refused)'
    <3>1. tpc[u] = "issued" => inHand[u] \in TokenIds
      BY <2>1, Zenon DEF HandOf
    <3>2. tpc[u] = "issued" => now <= issued[inHand[u]].at + MaxLatency /\ inHand[u] \notin refused
      BY <2>1, Zenon DEF HandOf
    <3>3. tpc[u] = "issued" => (issued'[inHand[u]]).at = issued[inHand[u]].at
      BY <2>3, <3>1, Zenon
    <3>4. now' = now /\ refused' = refused
      BY <1>1, Zenon
    <3> QED
      BY <2>1, <3>2, <3>3, <3>4
  <2>6. (tpc[u] \in {"have", "forget"} => TakenInTime(inHand[u], taken[u]))'
    BY <2>1, <2>3, ZenonT(30) DEF HandOf
  <2>7. (tpc[u] = "forget" =>
           inHand[u] \in revoked \/ now + MaxLatency >= taken[u] + Least(inHand[u]))'
    <3>1. tpc[u] = "forget" => inHand[u] \in TokenIds
      BY <2>1, Zenon DEF HandOf
    <3>2. tpc[u] = "forget" => inHand[u] \in revoked \/ now + MaxLatency >= taken[u] + Least(inHand[u])
      BY <2>1, Zenon DEF HandOf
    <3>3. tpc[u] = "forget" => Least(inHand[u])' = Least(inHand[u])
      BY <2>3, <3>1, Zenon
    <3>4. now' = now /\ revoked' = revoked
      BY <1>1, Zenon
    <3> QED
      BY <2>1, <3>2, <3>3, <3>4
  <2> QED
    BY <2>4, <2>5, <2>6, <2>7, ZenonT(30) DEF HandOf
<1>11. ExchangeLocked'
  BY <1>1, <1>8, Zenon DEF TokenInv, ExchangeLocked, OtherHands
<1>12. CachedInTime'
  BY <1>1, <1>3, <1>7, ZenonT(30) DEF TokenInv, TokenTypeOK, CachedInTime
<1> QED
  BY <1>6, <1>9, <1>10, <1>11, <1>12, Zenon DEF TokenInv

(* The token is cached and returned: until its refresh_at it is taken in time. *)
LEMMA ExchangedKeeps == ASSUME TokenInv, NEW t \in Tasks, Exchanged(t) PROVE TokenInv'
<1> DEFINE id == inHand[t]
<1>1. /\ UNCHANGED <<now, inHand, issued, revoked, refused>>
      /\ tpc[t] = "issued" /\ tpc' = [tpc EXCEPT ![t] = "have"]
      /\ taken' = [taken EXCEPT ![t] = now] /\ lock' = Nothing
      /\ token' = [id |-> id, refreshAt |-> RefreshAt(issued[id].life)]
  BY ZenonT(30) DEF Exchanged
<1>2. TokenTypeOK /\ HandOf(t) /\ now \in Nat
  BY Zenon DEF TokenInv, TokenTypeOK
<1>3. id \in TokenIds /\ now <= issued[id].at + MaxLatency /\ id \notin refused
  BY <1>1, <1>2, Zenon DEF HandOf
<1>4. /\ issued[id].at \in Nat /\ issued[id].life \in Nat /\ Least(id) \in Nat
      /\ Least(id) <= issued[id].life /\ Least(id) <= Margin
      /\ Margin \in Nat /\ MaxLatency \in Nat
  BY <1>2, <1>3, IssuedFacts, TokenAssumption, ZenonT(30)
<1>5. RefreshAt(issued[id].life) \in Nat
  BY <1>2, <1>4, SMTT(30) DEF RefreshAt
<1>6. TakenInTime(id, now)
  BY <1>2, <1>3, <1>4, SMTT(30) DEF TakenInTime
<1>7. ASSUME NEW when \in Nat, when < RefreshAt(issued[id].life) PROVE TakenInTime(id, when)
  BY <1>2, <1>3, <1>4, <1>7 DEF TakenInTime, RefreshAt
<1> HIDE DEF id
<1>8. TokenTypeOK'
  BY <1>1, <1>2, <1>3, <1>5, Zenon DEF TokenTypeOK, TokenIds
<1>9. OtherHands(t) /\ tpc'[t] = "have" /\ inHand'[t] = id /\ taken'[t] = now
  BY <1>1, <1>2, Zenon DEF TokenTypeOK, OtherHands, id
<1>10. HandOf(t)'
  BY <1>1, <1>3, <1>6, <1>9, Zenon DEF HandOf, TakenInTime, Least, TokenIds
<1>11. \A u \in Tasks : HandOf(u)'
  BY <1>1, <1>9, <1>10, HandsOfOthers, Zenon
<1>12. ExchangeLocked'
  BY <1>1, <1>9, ZenonT(30) DEF TokenInv, ExchangeLocked, OtherHands
<1>13. CachedInTime'
  BY <1>1, <1>3, <1>7, Zenon DEF CachedInTime, TakenInTime, Least
<1> QED
  BY <1>8, <1>11, <1>12, <1>13 DEF TokenInv

(* A call ends, or is dropped, and the cached token stays or goes. *)
LEMMA LeaveKeeps ==
    ASSUME TokenInv, NEW t \in Tasks, Leave(t), token' \in {token, Nothing},
           \/ refused' = refused
           \/ /\ tpc[t] = "forget" /\ lock = Nothing /\ token' = Nothing
              /\ refused' = refused \cup {inHand[t]}
    PROVE  TokenInv'
<1>1. /\ UNCHANGED <<now, issued, revoked>>
      /\ tpc' = [tpc EXCEPT ![t] = "none"] /\ inHand' = [inHand EXCEPT ![t] = 0]
      /\ taken' = [taken EXCEPT ![t] = 0] /\ lock' = IF lock = t THEN Nothing ELSE lock
  BY Zenon DEF Leave
<1>2. TokenTypeOK /\ HandOf(t)
  BY ZenonT(30) DEF TokenInv
<1>3. tpc[t] = "forget" => inHand[t] \in TokenIds
  BY <1>2, Zenon DEF HandOf
<1>4. refused' \subseteq TokenIds
  BY <1>2, <1>3, Zenon DEF TokenTypeOK
<1>5. TokenTypeOK'
  BY <1>1, <1>2, <1>4, Zenon DEF TokenTypeOK, TokenIds
<1>6. OtherHands(t) /\ tpc'[t] = "none"
  BY <1>1, <1>2, Zenon DEF TokenTypeOK, OtherHands
<1>7. ASSUME NEW u \in Tasks \ {t} PROVE HandOf(u)'
  <2>1. HandOf(u) /\ tpc'[u] = tpc[u] /\ inHand'[u] = inHand[u] /\ taken'[u] = taken[u]
    BY <1>6, Zenon DEF TokenInv, OtherHands
  <2>2. tpc[u] = "issued" => refused' = refused
    BY TasksAssumption, Zenon DEF TokenInv, ExchangeLocked
  <2>3. /\ now' = now /\ issued' = issued /\ revoked' = revoked
        /\ tpc'[u] = "issued" => inHand'[u] \notin refused'
    BY <1>1, <2>1, <2>2, ZenonT(30) DEF HandOf
  <2> QED
    BY <2>1, <2>3, Zenon DEF HandOf, TakenInTime, Least, TokenIds
<1>8. HandOf(t)'
  BY <1>6, Zenon DEF HandOf
<1>9. ExchangeLocked'
  BY <1>1, <1>6, ZenonT(30) DEF TokenInv, ExchangeLocked, OtherHands
<1>10. CachedInTime'
  <2>1. token' = Nothing \/ (token' = token /\ refused' = refused)
    BY Zenon
  <2>2. CASE token' = Nothing
    BY <2>2, Zenon DEF CachedInTime
  <2>3. CASE token' = token /\ refused' = refused
    BY <1>1, <2>3, Zenon DEF TokenInv, CachedInTime, TakenInTime, Least
  <2> QED
    BY <2>1, <2>2, <2>3, Zenon
<1> QED
  BY <1>5, <1>7, <1>8, <1>9, <1>10, Zenon DEF TokenInv

(* A request is answered 401: its token is not valid any more. *)
LEMMA UnauthorizedKeeps == ASSUME TokenInv, NEW t \in Tasks, Unauthorized(t) PROVE TokenInv'
<1> DEFINE id == inHand[t]
<1>1. /\ UNCHANGED <<now, token, lock, inHand, taken, issued, revoked, refused>>
      /\ tpc[t] = "have" /\ tpc' = [tpc EXCEPT ![t] = "forget"]
      /\ id \in revoked \/ ~(now < issued[id].at + issued[id].life)
  BY Zenon DEF Unauthorized, Valid
<1>2. /\ TokenTypeOK /\ now \in Nat /\ taken[t] \in Nat
      /\ id \in TokenIds /\ TakenInTime(id, taken[t])
  BY <1>1, Zenon DEF TokenInv, TokenTypeOK, HandOf
<1>3. /\ issued[id].at \in Nat /\ issued[id].life \in Nat /\ Least(id) \in Nat /\ MaxLatency \in Nat
  BY <1>2, IssuedFacts, TokenAssumption, ZenonT(30)
<1>4. id \in revoked \/ now + MaxLatency >= taken[t] + Least(id)
  BY <1>1, <1>2, <1>3 DEF TakenInTime
<1> HIDE DEF id
<1>5. TokenTypeOK'
  BY <1>1, <1>2, ZenonT(30) DEF TokenTypeOK, TokenIds
<1>6. OtherHands(t) /\ tpc'[t] = "forget" /\ inHand'[t] = id /\ taken'[t] = taken[t]
  BY <1>1, <1>2, Zenon DEF TokenTypeOK, OtherHands, id
<1>7. HandOf(t)'
  BY <1>1, <1>2, <1>4, <1>6, ZenonT(30) DEF HandOf, TakenInTime, Least, TokenIds
<1>8. \A u \in Tasks : HandOf(u)'
  BY <1>1, <1>6, <1>7, HandsOfOthers, Zenon
<1>9. ExchangeLocked' /\ CachedInTime'
  BY <1>1, <1>6, Zenon DEF TokenInv, ExchangeLocked, CachedInTime, OtherHands, TakenInTime, Least
<1> QED
  BY <1>5, <1>8, <1>9 DEF TokenInv

(* Time passes, and tokens are revoked. *)
LEMMA WorldKeepsTokens == ASSUME TokenInv, Tick \/ Revoke PROVE TokenInv'
<1>1. /\ UNCHANGED <<token, lock, tpc, inHand, taken, issued, refused>>
      /\ TokenTypeOK /\ now \in Nat
  BY Zenon DEF Tick, Revoke, TokenInv, TokenTypeOK
<1>2. now' \in Nat /\ now <= now' /\ revoked \subseteq revoked' /\ revoked' \subseteq Nat
  <2>1. CASE Tick
    BY <1>1, <2>1 DEF Tick, TokenTypeOK
  <2>2. CASE Revoke
    <3>1. DOMAIN issued \subseteq Nat
      BY <1>1 DEF TokenTypeOK
    <3>2. PICK id \in DOMAIN issued : revoked' = revoked \cup {id}
      BY <2>2, Zenon DEF Revoke
    <3>3. revoked \subseteq Nat /\ now' = now
      BY <1>1, <2>2, Zenon DEF Revoke, TokenTypeOK
    <3>4. now' \in Nat /\ now <= now'
      BY <1>1, <3>3
    <3>5. revoked \subseteq revoked' /\ revoked' \subseteq Nat
      BY <3>1, <3>2, <3>3, ZenonT(30)
    <3> QED
      BY <3>4, <3>5, Zenon
  <2> QED
    BY <2>1, <2>2, Zenon
<1>3. \A t \in Tasks : tpc[t] = "issued" => now' <= issued[inHand[t]].at + MaxLatency
  <2> SUFFICES ASSUME NEW t \in Tasks, tpc[t] = "issued" PROVE now' <= issued[inHand[t]].at + MaxLatency
    BY Zenon
  <2>1. inHand[t] \in TokenIds /\ now <= issued[inHand[t]].at + MaxLatency
    BY Zenon DEF TokenInv, HandOf
  <2>2. issued[inHand[t]].at \in Nat /\ MaxLatency \in Nat
    BY <1>1, <2>1, IssuedFacts, TokenAssumption, Zenon
  <2> QED
    BY <1>1, <2>1, <2>2, SMTT(30) DEF Tick, Revoke
<1>4. ASSUME NEW t \in Tasks PROVE HandOf(t)'
  <2>1. HandOf(t) /\ taken[t] \in Nat
    BY <1>1, Zenon DEF TokenInv, TokenTypeOK
  <2>2. tpc[t] = "forget" => Least(inHand[t]) \in Nat /\ MaxLatency \in Nat
    BY <1>1, <2>1, IssuedFacts, TokenAssumption, ZenonT(30) DEF HandOf
  <2>3. tpc[t] = "forget" =>
           inHand[t] \in revoked' \/ now' + MaxLatency >= taken[t] + Least(inHand[t])
    <3> SUFFICES ASSUME tpc[t] = "forget", inHand[t] \notin revoked
                 PROVE  now' + MaxLatency >= taken[t] + Least(inHand[t])
      BY <1>2, Zenon
    <3>1. now + MaxLatency >= taken[t] + Least(inHand[t])
      BY <2>1, Zenon DEF HandOf
    <3> QED
      BY <1>1, <1>2, <2>1, <2>2, <3>1
  <2> QED
    BY <1>1, <1>3, <2>1, <2>3, Zenon DEF HandOf, TakenInTime, Least, TokenIds
<1>5. TokenTypeOK' /\ ExchangeLocked'
  BY <1>1, <1>2, Zenon DEF TokenInv, TokenTypeOK, ExchangeLocked, TokenIds
<1>6. CachedInTime'
  BY <1>1, Zenon DEF TokenInv, CachedInTime, TakenInTime, Least
<1> QED
  BY <1>4, <1>5, <1>6, Zenon DEF TokenInv

LEMMA TokenInvStep == TokenInv /\ [TokenNext]_tokenVars => TokenInv'
<1> SUFFICES ASSUME TokenInv, [TokenNext]_tokenVars PROVE TokenInv'
  OBVIOUS
<1>1. ASSUME NEW t \in Tasks, TokenHit(t) \/ TokenMiss(t) \/ Issue(t) \/ Exchanged(t) \/ Unauthorized(t)
      PROVE  TokenInv'
  BY <1>1, TokenHitKeeps, TokenMissKeeps, IssueKeeps, ExchangedKeeps, UnauthorizedKeeps, Zenon
<1>2. ASSUME NEW t \in Tasks, ExchangeFails(t) \/ Accepted(t) \/ Dropped(t) \/ ForgetToken(t)
      PROVE  TokenInv'
  <2>1. /\ Leave(t) /\ token' \in {token, Nothing}
        /\ \/ refused' = refused
           \/ /\ tpc[t] = "forget" /\ lock = Nothing /\ token' = Nothing
              /\ refused' = refused \cup {inHand[t]}
    BY <1>2, Zenon DEF ExchangeFails, Accepted, Dropped, ForgetToken
  <2> QED
    BY <2>1, LeaveKeeps, Zenon
<1>3. CASE Tick \/ Revoke
  BY <1>3, WorldKeepsTokens, Zenon
<1>4. CASE UNCHANGED tokenVars
  BY <1>4, Zenon DEF tokenVars, TokenInv, TokenTypeOK, ExchangeLocked, CachedInTime, HandOf,
     TakenInTime, Least, TokenIds
<1> QED
  BY <1>1, <1>2, <1>3, <1>4, Zenon DEF TokenNext

LEMMA TokenInvariance == TokenSpec => []TokenInv
BY TokenInvInit, TokenInvStep, PTL DEF TokenSpec

(* access_token: for any number of concurrent calls and any lifetimes, no two
   exchanges overlap, whatever fails or is dropped. *)
THEOREM TokenOneExchange == TokenSpec => []OneExchange
<1>1. TokenInv => OneExchange
  BY ZenonT(30) DEF TokenInv, ExchangeLocked, OneExchange
<1> QED
  BY <1>1, TokenInvariance, PTL

(* TOKEN_REFRESH_MARGIN: for every margin, lifetime and latency, a token that
   was not revoked is refused only if the request took longer than the margin
   left it. *)
THEOREM TokenRefusalIsReal == TokenSpec => []RefusalIsReal
<1>1. TokenInv => RefusalIsReal
  BY Zenon DEF TokenInv, HandOf, Least, RefusalIsReal
<1> QED
  BY <1>1, TokenInvariance, PTL

(* forget_token_on_unauthorized: no token that a call was refused with is in
   the cache when the call is over, or comes back later. *)
THEOREM TokenRefusedIsForgotten == TokenSpec => []RefusedIsForgotten
<1>1. TokenInv => RefusedIsForgotten
  BY Zenon DEF TokenInv, CachedInTime, RefusedIsForgotten
<1> QED
  BY <1>1, TokenInvariance, PTL

-----------------------------------------------------------------------------
(* The clock of the OVH API. *)

ClockTypeOK ==
    /\ clock \in Nat /\ skew \in Int /\ (delta # Nothing => delta \in Int) /\ stepped \in BOOLEAN
    /\ cpc \in [Tasks -> {"sync", "answer", "sign", "sent"}]
    /\ sample \in [Tasks -> Nat] /\ ts \in [Tasks -> Int]

(* The time the API answered is not older than the answer may be. *)
SampleRecent ==
    \A t \in Tasks : cpc[t] = "answer" => sample[t] <= clock /\ clock <= sample[t] + MaxDelay

(* The local time with the offset is the API's, less what the answer took. *)
OffsetRight == delta # Nothing /\ ~stepped => -MaxDelay <= delta + skew /\ delta + skew <= 0

ClockInv == ClockTypeOK /\ SampleRecent /\ OffsetRight

LEMMA ClockInvInit == ClockInit => ClockInv
<1> SUFFICES ASSUME ClockInit PROVE ClockInv
  OBVIOUS
<1>1. ClockTypeOK
  <2>1. /\ clock \in Nat /\ skew \in Int /\ sample \in [Tasks -> Nat] /\ ts \in [Tasks -> Int]
        /\ cpc \in [Tasks -> {"sync", "answer", "sign", "sent"}]
    BY ClockAssumption DEF ClockInit
  <2>2. delta = Nothing /\ stepped \in BOOLEAN
    BY Zenon DEF ClockInit
  <2> QED
    BY <2>1, <2>2, Zenon DEF ClockTypeOK
<1>2. \A t \in Tasks : cpc[t] # "answer"
  BY Zenon DEF ClockInit
<1>3. delta = Nothing
  BY Zenon DEF ClockInit
<1> QED
  BY <1>1, <1>2, <1>3, Zenon DEF ClockInv, SampleRecent, OffsetRight

LEMMA ClockInvStep == ClockInv /\ [ClockNext]_clockVars => ClockInv'
<1> SUFFICES ASSUME ClockInv, [ClockNext]_clockVars PROVE ClockInv'
  OBVIOUS
<1> USE ClockAssumption DEF ClockInv, ClockTypeOK, SampleRecent, OffsetRight
<1>1. ASSUME NEW t \in Tasks, SyncDone(t) \/ SyncFails(t) PROVE ClockInv'
  BY <1>1, Zenon DEF SyncDone, SyncFails
<1>2. ASSUME NEW t \in Tasks, AuthTime(t) PROVE ClockInv'
  BY <1>2 DEF AuthTime
<1>3. ASSUME NEW t \in Tasks, SetDelta(t) PROVE ClockInv'
  <2>1. /\ sample[t] \in Nat /\ sample[t] <= clock /\ clock <= sample[t] + MaxDelay
        /\ cpc' = [cpc EXCEPT ![t] = "sign"] /\ UNCHANGED <<clock, skew, sample, ts>>
    BY <1>3, Zenon DEF SetDelta
  <2>2. \/ delta' = Measured(t) /\ stepped' = FALSE
        \/ delta' = delta /\ stepped' = stepped
    BY <1>3, Zenon DEF SetDelta
  <2>3. Measured(t) \in Int /\ -MaxDelay <= Measured(t) + skew /\ Measured(t) + skew <= 0
    BY <2>1 DEF Measured, NowTimestamp
  <2> HIDE DEF SampleRecent
  <2>4. SampleRecent'
    BY <2>1, Zenon DEF SampleRecent
  <2> QED
    BY <2>1, <2>2, <2>3, <2>4, Zenon
<1>4. ASSUME NEW t \in Tasks, SignedRequest(t) PROVE ClockInv'
  <2>1. NowTimestamp + (IF delta = Nothing THEN 0 ELSE delta) \in Int
    BY SMTT(30) DEF NowTimestamp
  <2> QED
    BY <1>4, <2>1, Zenon DEF SignedRequest
<1>5. ASSUME NEW t \in Tasks, RequestOver(t) PROVE ClockInv'
  BY <1>5, SMTT(30) DEF RequestOver
<1>6. CASE ClockTick
  BY <1>6 DEF ClockTick
<1>7. CASE StepClock
  BY <1>7, Zenon DEF StepClock
<1>8. CASE UNCHANGED clockVars
  BY <1>8, Zenon DEF clockVars
<1> QED
  BY <1>1, <1>2, <1>3, <1>4, <1>5, <1>6, <1>7, <1>8, Zenon DEF ClockNext

(* sync_time, signed_request: for any number of calls, skews and delays, a
   request is signed with the API's time, behind it by no more than the answer
   to /auth/time took. *)
THEOREM ClockSignedWithApiTime == ClockSpec => SignedWithApiTime
<1>1. ClockInv /\ [ClockNext]_clockVars =>
         [\A t \in Tasks :
             /\ cpc[t] = "sign" /\ cpc'[t] = "sent"
             /\ delta # Nothing /\ ~stepped
             => clock - MaxDelay <= ts'[t] /\ ts'[t] <= clock]_clockVars
  <2> SUFFICES ASSUME ClockInv, ClockNext, NEW t \in Tasks,
                      cpc[t] = "sign", cpc'[t] = "sent", delta # Nothing, ~stepped
               PROVE  clock - MaxDelay <= ts'[t] /\ ts'[t] <= clock
    BY Zenon
  <2>1. SignedRequest(t)
    <3>1. PICK u \in Tasks :
             \/ SyncDone(u) \/ AuthTime(u) \/ SyncFails(u) \/ SetDelta(u)
             \/ SignedRequest(u) \/ RequestOver(u)
      BY Zenon DEF ClockNext, ClockTick, StepClock
    <3> QED
      BY <3>1, Zenon DEF ClockInv, ClockTypeOK, SyncDone, AuthTime, SyncFails, SetDelta, SignedRequest,
         RequestOver
  <2>2. ts'[t] = clock + skew + delta
    BY <2>1, Zenon DEF SignedRequest, NowTimestamp, ClockInv, ClockTypeOK
  <2> QED
    BY <2>2, ClockAssumption, SMTT(30) DEF ClockInv, ClockTypeOK, OffsetRight
<1> QED
  BY <1>1, ClockInvInit, ClockInvStep, PTL DEF ClockSpec, SignedWithApiTime
=============================================================================
