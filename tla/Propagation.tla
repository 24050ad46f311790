----------------------------- MODULE Propagation -----------------------------
(***************************************************************************)
(* dns/propagation.rs: wait_for_propagation asks the zone's authoritative  *)
(* nameservers for the TXT record until each of them has confirmed it, or  *)
(* asks the fallback resolvers, as one target, when no nameserver can be   *)
(* found.                                                                  *)
(*                                                                         *)
(* DNS is external: a nameserver comes to serve the record at some time,   *)
(* or serves it no more, and a lookup may fail or be slow.  Time is        *)
(* counted in units.                                                       *)
(***************************************************************************)
EXTENDS Naturals, FiniteSets

CONSTANTS Nameservers,  \* the NS records of the zone
          Fallback,     \* the fallback resolvers, as one target
          Timeout,      \* PropagationTiming::timeout
          Interval,     \* PropagationTiming::interval
          MaxLookup     \* the longest a lookup takes

ASSUME TimingAssumption == Timeout \in Nat /\ Interval \in Nat /\ MaxLookup \in Nat
ASSUME NameserversAssumption == IsFiniteSet(Nameservers)
ASSUME FallbackAssumption == Fallback \notin Nameservers

VARIABLES
    pc,        \* where wait_for_propagation is
    targets,   \* what it asks: nameservers whose name resolved, or {Fallback}
    round,     \* targets this pass of the loop has yet to ask
    still,     \* still_pending
    elapsed,   \* time since start
    serving,   \* the targets that serve the record
    served     \* history: those that served it at some time

dnsVars == <<serving, served>>
vars == <<pc, targets, round, still, elapsed, dnsVars>>

TypeOK ==
    /\ pc \in {"lookup", "ask", "sleep", "ok", "timeout", "err"}
    /\ targets \subseteq Nameservers \cup {Fallback}
    /\ round \subseteq targets
    /\ still \subseteq targets
    /\ elapsed \in Nat
    /\ serving \subseteq Nameservers \cup {Fallback}
    /\ serving \subseteq served

Init ==
    /\ pc = "lookup"
    /\ targets = {} /\ round = {} /\ still = {}
    /\ elapsed = 0
    /\ serving \in SUBSET (Nameservers \cup {Fallback})
    /\ served = serving

(* Polling starts. *)
Watch(servers) ==
    /\ targets' = servers
    /\ round' = servers
    /\ pc' = "ask"
    /\ UNCHANGED <<still, elapsed, dnsVars>>

(* Mutant: a zone none of whose nameservers resolve is taken as it is. *)
AnyNameservers == \E servers \in SUBSET Nameservers : pc = "lookup" /\ Watch(servers)

(* authoritative_nameservers: those whose name resolves, at least one. *)
AuthoritativeNameservers ==
    \E servers \in (SUBSET Nameservers) \ {{}} : pc = "lookup" /\ Watch(servers)

(* No zone, no NS record, or no nameserver that resolves: the fallback. *)
UseFallback == pc = "lookup" /\ Watch({Fallback})

(* A fallback address cannot be parsed, or the resolver not built. *)
FallbackFails ==
    /\ pc = "lookup"
    /\ pc' = "err"
    /\ UNCHANGED <<targets, round, still, elapsed, dnsVars>>

(* check(&target).await: true only if the record is in the answer. *)
Check(n, confirmed) ==
    /\ confirmed => n \in serving
    /\ still' = IF confirmed THEN still ELSE still \cup {n}

(* One target of the pass is asked. *)
Ask ==
    /\ pc = "ask"
    /\ \E n \in round :
          /\ round' = round \ {n}
          /\ \E confirmed \in BOOLEAN : Check(n, confirmed)
    /\ \E d \in 0..MaxLookup : elapsed' = elapsed + d
    /\ UNCHANGED <<pc, targets, dnsVars>>

(* Mutant: the clock is not looked at. *)
EndRoundNoClock ==
    /\ pc = "ask" /\ round = {}
    /\ pc' = IF still = {} THEN "ok" ELSE "sleep"
    /\ UNCHANGED <<targets, round, still, elapsed, dnsVars>>

(* The end of a pass: nobody left, or out of time, or another pass. *)
EndRound ==
    /\ pc = "ask" /\ round = {}
    /\ pc' = IF still = {} THEN "ok" ELSE IF elapsed >= Timeout THEN "timeout" ELSE "sleep"
    /\ UNCHANGED <<targets, round, still, elapsed, dnsVars>>

(* Mutant: every pass has the whole time. *)
SleepRestartsClock ==
    /\ pc = "sleep"
    /\ elapsed' = 0
    /\ round' = still
    /\ still' = {}
    /\ pc' = "ask"
    /\ UNCHANGED <<targets, dnsVars>>

(* Only the targets not confirmed yet are asked again. *)
Sleep ==
    /\ pc = "sleep"
    /\ elapsed' = elapsed + Interval
    /\ round' = still
    /\ still' = {}
    /\ pc' = "ask"
    /\ UNCHANGED <<targets, dnsVars>>

(* The record reaches another nameserver. *)
Propagate ==
    /\ \E n \in (Nameservers \cup {Fallback}) \ serving :
          serving' = serving \cup {n} /\ served' = served \cup {n}
    /\ UNCHANGED <<pc, targets, round, still, elapsed>>

(* A nameserver goes back to an answer without the record. *)
Withdraw ==
    /\ \E n \in serving : serving' = serving \ {n}
    /\ UNCHANGED served
    /\ UNCHANGED <<pc, targets, round, still, elapsed>>

Next ==
    \/ AuthoritativeNameservers \/ UseFallback \/ FallbackFails
    \/ Ask \/ EndRound \/ Sleep \/ Propagate \/ Withdraw

Spec == Init /\ [][Next]_vars

(* Lookups end and sleeps pass; the record need not propagate. *)
FairSpec ==
    /\ Spec
    /\ WF_vars(AuthoritativeNameservers \/ UseFallback \/ FallbackFails)
    /\ WF_vars(Ask \/ EndRound) /\ WF_vars(Sleep)

-----------------------------------------------------------------------------

(* propagation.rs:24-28 and 53-54: Ok only once "each one has confirmed once":
   there was a target, and each nameserver that resolved, or the fallback,
   served the record at some time of the wait.  No target is asked again after
   it confirmed, so nothing is said of those that went back on it. *)
OkMeansServed == pc = "ok" => targets # {} /\ targets \subseteq served

(* propagation.rs:79-86: the wait is over after its first pass, or outlasts its
   timeout by less than one interval and one pass over the targets. *)
OvershootBounded ==
    LET pass == MaxLookup * Cardinality(targets) IN
    elapsed <= pass \/ elapsed < Timeout + Interval + pass
=============================================================================
