------------------------------- MODULE Renewal -------------------------------
(***************************************************************************)
(* renewal.rs: when a certificate is due, by a fixed threshold             *)
(* (needs_renewal) or by a third of its lifetime (needs_renewal_ratio),    *)
(* and the loop the functions are made for: poll the certificate, issue a  *)
(* new one when it is due.                                                 *)
(*                                                                         *)
(* The loop is the caller's, as renewal.rs:17-20 and README.md:327-338     *)
(* describe it, and is external; so are the certificates a CA issues.      *)
(* Parsing is "readable or not".                                           *)
(***************************************************************************)
EXTENDS Integers

CONSTANTS Day,           \* 86400
          Gates,         \* [kind, days]: the function and its argument
          Lifetimes,     \* what CAs issue, from notBefore to notAfter
          Backdate,      \* how far notBefore is put before the issuance
          PollInterval,  \* the longest time between two polls
          IssueTime,     \* the longest an issuance takes
          MaxFailures,   \* the most issuances that fail one after another
          MaxNow         \* bound on the clock

VARIABLES
    gate,      \* the caller's gate, fixed
    cert,      \* the certificate in use: [notBefore, notAfter, readable]
    now,       \* the clock
    host,      \* "wait" for the next poll, or "issue"
    since,     \* when the wait or the issuance began
    failures   \* issuances that failed since the last one that did not

renewalVars == <<gate, cert, now, host, since, failures>>

Least(a, b) == IF a <= b THEN a ELSE b
NotNegative(a) == IF a < 0 THEN 0 ELSE a

-----------------------------------------------------------------------------
(* The library.                                                            *)

(* Division of i64 truncates toward zero. *)
Truncated(a, b) == IF a >= 0 THEN a \div b ELSE -((-a) \div b)

Total(c) == NotNegative(c.notAfter - c.notBefore)

(* Mutant: a day begun counts. *)
DaysBegun(c, t) == Truncated(c.notAfter - t + Day - 1, Day)

(* cert_lifetime_at *)
RemainingDays(c, t) == Truncated(c.notAfter - t, Day)

(* Mutant: the last second of the window is outside. *)
NeedsRenewalStrictly(c, days, t) == c.notAfter - t < days * Day

(* needs_renewal_at_checked *)
NeedsRenewalAtChecked(c, days, t) == c.notAfter - t <= days * Day

(* Mutant: the third is taken of whole days. *)
ThirdOfDays(c, days) ==
    IF days = 0 THEN ((Total(c) \div Day) \div 3) * Day
    ELSE Least(((Total(c) \div Day) \div 3) * Day, days * Day)

(* Mutant: the floor is a lower bound. *)
FloorIsLeast(c, days) ==
    IF Total(c) \div 3 >= days * Day THEN Total(c) \div 3 ELSE days * Day

(* threshold_seconds: a third of the lifetime, capped by the floor if any. *)
RatioThreshold(c, days) ==
    IF days = 0 THEN Total(c) \div 3 ELSE Least(Total(c) \div 3, days * Day)

(* needs_renewal_ratio_at_checked *)
NeedsRenewalRatioAtChecked(c, days, t) ==
    c.notAfter - t <= 0 \/ c.notAfter - t <= RatioThreshold(c, days)

(* parse_leaf_der, from_der *)
Parses(c) == c.readable

(* needs_renewal_at, needs_renewal_ratio_at: unparseable means due. *)
Due(g, c, t) ==
    ~Parses(c) \/ IF g.kind = "fixed" THEN NeedsRenewalAtChecked(c, g.days, t)
                   ELSE NeedsRenewalRatioAtChecked(c, g.days, t)

-----------------------------------------------------------------------------
(* The caller and the CA.                                                  *)

(* A certificate issued at t. *)
IssuedAt(t) ==
    {[notBefore |-> t - Backdate, notAfter |-> t - Backdate + life, readable |-> TRUE] :
        life \in Lifetimes}

RenewalInit ==
    /\ gate \in Gates /\ cert \in IssuedAt(0)
    /\ now = 0 /\ host = "wait" /\ since = 0 /\ failures = 0

Tick ==
    /\ now < MaxNow
    /\ now < since + (IF host = "wait" THEN PollInterval ELSE IssueTime)
    /\ now' = now + 1
    /\ UNCHANGED <<gate, cert, host, since, failures>>

Poll ==
    /\ host = "wait"
    /\ host' = IF Due(gate, cert, now) THEN "issue" ELSE "wait"
    /\ since' = now
    /\ UNCHANGED <<gate, cert, now, failures>>

Issued ==
    /\ host = "issue"
    /\ cert' \in IssuedAt(now)
    /\ host' = "wait" /\ since' = now /\ failures' = 0
    /\ UNCHANGED <<gate, now>>

IssueFails ==
    /\ host = "issue" /\ failures < MaxFailures
    /\ host' = "wait" /\ since' = now /\ failures' = failures + 1
    /\ UNCHANGED <<gate, cert, now>>

(* The stored certificate is damaged. *)
Damage ==
    /\ cert.readable
    /\ cert' = [cert EXCEPT !.readable = FALSE]
    /\ UNCHANGED <<gate, now, host, since, failures>>

RenewalNext == Tick \/ Poll \/ Issued \/ IssueFails \/ Damage

RenewalSpec == RenewalInit /\ [][RenewalNext]_renewalVars

-----------------------------------------------------------------------------

(* What a certificate must have left when it is found due. *)
Reserve == (MaxFailures + 1) * (PollInterval + IssueTime)

(* The gates and certificates the loop has time enough for. *)
ASSUME RenewalAssumption ==
    /\ Day \in Nat \ {0} /\ Backdate \in Nat
    /\ PollInterval \in Nat /\ IssueTime \in Nat /\ MaxFailures \in Nat
    /\ Gates \subseteq [kind : {"fixed", "ratio"}, days : Nat]
    /\ \A life \in Lifetimes :
          /\ life \in Nat /\ life - Backdate > Reserve
          /\ 2 * (life \div 3) > Backdate
          /\ \A g \in Gates :
                /\ g.kind = "ratio" => life \div 3 >= Reserve
                /\ g.kind = "fixed" \/ g.days > 0 => g.days * Day >= Reserve

(* renewal.rs:11-20: a caller that polls and re-issues when the gate says so
   never has an expired certificate in use, however many issuances fail in a
   row (up to MaxFailures) and even if its file is damaged. *)
NeverExpired == now < cert.notAfter

(* renewal.rs:132-141: the ratio gate never renews a readable certificate in
   the first two thirds of its life, nor earlier than the floor, so a
   short-lived certificate is not renewed on every poll. *)
NotEarly ==
    [][host = "wait" /\ host' = "issue" /\ gate.kind = "ratio" /\ cert.readable =>
          /\ 3 * (cert.notAfter - now) <= cert.notAfter - cert.notBefore
          /\ gate.days > 0 => cert.notAfter - now <= gate.days * Day]_renewalVars

(* The times at which the functions are compared: days before and after the
   certificate's window. *)
Around(c, days) == (c.notAfter - (days + 2) * Day)..(c.notAfter + 2 * Day)

(* renewal.rs:149-151: where the threshold is a third of the lifetime, the two
   gates agree at every time. *)
GatesAgree ==
    \A g \in Gates : Total(cert) = 3 * (g.days * Day) =>
        \A t \in Around(cert, g.days) :
            NeedsRenewalAtChecked(cert, g.days, t) <=> NeedsRenewalRatioAtChecked(cert, g.days, t)

(* renewal.rs:57-61: the days shown are whole days, truncated toward zero, and
   never contradict the fixed gate: with fewer days than the threshold the
   certificate is due, and a due one shows no more days than the threshold.
   Once it has expired no day is left. *)
DaysMatchGate ==
    \A g \in Gates : \A t \in Around(cert, g.days) :
        LET days == RemainingDays(cert, t) IN
        /\ IF t <= cert.notAfter THEN 0 <= days /\ days * Day <= cert.notAfter - t ELSE days <= 0
        /\ days < g.days => NeedsRenewalAtChecked(cert, g.days, t)
        /\ NeedsRenewalAtChecked(cert, g.days, t) => days <= g.days

(* renewal.rs:76: remaining_days is "Negative once expired". *)
NegativeOnceExpired ==
    \A t \in Around(cert, 0) : t > cert.notAfter => RemainingDays(cert, t) < 0
=============================================================================
