------------------------------ MODULE TokenCache -----------------------------
(***************************************************************************)
(* Google Cloud DNS: the access token that the calls on one provider share *)
(* (access_token, forget_token_on_unauthorized), and its mutex, which is   *)
(* held while a token is exchanged.                                        *)
(*                                                                         *)
(* The token endpoint and the API are external: a token lapses when its    *)
(* lifetime is over, counted from when it was issued, and may be revoked   *)
(* before.  Time is counted in units.                                      *)
(***************************************************************************)
EXTENDS ProviderTasks

CONSTANTS Lifetimes,   \* expires_in
          Margin,      \* TOKEN_REFRESH_MARGIN
          MaxLatency,  \* bound on the time an answer with a token takes
          MaxTime,     \* bound on the clock
          MaxTokens    \* bound on the tokens issued

ASSUME TokenAssumption ==
    /\ Lifetimes \subseteq Nat \ {0} /\ Margin \in Nat
    /\ MaxLatency \in Nat /\ MaxTime \in Nat /\ MaxTokens \in Nat

VARIABLES
    now,       \* the clock
    token,     \* the cached token: [id, refreshAt], or Nothing
    lock,      \* the task that holds the mutex, or Nothing
    tpc,       \* tpc[t]: where the call is with its token
    inHand,    \* inHand[t]: the id of its token, or 0
    taken,     \* taken[t]: history: when access_token returned it
    issued,    \* the tokens issued: [at, life]
    revoked,   \* those revoked
    refused    \* history: those a call that is over was refused with

tokenVars == <<now, token, lock, tpc, inHand, taken, issued, revoked, refused>>

TokenInit ==
    /\ now = 0 /\ token = Nothing /\ lock = Nothing
    /\ tpc = [t \in Tasks |-> "none"]
    /\ inHand = [t \in Tasks |-> 0]
    /\ taken = [t \in Tasks |-> 0]
    /\ issued = <<>> /\ revoked = {} /\ refused = {}

(* The API takes the token. *)
Valid(id) == id \notin revoked /\ now < issued[id].at + issued[id].life

(* The cached token is not about to expire. *)
Usable == token # Nothing /\ now < token.refreshAt

(* access_token with a token that is not about to expire. *)
TokenHit(t) ==
    /\ tpc[t] = "none" /\ lock = Nothing
    /\ Usable
    /\ tpc' = [tpc EXCEPT ![t] = "have"]
    /\ inHand' = [inHand EXCEPT ![t] = token.id]
    /\ taken' = [taken EXCEPT ![t] = now]
    /\ UNCHANGED <<now, token, lock, issued, revoked, refused>>

(* Mutant: the mutex is given back during the exchange. *)
TokenMissUnlocked(t) ==
    /\ tpc[t] = "none" /\ lock = Nothing
    /\ ~Usable
    /\ tpc' = [tpc EXCEPT ![t] = "exchange"]
    /\ UNCHANGED <<now, token, lock, inHand, taken, issued, revoked, refused>>

(* access_token without one: the exchange is made under the mutex. *)
TokenMiss(t) ==
    /\ tpc[t] = "none" /\ lock = Nothing
    /\ ~Usable
    /\ tpc' = [tpc EXCEPT ![t] = "exchange"]
    /\ lock' = t
    /\ UNCHANGED <<now, token, inHand, taken, issued, revoked, refused>>

(* The endpoint issues a token; its answer is on the way. *)
Issue(t) ==
    /\ tpc[t] = "exchange" /\ Len(issued) < MaxTokens
    /\ \E life \in Lifetimes : issued' = Append(issued, [at |-> now, life |-> life])
    /\ tpc' = [tpc EXCEPT ![t] = "issued"]
    /\ inHand' = [inHand EXCEPT ![t] = Len(issued) + 1]
    /\ UNCHANGED <<now, token, lock, taken, revoked, refused>>

(* Mutant: the token is used until it lapses. *)
RefreshAtExpiry(life) == now + life

(* Instant::now() + lifetime.saturating_sub(TOKEN_REFRESH_MARGIN) *)
RefreshAt(life) == now + (IF life > Margin THEN life - Margin ELSE 0)

(* The answer arrives: the token is cached and returned. *)
Exchanged(t) ==
    /\ tpc[t] = "issued"
    /\ token' = [id |-> inHand[t], refreshAt |-> RefreshAt(issued[inHand[t]].life)]
    /\ tpc' = [tpc EXCEPT ![t] = "have"]
    /\ taken' = [taken EXCEPT ![t] = now]
    /\ lock' = Nothing
    /\ UNCHANGED <<now, inHand, issued, revoked, refused>>

(* The request is over, or its future dropped: the mutex is given back. *)
Leave(t) ==
    /\ tpc' = [tpc EXCEPT ![t] = "none"]
    /\ inHand' = [inHand EXCEPT ![t] = 0]
    /\ taken' = [taken EXCEPT ![t] = 0]
    /\ lock' = IF lock = t THEN Nothing ELSE lock
    /\ UNCHANGED <<now, issued, revoked>>

(* The exchange fails, and what was cached stays. *)
ExchangeFails(t) ==
    /\ tpc[t] \in {"exchange", "issued"}
    /\ Leave(t) /\ UNCHANGED <<token, refused>>

(* The request ends with anything but 401. *)
Accepted(t) ==
    /\ tpc[t] = "have" /\ Valid(inHand[t])
    /\ Leave(t) /\ UNCHANGED <<token, refused>>

(* It is answered 401. *)
Unauthorized(t) ==
    /\ tpc[t] = "have" /\ ~Valid(inHand[t])
    /\ tpc' = [tpc EXCEPT ![t] = "forget"]
    /\ UNCHANGED <<now, token, lock, inHand, taken, issued, revoked, refused>>

Dropped(t) ==
    /\ tpc[t] # "none"
    /\ Leave(t) /\ UNCHANGED <<token, refused>>

(* Mutant: the cached token stays until its refresh_at. *)
KeepToken(t) ==
    /\ tpc[t] = "forget" /\ lock = Nothing
    /\ refused' = refused \cup {inHand[t]}
    /\ Leave(t) /\ UNCHANGED token

(* forget_token_on_unauthorized: whichever token is cached by now goes. *)
ForgetToken(t) ==
    /\ tpc[t] = "forget" /\ lock = Nothing
    /\ token' = Nothing
    /\ refused' = refused \cup {inHand[t]}
    /\ Leave(t)

(* Time passes, but an answer takes no longer than MaxLatency. *)
Tick ==
    /\ now < MaxTime
    /\ \A t \in Tasks : tpc[t] = "issued" => now < issued[inHand[t]].at + MaxLatency
    /\ now' = now + 1
    /\ UNCHANGED <<token, lock, tpc, inHand, taken, issued, revoked, refused>>

Revoke ==
    /\ \E id \in DOMAIN issued : revoked' = revoked \cup {id}
    /\ UNCHANGED <<now, token, lock, tpc, inHand, taken, issued, refused>>

TokenNext ==
    \/ Tick \/ Revoke
    \/ \E t \in Tasks :
          \/ TokenHit(t) \/ TokenMiss(t) \/ Issue(t) \/ Exchanged(t) \/ ExchangeFails(t)
          \/ Accepted(t) \/ Unauthorized(t) \/ ForgetToken(t) \/ Dropped(t)

TokenSpec == TokenInit /\ [][TokenNext]_tokenVars

-----------------------------------------------------------------------------

(* google_cloud_dns.rs:261: "concurrent callers share a single token request":
   no two exchanges overlap. *)
OneExchange ==
    \A t \in Tasks, u \in Tasks :
        tpc[t] \in {"exchange", "issued"} /\ tpc[u] \in {"exchange", "issued"} => t = u

(* google_cloud_dns.rs:33-35: a token that was not revoked is refused only if
   the request took longer than the refresh margin, or the token's whole
   lifetime if that is shorter, less what the answer with the token took. *)
RefusalIsReal ==
    \A t \in Tasks : tpc[t] = "forget" =>
        LET id == inHand[t]
            least == IF issued[id].life < Margin THEN issued[id].life ELSE Margin
        IN  id \in revoked \/ now + MaxLatency >= taken[t] + least

(* google_cloud_dns.rs:352-354: once a call has failed with 401, the next
   operation exchanges a fresh token. *)
RefusedIsForgotten == token # Nothing => token.id \notin refused
=============================================================================
