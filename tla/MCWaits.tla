------------------------------- MODULE MCWaits -------------------------------
(***************************************************************************)
(* The two loops that poll against a clock.  They share no state, so each  *)
(* is explored on its own.                                                 *)
(***************************************************************************)
EXTENDS Propagation, ChangePoll

VARIABLE loop   \* the loop explored

waitVars == <<vars, pollVars, loop>>

Watching(A) == loop = "propagation" /\ A /\ UNCHANGED <<pollVars, loop>>
Polling(A) == loop = "change" /\ A /\ UNCHANGED <<vars, loop>>

MCInit ==
    /\ loop \in {"propagation", "change"}
    /\ Init /\ PollInit
    /\ loop = "propagation" => api = "hetzner" /\ status = "done"
    /\ loop = "change" => serving = {}

MCNext == Watching(Next) \/ Polling(PollNext)

(* The fairness of FairSpec and FairPollSpec. *)
MCSpec ==
    /\ MCInit /\ [][MCNext]_waitVars
    /\ WF_waitVars(Watching(AuthoritativeNameservers \/ UseFallback \/ FallbackFails))
    /\ WF_waitVars(Watching(Ask \/ EndRound))
    /\ WF_waitVars(Watching(Sleep))
    /\ WF_waitVars(Polling(CallStep))

(* Both waits end: wait_for_propagation however slow DNS is, wait_for_change
   and wait_for_action although the change may never settle. *)
EveryWaitEnds ==
    <>(IF loop = "propagation" THEN pc \in {"ok", "timeout", "err"} ELSE ppc \in Over)
=============================================================================
