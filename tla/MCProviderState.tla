--------------------------- MODULE MCProviderState ---------------------------
(***************************************************************************)
(* What a provider object keeps from call to call.  The three parts share  *)
(* no state, so each is explored on its own.                               *)
(***************************************************************************)
EXTENDS ZoneResolution, TokenCache, ApiClock, TLC

VARIABLE part   \* the part explored

vars == <<zoneVars, tokenVars, clockVars, part>>

MCInit ==
    /\ part \in {"zones", "token", "clock"}
    /\ ZoneInit /\ TokenInit /\ ClockInit
    /\ part # "zones" => provider = "google"
    /\ part # "clock" => skew = 0

MCNext ==
    /\ \/ part = "zones" /\ ZoneNext /\ UNCHANGED <<tokenVars, clockVars>>
       \/ part = "token" /\ TokenNext /\ UNCHANGED <<zoneVars, clockVars>>
       \/ part = "clock" /\ ClockNext /\ UNCHANGED <<zoneVars, tokenVars>>
    /\ UNCHANGED part

MCSpec == MCInit /\ [][MCNext]_vars

MCNames == {<<"c", "s", "e", "t">>, <<"d", "e", "t">>}
MCZoneNames == {<<"e", "t">>, <<"s", "e", "t">>}
MCSkews == {-3, 0, 2}
Symmetry == Permutations(Tasks)
=============================================================================
