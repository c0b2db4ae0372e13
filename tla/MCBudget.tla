------------------------------ MODULE MCBudget ------------------------------
(***************************************************************************)
(* Instances of Budget for TLC.                                            *)
(***************************************************************************)
EXTENDS Budget, TLC

CONSTANTS s1, s2

LimitsOf(session, hour, day) ==
    [l \in LimitName |-> CASE l = "per_session" -> session
                           [] l = "per_hour"    -> hour
                           [] l = "per_day"     -> day]

\* Each limit is the tightest for some run of lines; one may be switched off.
SomeLimits == {LimitsOf(4, 5, 6), LimitsOf(0, 4, 5)}
=============================================================================
