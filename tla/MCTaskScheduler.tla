--------------------------- MODULE MCTaskScheduler ---------------------------
(***************************************************************************)
(* TaskScheduler with the sets of configurations its runs schedule.        *)
(***************************************************************************)
EXTENDS SchedulerProperties, TLC

Cfg(p, s, r, e, o) == [priority |-> p, startTime |-> s, isRepeatable |-> r,
                       repeatEvery |-> e, timeout |-> o]

\* Due at once, due at time 1, due at once with a limit of one second, and
\* repeating every second with that limit; a lower number is a higher priority.
NowConfig == Cfg(1, 0, FALSE, 0, 0)
LaterConfig == Cfg(0, 1, FALSE, 0, 0)
LimitConfig == Cfg(1, 0, FALSE, 0, 1)
RepeatLimitConfig == Cfg(1, 0, TRUE, 1, 1)

OnlyNow == {NowConfig}
OneShots == {NowConfig, LaterConfig}
All == {LaterConfig, LimitConfig, RepeatLimitConfig}

Symmetry == Permutations(Workers) \cup Permutations(Clients)
=============================================================================
