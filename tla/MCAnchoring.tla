---------------------------- MODULE MCAnchoring -----------------------------
(* Instances of Anchoring for TLC. *)
EXTENDS Anchoring

CONSTANTS c1, c2, t1, t2, t3

MCCalendars == <<c1, c2>>
MCTsas == <<t1, t2, t3>>

MCSchedule(n, m, calendars, tsas) ==
    [enabled |-> TRUE, every_n_entries |-> n, every_m_minutes |-> m,
     calendars |-> calendars, tsas |-> tsas]

\* Both tracks, each alone, neither; often and seldom; a threshold of zero; disabled.
MCSchedules ==
    {MCSchedule(2, 2, 2, 3), MCSchedule(1, 3, 0, 2), MCSchedule(3, 1, 1, 0),
     MCSchedule(0, 2, 0, 0), MCSchedule(0, 2, 1, 0),
     [MCSchedule(2, 2, 1, 1) EXCEPT !.enabled = FALSE]}
=============================================================================
