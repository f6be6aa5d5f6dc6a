------------------------------ MODULE MCPoller ------------------------------
(* Instances of Poller for TLC. *)
EXTENDS Poller, TLC

CONSTANTS p, q

\* Two calendars, whose commitments land in different blocks.
MCCalendars == {1, 2}
MCHeightOf == 1 :> 101 @@ 2 :> 100

MCOneCalendar == {1}
MCOneHeight == 1 :> 101

=============================================================================
