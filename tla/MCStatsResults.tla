---------------------------- MODULE MCStatsResults ----------------------------
(* A small instance of StatsResults. *)
EXTENDS StatsResults

CONSTANTS a, b, c

\* Who has listens in the range of one full run need not have any in that of the next.
Turns == {<<{a, b}>>, <<{b, c}>>}

=============================================================================
