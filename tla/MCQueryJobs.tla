------------------------------ MODULE MCQueryJobs ------------------------------
(* An instance of QueryJobs.tla for TLC. *)
EXTENDS QueryJobs

\* The second query is unknown: it has no results.
TwoAndNone == <<2, 0>>

=============================================================================
