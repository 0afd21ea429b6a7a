-------------------------- MODULE MCBackgroundTasks --------------------------
(***************************************************************************)
(* Instances of BackgroundTasks for TLC: a configuration names the kinds   *)
(* of tasks the user requests.                                             *)
(***************************************************************************)
EXTENDS BackgroundTasks, TLC

OnlyExports == {"export"}

OnlyImports == {"import"}

OnlyHistory == {"history"}

ImportsAndAccount == {"import", "account"}

ExportsAndHistory == {"export", "history"}

\* The workers, the ids and the services are interchangeable.  Not used where liveness is checked.
Symmetry == Permutations(Workers) \cup Permutations(Exports) \cup Permutations(Imports)
                \cup Permutations(Services)

=============================================================================
