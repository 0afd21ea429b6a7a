--------------------------- MODULE MCMappingQueue ---------------------------
(* Small instances of MappingQueue. *)
EXTENDS MappingQueue, TLC

\* An older listen and a recent one, and a message of both.
OldAndNew == ("old" :> 1) @@ ("new" :> 3)
OldAndNewAtOnce == {{"old", "new"}}

=============================================================================
