-------------------------- MODULE MCListensImporters --------------------------
(* Small instances of ListensImporters. *)
EXTENDS ListensImporters

=============================================================================
