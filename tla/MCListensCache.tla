--------------------------- MODULE MCListensCache ---------------------------
(* Small instances of ListensCache. *)
EXTENDS ListensCache, TLC

\* The latest listens, and those before the second timestamp.
TwoPages == {{1, 2}, {1}}

\* The latest listens only.
OnePage == {{1, 2}}

ReaderSymm == Permutations(Readers)

BothSymm == Permutations(Readers) \cup Permutations(Changers)
=============================================================================
