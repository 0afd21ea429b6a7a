-------------------------- MODULE MCListenPipeline --------------------------
(* Small instances of ListenPipeline. *)
EXTENDS ListenPipeline

CONSTANTS c1, c2, w1, w2

Heard(t, r) == [user |-> "u", at |-> t, rec |-> r]

\* A request of two messages, and one that submits again a listen of the first.
OverlappingBatches ==
    (c1 :> <<Heard(1, "a"), Heard(2, "b"), Heard(3, "a")>>) @@ (c2 :> <<Heard(1, "a")>>)

\* A request that holds the same listen twice.
RepeatingBatches == (c1 :> <<Heard(1, "a"), Heard(1, "a")>>) @@ (c2 :> <<Heard(1, "a")>>)

\* Two requests of one listen each, of the same recording.
SmallBatches == (c1 :> <<Heard(1, "a"), Heard(2, "a")>>) @@ (c2 :> <<Heard(1, "a")>>)

\* Four listens in three messages, the youngest in the middle.
PrunedBatches == (c1 :> <<Heard(2, "a"), Heard(3, "a"), Heard(4, "a")>>) @@ (c2 :> <<Heard(1, "a")>>)

Alike == Permutations(Writers)
=============================================================================
