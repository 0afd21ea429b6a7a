---------------------------- MODULE MCListensDB ----------------------------
(* Small instances of ListensDB. *)
EXTENDS ListensDB

\* The listen of user u at time t: one MSID is enough for two listens to have the same key.
L(u, t) == [user |-> u, at |-> t, msid |-> "m"]

\* A batch of two users and one of a single user, in each of which a listen may be a duplicate.
TwoUserBatches == {<<L(1, 1), L(2, 1)>>, <<L(1, 2), L(1, 1)>>}

\* Batches that insert the same listens in opposite orders.
OneUserBatches == {<<L(1, 1), L(1, 2)>>, <<L(1, 2), L(1, 1)>>}

SomeListens == {L(1, 2), L(2, 1)}

UserOneListens == {L(1, 1), L(1, 2)}

Symm == Permutations(Sessions)
=============================================================================
