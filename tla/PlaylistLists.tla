---------------------------- MODULE PlaylistLists ----------------------------
(***************************************************************************)
(* What a playlist promises to those who edit it: it is a sequence, every  *)
(* request edits it as it asks to, whole or not at all, and nobody else    *)
(* changes it.  A move is two edits, of which the second may be missing.   *)
(* Playlists.tla implements this specification with a table of positions.  *)
(***************************************************************************)
EXTENDS Integers, Sequences

CONSTANTS
    Playlists,
    Requests,
    Idle,       \* what an idle request asks for
    Absent,     \* the list of a playlist that does not exist
    Unknown     \* the list of a playlist about which nothing is promised any more

VARIABLES
    list,       \* list[p]: the items of p, in order
    shared,     \* shared[p]: whether p is public
    asked       \* asked[q]: the edit that request q is about to make

vars == <<list, shared, asked>>

Least(a, b) == IF a < b THEN a ELSE b

\* An index past the end means the end.
InsertedAt(s, at, items) ==
    LET k == Least(at, Len(s)) IN SubSeq(s, 1, k) \o items \o SubSeq(s, k + 1, Len(s))

RangeRemoved(s, from, count) ==
    SubSeq(s, 1, from) \o SubSeq(s, from + count + 1, Len(s))

RangeOf(s, from, count) == SubSeq(s, from + 1, Least(from + count, Len(s)))

Edited(s, a) ==
    CASE a.op = "add"    -> InsertedAt(s, IF a.at < 0 THEN Len(s) ELSE a.at, a.items)
      [] a.op = "put"    -> InsertedAt(s, a.to, a.items)
      [] a.op = "delete" -> RangeRemoved(s, a.from, a.count)
      [] a.op = "take"   -> RangeRemoved(s, a.from, a.count)
      [] a.op = "edit"   -> s

\* What is left to do: a move puts back what it has taken.
Rest(s, a) ==
    IF a.op = "take" THEN [op |-> "put", pl |-> a.pl, to |-> a.to, items |-> RangeOf(s, a.from, a.count)]
                     ELSE Idle

Perform(q) ==
    /\ asked[q] # Idle
    /\ LET a == asked[q]
           p == a.pl
       IN  \/ /\ list[p] \notin {Absent, Unknown}
              /\ list'  = [list EXCEPT ![p] = Edited(@, a)]
              /\ asked' = [asked EXCEPT ![q] = Rest(list[p], a)]
              /\ shared' = IF a.op = "edit" THEN [shared EXCEPT ![p] = (a.public = "yes") \/ (@ /\ a.public = "same")]
                                            ELSE shared
           \* Nothing is promised, before or after.
           \/ /\ list' = [list EXCEPT ![p] = Unknown]
              /\ shared' = [shared EXCEPT ![p] = shared'[p]]
              /\ asked' = [asked EXCEPT ![q] = asked'[q]]

\* A request states its edit, or gives up; two requests at once may upset their playlist.
AskOrGiveUp(q) ==
    /\ Idle \in {asked[q], asked'[q]}
    /\ asked' = [asked EXCEPT ![q] = asked'[q]]
    /\ UNCHANGED shared
    /\ \A p \in Playlists : list'[p] \in {list[p], Unknown}

\* Playlists are created, deleted, or upset.
Rearrange ==
    /\ \E S \in SUBSET Requests : asked' = [q \in Requests |-> IF q \in S THEN Idle ELSE asked[q]]
    /\ \A p \in Playlists :
          \/ list[p] = Absent
          \/ list'[p] \in {list[p], Absent, Unknown}

Init ==
    /\ list = [p \in Playlists |-> Absent]
    /\ asked = [q \in Requests |-> Idle]
    /\ shared \in [Playlists -> BOOLEAN]

Next == Rearrange \/ \E q \in Requests : Perform(q) \/ AskOrGiveUp(q)

Spec == Init /\ [][Next]_vars

=============================================================================
