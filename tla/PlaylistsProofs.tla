---------------------------- MODULE PlaylistsProofs ----------------------------
(***************************************************************************)
(* Proofs about Playlists.tla: the positions of a playlist, the types, the *)
(* playlists that the bot replaces, and that Playlists implements          *)
(* PlaylistLists, for any users, any number of requests and playlists, and *)
(* payloads of any length.                                                 *)
(***************************************************************************)
EXTENDS Playlists, FiniteSetTheorems, FunctionTheorems, SequenceTheorems, WellFoundedInduction, TLAPS

-----------------------------------------------------------------------------
(* Recordings at the positions 0 to n - 1, one at each.                    *)

Lined(T, n) ==
    /\ n \in Nat
    /\ \A t \in T : t.pos \in 0..(n - 1)
    /\ \A i \in 0..(n - 1) : \E t \in T : t.pos = i
    /\ \A s, t \in T : s.pos = t.pos => s = t

LEMMA LinedSize ==
  ASSUME NEW T, NEW n, Lined(T, n)
  PROVE  IsFiniteSet(T) /\ Cardinality(T) = n
<1> DEFINE f == [i \in 0..(n - 1) |-> CHOOSE t \in T : t.pos = i]
<1>1. f \in [0..(n - 1) -> T] /\ \A i \in 0..(n - 1) : f[i].pos = i
  BY DEF Lined
<1>2. \A i, j \in 0..(n - 1) : f[i] = f[j] => i = j
  BY <1>1
<1>3. \A t \in T : \E i \in 0..(n - 1) : f[i] = t
  <2>1. SUFFICES ASSUME NEW t \in T
                 PROVE  f[t.pos] = t /\ t.pos \in 0..(n - 1)
    OBVIOUS
  <2>2. t.pos \in 0..(n - 1)
    BY DEF Lined
  <2>3. f[t.pos] \in T /\ f[t.pos].pos = t.pos
    BY <1>1, <2>2
  <2> QED
    BY <2>2, <2>3 DEF Lined
<1> HIDE DEF f
<1>4. ExistsBijection(0..(n - 1), T)
  BY <1>1, <1>2, <1>3, Fun_IsBij, Fun_ExistsBij
<1>5. IsFiniteSet(0..(n - 1)) /\ Cardinality(0..(n - 1)) = n
  BY FS_Interval DEF Lined
<1> QED
  BY <1>4, <1>5, FS_Bijection

LEMMA LinedContiguous ==
  ASSUME NEW T, NEW n, Lined(T, n)
  PROVE  Contiguous(T)
<1>1. ASSUME NEW t \in T, t.pos > 0
      PROVE  \E s \in T : s.pos = t.pos - 1
  <2>1. t.pos - 1 \in 0..(n - 1)
    BY <1>1 DEF Lined
  <2> QED
    BY <2>1 DEF Lined
<1> QED
  BY <1>1 DEF Lined, Contiguous

\* Recordings that are inserted take the positions from the first one on.
LEMMA InsertedAtPositions ==
  ASSUME NEW T, NEW items, Len(items) \in Nat, DOMAIN items = 1..Len(items), NEW at \in Nat
  PROVE  /\ \A t \in insert_recordings(T, items, at) : t \in T \/ t.pos \in at..(at + Len(items) - 1)
         /\ T \subseteq insert_recordings(T, items, at)
         /\ \A i \in at..(at + Len(items) - 1) : \E t \in insert_recordings(T, items, at) : t.pos = i
         /\ \A s, t \in insert_recordings(T, items, at) :
               s \notin T /\ t \notin T /\ s.pos = t.pos => s = t
<1> DEFINE Placed(k) == [id |-> FirstId(T) + k - 1, mbid |-> items[k].mbid, by |-> items[k].by, pos |-> at + k - 1]
           New == {Placed(k) : k \in 1..Len(items)}
<1>1. insert_recordings(T, items, at) = T \cup New
  BY DEF insert_recordings
<1>2. \A k \in 1..Len(items) : Placed(k).pos = at + k - 1
  OBVIOUS
<1> HIDE DEF Placed
<1>3. \A t \in New : t.pos \in at..(at + Len(items) - 1)
  BY <1>2
<1>4. ASSUME NEW i \in at..(at + Len(items) - 1)
      PROVE  \E t \in New : t.pos = i
  <2>1. i - at + 1 \in 1..Len(items) /\ Placed(i - at + 1) \in New /\ at + (i - at + 1) - 1 = i
    OBVIOUS
  <2> QED
    BY <1>2, <2>1
<1>5. ASSUME NEW s \in New, NEW t \in New, s.pos = t.pos
      PROVE  s = t
  <2>1. PICK k \in 1..Len(items), l \in 1..Len(items) : s = Placed(k) /\ t = Placed(l)
    OBVIOUS
  <2>2. k = l
    BY <1>2, <1>5, <2>1
  <2> QED
    BY <2>1, <2>2
<1> QED
  BY <1>1, <1>3, <1>4, <1>5

\* Inserting into a gap of the right size, or at the end.
LEMMA FilledGap ==
  ASSUME NEW T, NEW n \in Nat, NEW at \in 0..n, NEW items, Len(items) \in Nat, DOMAIN items = 1..Len(items),
         \A t \in T : t.pos \in (0..(at - 1)) \cup ((at + Len(items))..(n + Len(items) - 1)),
         \A i \in (0..(at - 1)) \cup ((at + Len(items))..(n + Len(items) - 1)) : \E t \in T : t.pos = i,
         \A s, t \in T : s.pos = t.pos => s = t
  PROVE  Lined(insert_recordings(T, items, at), n + Len(items))
<1> DEFINE U == insert_recordings(T, items, at)
<1>1. /\ \A t \in U : t \in T \/ t.pos \in at..(at + Len(items) - 1)
      /\ T \subseteq U
      /\ \A i \in at..(at + Len(items) - 1) : \E t \in U : t.pos = i
      /\ \A s, t \in U : s \notin T /\ t \notin T /\ s.pos = t.pos => s = t
  BY InsertedAtPositions
<1> HIDE DEF U
<1>2. \A t \in U : t.pos \in 0..(n + Len(items) - 1)
  BY <1>1
<1>3. ASSUME NEW i \in 0..(n + Len(items) - 1)
      PROVE  \E t \in U : t.pos = i
  <2>1. CASE i \in at..(at + Len(items) - 1)
    BY <1>1, <2>1
  <2>2. CASE i \in (0..(at - 1)) \cup ((at + Len(items))..(n + Len(items) - 1))
    BY <1>1, <2>2
  <2> QED
    BY <2>1, <2>2
<1>4. ASSUME NEW s \in U, NEW t \in U, s.pos = t.pos
      PROVE  s = t
  BY <1>1, <1>4
<1> QED
  BY <1>2, <1>3, <1>4 DEF Lined, U

\* Positions from a given one on are shifted, and stay behind those before it.
LEMMA ReorderedPositions ==
  ASSUME NEW T, NEW from \in Int, NEW by \in Int,
         \A t \in T : t.pos \in Int,
         \A s, t \in T : s.pos = t.pos => s = t,
         \A s, t \in T : s.pos < from /\ t.pos >= from => s.pos < t.pos + by
  PROVE  /\ \A t \in T : \E u \in Reordered(T, from, by) :
               u.pos = IF t.pos >= from THEN t.pos + by ELSE t.pos
         /\ \A u \in Reordered(T, from, by) : \E t \in T :
               u.pos = IF t.pos >= from THEN t.pos + by ELSE t.pos
         /\ \A u, v \in Reordered(T, from, by) : u.pos = v.pos => u = v
<1> DEFINE Shifted(t) == [id |-> t.id, mbid |-> t.mbid, by |-> t.by, pos |-> t.pos + by]
           Moved(t) == IF t.pos >= from THEN Shifted(t) ELSE t
<1>1. Reordered(T, from, by) = {Moved(t) : t \in T}
  BY DEF Reordered
<1>2. \A t \in T : Moved(t).pos = IF t.pos >= from THEN t.pos + by ELSE t.pos
  OBVIOUS
<1> HIDE DEF Moved
<1>3. ASSUME NEW s \in T, NEW t \in T, Moved(s).pos = Moved(t).pos
      PROVE  Moved(s) = Moved(t)
  <2>1. s.pos = t.pos
    BY <1>2, <1>3
  <2> QED
    BY <2>1
<1> QED
  BY <1>1, <1>2, <1>3

\* add_recordings_to_playlist, with the length of the list as it is.
LEMMA AddedLined ==
  ASSUME NEW T, NEW n, Lined(T, n), NEW position \in -1..n,
         NEW items, Len(items) \in Nat, DOMAIN items = 1..Len(items)
  PROVE  Lined(add_recordings_to_playlist(T, n, items, position), n + Len(items))
<1> DEFINE at == IF position < 0 THEN n ELSE position
<1>1. n \in Nat /\ at \in 0..n
  BY DEF Lined
<1>2. add_recordings_to_playlist(T, n, items, position) =
        insert_recordings(IF at < n THEN Reordered(T, at, Len(items)) ELSE T, items, at)
  BY DEF add_recordings_to_playlist
<1> HIDE DEF at
<1>3. CASE at = n
  <2>1. /\ \A t \in T : t.pos \in (0..(at - 1)) \cup ((at + Len(items))..(n + Len(items) - 1))
        /\ \A i \in (0..(at - 1)) \cup ((at + Len(items))..(n + Len(items) - 1)) : \E t \in T : t.pos = i
        /\ \A s, t \in T : s.pos = t.pos => s = t
    BY <1>1, <1>3 DEF Lined
  <2>2. Lined(insert_recordings(T, items, at), n + Len(items))
    BY <1>1, <2>1, FilledGap
  <2> QED
    BY <1>1, <1>2, <1>3, <2>2
<1>4. CASE at < n
  <2> DEFINE U == Reordered(T, at, Len(items))
  <2>1. /\ \A t \in T : \E u \in U : u.pos = IF t.pos >= at THEN t.pos + Len(items) ELSE t.pos
        /\ \A u \in U : \E t \in T : u.pos = IF t.pos >= at THEN t.pos + Len(items) ELSE t.pos
        /\ \A u, v \in U : u.pos = v.pos => u = v
    BY <1>1, ReorderedPositions DEF Lined
  <2> HIDE DEF U
  <2>2. \A u \in U : u.pos \in (0..(at - 1)) \cup ((at + Len(items))..(n + Len(items) - 1))
    BY <1>1, <2>1 DEF Lined
  <2>3. ASSUME NEW i \in (0..(at - 1)) \cup ((at + Len(items))..(n + Len(items) - 1))
        PROVE  \E u \in U : u.pos = i
    <3>1. CASE i < at
      <4>1. PICK t \in T : t.pos = i
        BY <1>1, <3>1 DEF Lined
      <4> QED
        BY <1>1, <2>1, <3>1, <4>1
    <3>2. CASE i >= at
      <4>1. i - Len(items) \in 0..(n - 1) /\ i - Len(items) >= at
        BY <1>1, <3>2
      <4>2. PICK t \in T : t.pos = i - Len(items)
        BY <4>1 DEF Lined
      <4> QED
        BY <1>1, <2>1, <4>1, <4>2
    <3> QED
      BY <1>1, <3>1, <3>2
  <2>4. Lined(insert_recordings(U, items, at), n + Len(items))
    BY <1>1, <2>1, <2>2, <2>3, FilledGap
  <2> QED
    BY <1>2, <1>4, <2>4 DEF U
<1> QED
  BY <1>1, <1>3, <1>4

\* The second half of a move goes by the length before the first: it shifts the same recordings.
LEMMA PutAdds ==
  ASSUME NEW T, NEW n, Lined(T, n), NEW known \in Nat, n <= known, NEW to \in 0..n, NEW items
  PROVE  add_recordings_to_playlist(T, known, items, to) = add_recordings_to_playlist(T, n, items, to)
<1>1. n \in Nat /\ \A t \in T : t.pos \in 0..(n - 1)
  BY DEF Lined
<1>2. CASE to < n
  BY <1>1, <1>2 DEF add_recordings_to_playlist
<1>3. CASE to = n
  <2>1. Reordered(T, n, Len(items)) = T
    <3>1. \A t \in T : ~(t.pos >= n)
      BY <1>1
    <3> QED
      BY <3>1 DEF Reordered
  <2>2. add_recordings_to_playlist(T, known, items, n) = insert_recordings(T, items, n)
    BY <1>1, <2>1 DEF add_recordings_to_playlist
  <2>3. add_recordings_to_playlist(T, n, items, n) = insert_recordings(T, items, n)
    BY <1>1 DEF add_recordings_to_playlist
  <2> QED
    BY <1>3, <2>2, <2>3
<1> QED
  BY <1>1, <1>2, <1>3

LEMMA PutLined ==
  ASSUME NEW T, NEW n, Lined(T, n), NEW known \in Nat, n <= known, NEW to \in 0..n,
         NEW items, Len(items) \in Nat, DOMAIN items = 1..Len(items)
  PROVE  Lined(add_recordings_to_playlist(T, known, items, to), n + Len(items))
<1>1. to \in -1..n
  BY DEF Lined
<1> QED
  BY <1>1, PutAdds, AddedLined

Smaller(a, b) == IF a < b THEN a ELSE b

\* delete_recordings_from_playlist, with the length of the list as it is.
LEMMA DeletedLined ==
  ASSUME NEW T, NEW n, Lined(T, n), NEW from \in 0..(n - 1), NEW count \in Nat \ {0}
  PROVE  Lined(delete_recordings_from_playlist(T, n, from, count), n - (Smaller(from + count, n) - from))
<1> DEFINE kept == {t \in T : ~(from <= t.pos /\ t.pos < from + count)}
<1>1. /\ n \in Nat
      /\ \A t \in kept : t \in T /\ t.pos \in (0..(from - 1)) \cup ((from + count)..(n - 1))
      /\ \A i \in (0..(from - 1)) \cup ((from + count)..(n - 1)) : \E t \in kept : t.pos = i
      /\ \A s, t \in kept : s.pos = t.pos => s = t
  BY DEF Lined
<1>2. delete_recordings_from_playlist(T, n, from, count) =
        IF from + count < n THEN Reordered(kept, from + count, -count) ELSE kept
  BY DEF delete_recordings_from_playlist
<1> HIDE DEF kept
<1>3. CASE from + count >= n
  <2>1. Lined(kept, from)
    BY <1>1, <1>3 DEF Lined
  <2> QED
    BY <1>1, <1>2, <1>3, <2>1 DEF Smaller
<1>4. CASE from + count < n
  <2> DEFINE U == Reordered(kept, from + count, -count)
  <2>1. /\ \A t \in kept : \E u \in U : u.pos = IF t.pos >= from + count THEN t.pos + (-count) ELSE t.pos
        /\ \A u \in U : \E t \in kept : u.pos = IF t.pos >= from + count THEN t.pos + (-count) ELSE t.pos
        /\ \A u, v \in U : u.pos = v.pos => u = v
    <3>1. /\ from + count \in Int /\ -count \in Int
          /\ \A t \in kept : t.pos \in Int
          /\ \A s, t \in kept : s.pos < from + count /\ t.pos >= from + count => s.pos < t.pos + (-count)
      BY <1>1
    <3> QED
      BY <1>1, <3>1, ReorderedPositions
  <2> HIDE DEF U
  <2>2. \A u \in U : u.pos \in 0..(n - count - 1)
    BY <1>1, <1>4, <2>1
  <2>3. ASSUME NEW i \in 0..(n - count - 1)
        PROVE  \E u \in U : u.pos = i
    <3>1. CASE i < from
      <4>1. PICK t \in kept : t.pos = i
        BY <1>1, <3>1
      <4> QED
        BY <1>1, <2>1, <3>1, <4>1
    <3>2. CASE i >= from
      <4>1. PICK t \in kept : t.pos = i + count
        BY <1>1, <3>2
      <4> QED
        BY <1>1, <2>1, <3>2, <4>1
    <3> QED
      BY <1>1, <3>1, <3>2
  <2>4. Lined(U, n - count)
    BY <1>1, <1>4, <2>1, <2>2, <2>3 DEF Lined
  <2> QED
    BY <1>1, <1>2, <1>4, <2>4 DEF Smaller, U
<1> QED
  BY <1>1, <1>3, <1>4

-----------------------------------------------------------------------------
(* Tables stay finite, and what is sent has a length.                      *)

Sized(s) == Len(s) \in Nat /\ DOMAIN s = 1..Len(s)

LEMMA FiniteReordered ==
  ASSUME NEW T, IsFiniteSet(T), NEW from, NEW by
  PROVE  IsFiniteSet(Reordered(T, from, by))
<1> DEFINE f == [t \in T |-> IF t.pos >= from THEN [id |-> t.id, mbid |-> t.mbid, by |-> t.by, pos |-> t.pos + by]
                                             ELSE t]
<1>1. Reordered(T, from, by) = {f[t] : t \in T}
  BY DEF Reordered
<1> HIDE DEF f
<1>2. f \in Surjection(T, {f[t] : t \in T})
  <2>1. DOMAIN f = T /\ f = [t \in T |-> f[t]]
    BY DEF f
  <2> QED
    BY <2>1 DEF Surjection
<1> QED
  BY <1>1, <1>2, FS_Surjection

LEMMA FiniteInserted ==
  ASSUME NEW T, IsFiniteSet(T), NEW items, Sized(items), NEW at
  PROVE  IsFiniteSet(insert_recordings(T, items, at))
<1> DEFINE f == [k \in 1..Len(items) |-> [id |-> FirstId(T) + k - 1, mbid |-> items[k].mbid,
                                         by |-> items[k].by, pos |-> at + k - 1]]
<1>1. insert_recordings(T, items, at) = T \cup {f[k] : k \in 1..Len(items)}
  BY DEF insert_recordings, Sized
<1> HIDE DEF f
<1>2. f \in Surjection(1..Len(items), {f[k] : k \in 1..Len(items)})
  <2>1. f = [k \in 1..Len(items) |-> f[k]]
    BY DEF f
  <2> QED
    BY <2>1 DEF Surjection
<1>3. IsFiniteSet(1..Len(items))
  BY FS_Interval DEF Sized
<1>4. IsFiniteSet({f[k] : k \in 1..Len(items)})
  BY <1>2, <1>3, FS_Surjection
<1> QED
  BY <1>1, <1>4, FS_Union

LEMMA FiniteAdded ==
  ASSUME NEW T, IsFiniteSet(T), NEW items, Sized(items), NEW known, NEW position
  PROVE  IsFiniteSet(add_recordings_to_playlist(T, known, items, position))
  BY FiniteReordered, FiniteInserted DEF add_recordings_to_playlist

LEMMA FiniteDeleted ==
  ASSUME NEW T, IsFiniteSet(T), NEW known, NEW from, NEW count
  PROVE  IsFiniteSet(delete_recordings_from_playlist(T, known, from, count))
<1>1. IsFiniteSet({t \in T : ~(from <= t.pos /\ t.pos < from + count)})
  BY FS_Subset
<1> QED
  BY <1>1, FiniteReordered DEF delete_recordings_from_playlist

LEMMA AddedBySized ==
  ASSUME NEW u, NEW s \in Payloads
  PROVE  Sized(AddedBy(u, s)) /\ Len(AddedBy(u, s)) = Len(s)
<1>1. Len(s) \in Nat /\ DOMAIN s = 1..Len(s)
  BY PayloadsAssumption, LenProperties
<1>2. AddedBy(u, s) = [k \in 1..Len(s) |-> [mbid |-> s[k], by |-> u]]
  BY <1>1 DEF AddedBy
<1>3. AddedBy(u, s) \in Seq({AddedBy(u, s)[k] : k \in 1..Len(s)})
  BY <1>1, <1>2
<1>4. DOMAIN AddedBy(u, s) = 1..Len(s)
  BY <1>2
<1> QED
  BY <1>1, <1>3, <1>4, LenProperties DEF Sized

LEMMA ListSized ==
  ASSUME NEW T, IsFiniteSet(T)
  PROVE  Sized(get_recordings_for_playlists(T))
<1> DEFINE s == get_recordings_for_playlists(T)
<1>1. Cardinality(T) \in Nat
  BY FS_CardinalityType
<1>2. DOMAIN s = 1..Cardinality(T) /\ s = [k \in 1..Cardinality(T) |-> s[k]]
  BY DEF get_recordings_for_playlists
<1> HIDE DEF s
<1>3. s \in Seq({s[k] : k \in 1..Cardinality(T)})
  BY <1>1, <1>2
<1> QED
  BY <1>1, <1>2, <1>3, LenProperties DEF Sized, s

LEMMA PartSized ==
  ASSUME NEW s, NEW from \in Nat, NEW to \in Nat, from <= to
  PROVE  Sized(SubSeq(s, from + 1, to)) /\ Len(SubSeq(s, from + 1, to)) = to - from
<1>1. SubSeq(s, from + 1, to) \in Seq({s[i] : i \in (from + 1)..to})
      /\ Len(SubSeq(s, from + 1, to)) = to - from
  BY SubSeqProperties
<1> QED
  BY <1>1, LenProperties DEF Sized

-----------------------------------------------------------------------------
(* The inductive invariant.  A request that is alone with its playlist     *)
(* knows the length of the list, even between the two halves of a move.    *)

Columns == {"creator", "madeFor", "public", "collab", "tracks"}
IsRow(row) == row = [c \in Columns |-> row[c]]

RowOK(row, why) ==
    /\ IsRow(row)
    /\ IsFiniteSet(row.tracks)
    /\ why = {} => \E n \in Nat : Lined(row.tracks, n)

Operations == {"idle", "create", "edit", "add", "delete", "take", "put"}

RequestOK(r, newest) ==
    /\ r.op \in Operations
    /\ r.op \notin {"idle", "create"} => r.pl \in 1..newest
    /\ r.op \in {"idle", "create"} => r.pl = 0
    /\ r.op \in {"add", "delete", "take", "put"} => r.known \in Nat
    /\ r.op \in {"add", "take", "put"} => Sized(r.items)
    /\ r.op = "add" => r.at \in -1..(r.known + 1)
    /\ r.op \in {"delete", "take"} => r.from \in 0..(r.known - 1) /\ r.count \in 1..2
    /\ r.op = "take" => Len(r.items) = Smaller(r.from + r.count, r.known) - r.from
    /\ r.op \in {"take", "put"} => r.to \in 0..r.known
    /\ r.op = "put" => Len(r.items) <= r.known

Fits(r, T) ==
    /\ r.op \in {"add", "delete", "take"} => Lined(T, r.known)
    /\ r.op = "put" => Lined(T, r.known - Len(r.items))

Edits(q, p) == req[q].op # "idle" /\ req[q].pl = p

Tables ==
    /\ last \in 0..MaxPlaylists
    /\ playlist = [p \in Playlists |-> playlist[p]]
    /\ upset = [p \in Playlists |-> upset[p]]
    /\ req = [q \in Requests |-> req[q]]
    /\ \A p \in Playlists : Exists(p) => p <= last

Rows == \A p \in Playlists : Exists(p) => RowOK(playlist[p], upset[p])

RequestsOK == \A q \in Requests : RequestOK(req[q], last)

RequestsFit ==
    \A q \in Requests, p \in Playlists :
        Edits(q, p) /\ Exists(p) /\ upset[p] = {} => Fits(req[q], playlist[p].tracks)

Alone ==
    \A q, r \in Requests, p \in Playlists : Edits(q, p) /\ Edits(r, p) /\ upset[p] = {} => q = r

Inductive == Tables /\ Rows /\ RequestsOK /\ RequestsFit /\ Alone

\* A row whose list is as it was, or that nothing is said of any more, or that is new.
RowAsBefore(p) ==
    \/ playlist'[p] = Absent
    \/ /\ Exists(p) /\ IsRow(playlist'[p]) /\ playlist'[p].tracks = playlist[p].tracks
    \/ /\ upset'[p] # {} /\ IsRow(playlist'[p]) /\ IsFiniteSet(playlist'[p].tracks)
    \/ /\ p > last /\ IsRow(playlist'[p]) /\ \E n \in Nat : Lined(playlist'[p].tracks, n)

\* Steps that leave the recordings of a playlist to those who edit it.
LEMMA Frame ==
  ASSUME Inductive, Tables', last' >= last,
         \A q \in Requests : req'[q] = req[q] \/ (req'[q].op \in {"idle", "create"} /\ req'[q].pl = 0),
         \A p \in Playlists : upset[p] \subseteq upset'[p],
         \A p \in Playlists : RowAsBefore(p)
  PROVE  Inductive'
<1>1. Rows'
  <2>1. SUFFICES ASSUME NEW p \in Playlists, playlist'[p] # Absent
                 PROVE  RowOK(playlist'[p], upset'[p])
    BY DEF Rows, Exists
  <2>2. CASE Exists(p) /\ IsRow(playlist'[p]) /\ playlist'[p].tracks = playlist[p].tracks
    BY <2>2 DEF Inductive, Rows, RowOK
  <2>3. CASE upset'[p] # {} /\ IsRow(playlist'[p]) /\ IsFiniteSet(playlist'[p].tracks)
    BY <2>3 DEF RowOK
  <2>4. CASE IsRow(playlist'[p]) /\ \E n \in Nat : Lined(playlist'[p].tracks, n)
    BY <2>4, LinedSize DEF RowOK
  <2> QED
    BY <2>1, <2>2, <2>3, <2>4 DEF RowAsBefore
<1>2. RequestsOK'
  <2>1. SUFFICES ASSUME NEW q \in Requests
                 PROVE  RequestOK(req'[q], last')
    BY DEF RequestsOK
  <2>2. RequestOK(req[q], last)
    BY DEF Inductive, RequestsOK
  <2>3. CASE req'[q] = req[q]
    BY <2>2, <2>3 DEF RequestOK, Inductive, Tables
  <2>4. CASE req'[q].op \in {"idle", "create"} /\ req'[q].pl = 0
    BY <2>4 DEF RequestOK, Operations
  <2> QED
    BY <2>3, <2>4
<1>3. RequestsFit'
  <2>1. SUFFICES ASSUME NEW q \in Requests, NEW p \in Playlists, Edits(q, p)', playlist'[p] # Absent, upset'[p] = {}
                 PROVE  Fits(req'[q], playlist'[p].tracks)
    BY DEF RequestsFit, Exists
  <2>2. req'[q] = req[q] /\ Edits(q, p)
    BY <2>1, BoundsAssumption DEF Edits, Playlists
  <2>3. ~(p > last)
    BY <2>2, BoundsAssumption DEF Inductive, Tables, RequestsOK, RequestOK, Edits, Playlists
  <2>4. Exists(p) /\ playlist'[p].tracks = playlist[p].tracks /\ upset[p] = {}
    BY <2>1, <2>3 DEF RowAsBefore
  <2> QED
    BY <2>2, <2>4 DEF Inductive, RequestsFit
<1>4. Alone'
  <2>1. \A q \in Requests, p \in Playlists : Edits(q, p)' => Edits(q, p)
    BY BoundsAssumption DEF Edits, Playlists
  <2> QED
    BY <2>1 DEF Inductive, Alone
<1> QED
  BY <1>1, <1>2, <1>3, <1>4 DEF Inductive

\* A handler takes up a request.
LEMMA BeginStep ==
  ASSUME Inductive, NEW q \in Requests, NEW p \in Playlists, Exists(p), NEW r, Begin(q, p, r),
         r.op \notin {"idle", "create"}, r.pl = p, RequestOK(r, last), Fits(r, playlist[p].tracks) \/ upset[p] # {}
  PROVE  Inductive'
<1>1. /\ UNCHANGED <<playlist, last>>
      /\ req' = [req EXCEPT ![q] = r] /\ req[q] = Idle
      /\ upset' = [upset EXCEPT ![p] = @ \cup (IF Editing(p) = {} THEN {} ELSE {"overlap"})]
  BY DEF Begin
<1>2. Tables'
  BY <1>1 DEF Inductive, Tables, Exists
<1>3. req'[q] = r /\ \A o \in Requests \ {q} : req'[o] = req[o]
  BY <1>1 DEF Inductive, Tables
<1>4. /\ \A o \in Playlists : upset[o] \subseteq upset'[o]
      /\ upset'[p] = {} => Editing(p) = {}
  BY <1>1 DEF Inductive, Tables
<1>5. Rows'
  BY <1>1, <1>4 DEF Inductive, Rows, RowOK, Exists
<1>6. RequestsOK'
  BY <1>1, <1>3 DEF Inductive, RequestsOK
<1>7. RequestsFit'
  BY <1>1, <1>3, <1>4 DEF Inductive, RequestsFit, Edits, Exists
<1>8. \A o \in Requests : Edits(o, p) => o \in Editing(p)
  BY DEF Edits, Editing
<1>9. Alone'
  BY <1>3, <1>4, <1>8 DEF Inductive, Alone, Edits
<1> QED
  BY <1>2, <1>5, <1>6, <1>7, <1>9 DEF Inductive

\* A request writes the recordings of its playlist.
LEMMA WriteStep ==
  ASSUME Inductive, NEW q \in Requests, NEW p \in Playlists, Edits(q, p), Exists(p),
         NEW T, IsFiniteSet(T), NEW why, WriteTracks(p, T, why),
         NEW r, req' = [req EXCEPT ![q] = r], RequestOK(r, last), r.op # "idle" => r.pl = p,
         upset'[p] = {} => (\E n \in Nat : Lined(T, n)) /\ Fits(r, T)
  PROVE  Inductive'
<1>1. /\ UNCHANGED last /\ playlist' = [playlist EXCEPT ![p].tracks = T]
      /\ upset' = [upset EXCEPT ![p] = @ \cup why]
  BY DEF WriteTracks
<1>2. /\ \A o \in Playlists : upset[o] \subseteq upset'[o]
      /\ \A o \in Playlists \ {p} : upset'[o] = upset[o] /\ playlist'[o] = playlist[o]
  BY <1>1 DEF Inductive, Tables
<1>3. IsRow(playlist'[p]) /\ playlist'[p].tracks = T
  <2>1. IsRow(playlist[p])
    BY DEF Inductive, Rows, RowOK
  <2>2. playlist'[p] = [playlist[p] EXCEPT !.tracks = T]
    BY <1>1 DEF Inductive, Tables
  <2> QED
    BY <2>1, <2>2 DEF IsRow, Columns
<1>4. Tables'
  BY <1>1, <1>2 DEF Inductive, Tables, Exists
<1>5. req'[q] = r /\ \A o \in Requests \ {q} : req'[o] = req[o]
  BY DEF Inductive, Tables
<1>6. Rows'
  BY <1>2, <1>3 DEF Inductive, Rows, RowOK, Exists
<1>7. RequestsOK'
  BY <1>1, <1>5 DEF Inductive, RequestsOK
<1>8. \A o \in Requests, k \in Playlists : Edits(o, k)' => Edits(o, k)
  BY <1>5 DEF Edits
<1>9. RequestsFit'
  <2>1. SUFFICES ASSUME NEW o \in Requests, NEW k \in Playlists, Edits(o, k)', Exists(k)', upset'[k] = {}
                 PROVE  Fits(req'[o], playlist'[k].tracks)
    BY DEF RequestsFit
  <2>2. Edits(o, k) /\ upset[k] = {}
    BY <1>2, <1>8, <2>1
  <2>3. CASE k # p
    <3>1. o # q
      BY <1>5, <2>1, <2>3 DEF Edits
    <3> QED
      BY <1>2, <1>5, <2>1, <2>2, <2>3, <3>1 DEF Inductive, RequestsFit, Exists
  <2>4. CASE k = p
    <3>1. o = q
      BY <2>2, <2>4 DEF Inductive, Alone
    <3> QED
      BY <1>3, <1>5, <2>1, <2>4, <3>1
  <2> QED
    BY <2>3, <2>4
<1>10. Alone'
  BY <1>2, <1>8 DEF Inductive, Alone
<1> QED
  BY <1>4, <1>6, <1>7, <1>9, <1>10 DEF Inductive

-----------------------------------------------------------------------------
(* The actions. *)

\* A list that nothing has upset has as many recordings as a request reads.
LEMMA KnownLined ==
  ASSUME Inductive, NEW p \in Playlists, Exists(p)
  PROVE  /\ p \in 1..last /\ Known(p) \in Nat /\ IsFiniteSet(playlist[p].tracks)
         /\ Lined(playlist[p].tracks, Known(p)) \/ upset[p] # {}
<1>1. RowOK(playlist[p], upset[p])
  BY DEF Inductive, Rows
<1>2. p \in 1..last
  BY BoundsAssumption DEF Inductive, Tables, Playlists
<1>3. Known(p) \in Nat
  BY <1>1, FS_CardinalityType DEF RowOK, Known
<1>4. ASSUME upset[p] = {}
      PROVE  Lined(playlist[p].tracks, Known(p))
  BY <1>1, <1>4, LinedSize DEF RowOK, Known
<1> QED
  BY <1>1, <1>2, <1>3, <1>4 DEF RowOK

LEMMA EditStep ==
  ASSUME Inductive, NEW q \in Requests, NEW u \in live, NEW p \in Playlists,
         \/ add_playlist_item(q, u, p) \/ delete_playlist_item(q, u, p)
         \/ move_playlist_item(q, u, p) \/ edit_playlist(q, u, p)
  PROVE  Inductive'
<1>1. Exists(p)
  BY DEF add_playlist_item, delete_playlist_item, move_playlist_item, edit_playlist
<1>2. /\ p \in 1..last /\ Known(p) \in Nat /\ IsFiniteSet(playlist[p].tracks)
      /\ Lined(playlist[p].tracks, Known(p)) \/ upset[p] # {}
  BY <1>1, KnownLined
<1>3. CASE add_playlist_item(q, u, p)
  <2>1. PICK at \in -1..(Known(p) + 1), s \in Payloads :
           Begin(q, p, [op |-> "add", pl |-> p, known |-> Known(p), at |-> at, items |-> AddedBy(u, s)])
    BY <1>3 DEF add_playlist_item
  <2> DEFINE r == [op |-> "add", pl |-> p, known |-> Known(p), at |-> at, items |-> AddedBy(u, s)]
  <2>2. RequestOK(r, last)
    BY <1>2, AddedBySized DEF RequestOK, Operations
  <2>3. Fits(r, playlist[p].tracks) \/ upset[p] # {}
    BY <1>2 DEF Fits
  <2> QED
    BY <1>1, <2>1, <2>2, <2>3, BeginStep
<1>4. CASE delete_playlist_item(q, u, p)
  <2>1. PICK index \in 0..(Known(p) - 1), count \in 1..2 :
           Begin(q, p, [op |-> "delete", pl |-> p, known |-> Known(p), from |-> index, count |-> count])
    BY <1>4 DEF delete_playlist_item
  <2> DEFINE r == [op |-> "delete", pl |-> p, known |-> Known(p), from |-> index, count |-> count]
  <2>2. RequestOK(r, last)
    BY <1>2 DEF RequestOK, Operations
  <2>3. Fits(r, playlist[p].tracks) \/ upset[p] # {}
    BY <1>2 DEF Fits
  <2> QED
    BY <1>1, <2>1, <2>2, <2>3, BeginStep
<1>5. CASE move_playlist_item(q, u, p)
  <2> DEFINE part(from, count) == SubSeq(get_recordings_for_playlists(playlist[p].tracks), from + 1,
                                         IF from + count < Known(p) THEN from + count ELSE Known(p))
             r(from, count, to) == [op |-> "take", pl |-> p, known |-> Known(p), from |-> from, count |-> count,
                                    to |-> to, items |-> part(from, count)]
  <2>1. PICK from \in 0..(Known(p) - 1), count \in 1..2, to \in 0..Known(p) : Begin(q, p, r(from, count, to))
    BY <1>5 DEF move_playlist_item
  <2>2. Sized(part(from, count)) /\ Len(part(from, count)) = Smaller(from + count, Known(p)) - from
    <3>1. /\ from \in Nat /\ Smaller(from + count, Known(p)) \in Nat /\ from <= Smaller(from + count, Known(p))
          /\ part(from, count) = SubSeq(get_recordings_for_playlists(playlist[p].tracks), from + 1,
                                        Smaller(from + count, Known(p)))
      BY <1>2 DEF Smaller
    <3> HIDE DEF part
    <3> QED
      BY <3>1, PartSized
  <2> HIDE DEF part
  <2>3. RequestOK(r(from, count, to), last)
    BY <1>2, <2>2 DEF RequestOK, Operations
  <2>4. Fits(r(from, count, to), playlist[p].tracks) \/ upset[p] # {}
    BY <1>2 DEF Fits
  <2> QED
    BY <1>1, <2>1, <2>3, <2>4, BeginStep
<1>6. CASE edit_playlist(q, u, p)
  <2>1. PICK asks \in {"yes", "no", "same"}, c \in SUBSET ((Users \cap live) \ {u}) :
           Begin(q, p, [op |-> "edit", pl |-> p, asks |-> asks, collab |-> c,
                        public |-> asks = "yes" \/ (asks = "same" /\ playlist[p].public)])
    BY <1>6 DEF edit_playlist
  <2> DEFINE r == [op |-> "edit", pl |-> p, asks |-> asks, collab |-> c,
                   public |-> asks = "yes" \/ (asks = "same" /\ playlist[p].public)]
  <2>2. RequestOK(r, last) /\ Fits(r, playlist[p].tracks)
    BY <1>2 DEF RequestOK, Operations, Fits
  <2> QED
    BY <1>1, <2>1, <2>2, BeginStep
<1> QED
  BY <1>3, <1>4, <1>5, <1>6

LEMMA IdleOK == RequestOK(Idle, last) /\ Idle.op = "idle" /\ \A T : Fits(Idle, T)
  BY DEF RequestOK, Idle, Operations, Fits

LEMMA NoHole ==
  ASSUME NEW past \in BOOLEAN, Hole(past) \subseteq {}
  PROVE  ~past
  BY DEF Hole

LEMMA CommitStep ==
  ASSUME Inductive, NEW q \in Requests,
         AddCommits(q) \/ DeleteCommits(q) \/ MoveDeletes(q) \/ MoveAdds(q)
  PROVE  Inductive'
<1> DEFINE r == req[q]
           p == r.pl
           T == playlist[p].tracks
<1>1. /\ r.op \in {"add", "delete", "take", "put"} /\ Exists(p) /\ RequestOK(r, last)
      /\ p \in Playlists /\ Edits(q, p)
  <2>1. r.op \in {"add", "delete", "take", "put"} /\ Exists(p)
    BY DEF AddCommits, DeleteCommits, MoveDeletes, MoveAdds, CanInsert
  <2>2. RequestOK(r, last)
    BY DEF Inductive, RequestsOK
  <2> QED
    BY <2>1, <2>2, BoundsAssumption DEF RequestOK, Inductive, Tables, Playlists, Edits
<1>2. /\ IsFiniteSet(T)
      /\ upset[p] = {} => Fits(r, T)
  BY <1>1 DEF Inductive, Rows, RowOK, RequestsFit
<1>3. \A U, why : WriteTracks(p, U, why) => upset[p] \subseteq upset'[p] /\ why \subseteq upset'[p]
  BY <1>1 DEF WriteTracks, Inductive, Tables
<1>4. CASE AddCommits(q)
  <2> DEFINE U == add_recordings_to_playlist(T, r.known, r.items, r.at)
  <2>1. r.op = "add" /\ WriteTracks(p, U, Hole(r.at > r.known)) /\ req' = [req EXCEPT ![q] = Idle]
    BY <1>4 DEF AddCommits, Done
  <2>2. Sized(r.items) /\ r.known \in Nat /\ r.at \in -1..(r.known + 1)
    BY <1>1, <2>1 DEF RequestOK
  <2>3. IsFiniteSet(U)
    BY <1>2, <2>2, FiniteAdded
  <2>4. ASSUME upset'[p] = {}
        PROVE  \E n \in Nat : Lined(U, n)
    <3>0. upset[p] = {} /\ ~(r.at > r.known)
      BY <1>3, <2>1, <2>4, NoHole
    <3>1. r.at \in -1..r.known
      BY <2>2, <3>0
    <3>2. Lined(T, r.known)
      BY <1>2, <2>1, <3>0 DEF Fits
    <3>3. Lined(U, r.known + Len(r.items))
      BY <2>2, <3>1, <3>2, AddedLined DEF Sized
    <3> QED
      BY <2>2, <3>3 DEF Sized
  <2> HIDE DEF U, T, p, r
  <2>5. PICK why : why = Hole(r.at > r.known)
    OBVIOUS
  <2>6. WriteTracks(p, U, why) /\ Edits(q, p) /\ Exists(p) /\ p \in Playlists
    BY <1>1, <2>1, <2>5
  <2> QED
    BY <2>1, <2>3, <2>4, <2>6, IdleOK, WriteStep
<1>5. CASE DeleteCommits(q) \/ MoveDeletes(q)
  <2> DEFINE U == delete_recordings_from_playlist(T, r.known, r.from, r.count)
             left == r.known - (Smaller(r.from + r.count, r.known) - r.from)
  <2>1. r.op \in {"delete", "take"} /\ WriteTracks(p, U, {})
    BY <1>5 DEF DeleteCommits, MoveDeletes
  <2>2. IsFiniteSet(U)
    BY <1>2, FiniteDeleted
  <2>3. r.known \in Nat /\ r.from \in 0..(r.known - 1) /\ r.count \in 1..2
    BY <1>1, <2>1 DEF RequestOK
  <2>4. ASSUME upset'[p] = {}
        PROVE  Lined(U, left) /\ left \in Nat
    <3>1. upset[p] = {}
      BY <1>3, <2>1, <2>4
    <3>2. Lined(T, r.known)
      BY <1>2, <2>1, <3>1 DEF Fits
    <3>3. Lined(U, left)
      BY <2>3, <3>2, DeletedLined
    <3> QED
      BY <2>3, <3>3 DEF Smaller
  <2> HIDE DEF U
  <2>5. CASE DeleteCommits(q)
    <3>1. req' = [req EXCEPT ![q] = Idle]
      BY <2>5 DEF DeleteCommits, Done
    <3> QED
      BY <1>1, <2>1, <2>2, <2>4, <3>1, IdleOK, WriteStep
  <2>6. CASE MoveDeletes(q)
    <3> DEFINE put == [op |-> "put", pl |-> p, known |-> r.known, to |-> r.to, items |-> r.items]
    <3>1. r.op = "take" /\ req' = [req EXCEPT ![q] = put]
      BY <2>6 DEF MoveDeletes
    <3>2. /\ RequestOK(put, last) /\ put.op # "idle" /\ put.pl = p
          /\ put.known - Len(put.items) = left
      BY <1>1, <2>3, <3>1 DEF RequestOK, Operations, Smaller, Sized
    <3>3. ASSUME upset'[p] = {}
          PROVE  (\E n \in Nat : Lined(U, n)) /\ Fits(put, U)
      BY <2>4, <3>2, <3>3 DEF Fits
    <3> HIDE DEF put
    <3> QED
      BY <1>1, <2>1, <2>2, <3>1, <3>2, <3>3, WriteStep
  <2> QED
    BY <1>5, <2>5, <2>6
<1>6. CASE MoveAdds(q)
  <2> DEFINE U == add_recordings_to_playlist(T, r.known, r.items, r.to)
             n == r.known - Len(r.items)
  <2>1. r.op = "put" /\ WriteTracks(p, U, Hole(r.to + Len(r.items) > r.known)) /\ req' = [req EXCEPT ![q] = Idle]
    BY <1>6 DEF MoveAdds, Done
  <2>2. Sized(r.items) /\ r.known \in Nat /\ r.to \in 0..r.known /\ Len(r.items) <= r.known
    BY <1>1, <2>1 DEF RequestOK
  <2>3. IsFiniteSet(U)
    BY <1>2, <2>2, FiniteAdded
  <2>4. ASSUME upset'[p] = {}
        PROVE  \E m \in Nat : Lined(U, m)
    <3>0. upset[p] = {} /\ ~(r.to + Len(r.items) > r.known)
      BY <1>3, <2>1, <2>4, NoHole
    <3>1. r.to \in 0..n /\ n \in Nat /\ n <= r.known
      BY <2>2, <3>0 DEF Sized
    <3>2. Lined(T, n)
      BY <1>2, <2>1, <3>0 DEF Fits
    <3>3. Lined(U, n + Len(r.items))
      BY <2>2, <3>1, <3>2, PutLined DEF Sized
    <3> QED
      BY <2>2, <3>1, <3>3 DEF Sized
  <2> HIDE DEF U, T, p, r
  <2>5. PICK why : why = Hole(r.to + Len(r.items) > r.known)
    OBVIOUS
  <2>6. WriteTracks(p, U, why) /\ Edits(q, p) /\ Exists(p) /\ p \in Playlists
    BY <1>1, <2>1, <2>5
  <2> QED
    BY <2>1, <2>3, <2>4, <2>6, IdleOK, WriteStep
<1> QED
  BY <1>4, <1>5, <1>6

LEMMA RowChanged ==
  ASSUME NEW row, IsRow(row), NEW public, NEW collab
  PROVE  LET new == [row EXCEPT !.public = public, !.collab = collab]
         IN  IsRow(new) /\ new.tracks = row.tracks
  BY DEF IsRow, Columns

\* A playlist is created.
LEMMA Created ==
  ASSUME Inductive, NEW creator, NEW madeFor, NEW public, NEW items, Sized(items), NEW old,
         Create(NewPlaylist(creator, madeFor, public, items), old), UNCHANGED upset,
         \A q \in Requests : req'[q] = req[q] \/ (req'[q].op \in {"idle", "create"} /\ req'[q].pl = 0),
         req' = [q \in Requests |-> req'[q]]
  PROVE  Inductive'
<1> DEFINE row == NewPlaylist(creator, madeFor, public, items)
<1>1. IsRow(row) /\ row.tracks = insert_recordings({}, items, 0)
  BY DEF NewPlaylist, IsRow, Columns
<1>2. Lined(insert_recordings({}, items, 0), Len(items)) /\ Len(items) \in Nat
  <2>1. /\ Len(items) \in Nat /\ DOMAIN items = 1..Len(items) /\ 0 + Len(items) = Len(items)
        /\ (0..(0 - 1)) \cup ((0 + Len(items))..(0 + Len(items) - 1)) = {}
    BY DEF Sized
  <2>2. Lined(insert_recordings({}, items, 0), 0 + Len(items))
    <3>1. PICK T, n, at : T = {} /\ n = 0 /\ at = 0
      OBVIOUS
    <3>2. /\ n \in Nat /\ at \in 0..n /\ Len(items) \in Nat /\ DOMAIN items = 1..Len(items)
          /\ \A t \in T : t.pos \in (0..(at - 1)) \cup ((at + Len(items))..(n + Len(items) - 1))
          /\ \A i \in (0..(at - 1)) \cup ((at + Len(items))..(n + Len(items) - 1)) : \E t \in T : t.pos = i
          /\ \A s, t \in T : s.pos = t.pos => s = t
      BY <2>1, <3>1
    <3>3. Lined(insert_recordings(T, items, at), n + Len(items))
      BY <3>2, FilledGap
    <3> QED
      BY <3>1, <3>3
  <2> QED
    BY <2>1, <2>2
<1>3. /\ last < MaxPlaylists /\ last' = last + 1
      /\ playlist' = [p \in Playlists |-> IF p = last + 1 THEN row ELSE IF p \in old THEN Absent ELSE playlist[p]]
  BY DEF Create
<1> HIDE DEF row
<1>4. Tables'
  BY <1>3, BoundsAssumption DEF Inductive, Tables, Playlists, Exists
<1>5. \A p \in Playlists : RowAsBefore(p)
  BY <1>1, <1>2, <1>3 DEF RowAsBefore, Inductive, Tables, Playlists, Rows, RowOK, Exists
<1>6. last' >= last /\ \A p \in Playlists : upset[p] \subseteq upset'[p]
  BY <1>3 DEF Inductive, Tables
<1> QED
  BY <1>4, <1>5, <1>6, Frame

\* The other actions of a handler.
LEMMA HandlerStep ==
  ASSUME Inductive, NEW q \in Requests,
         \/ EditCommits(q) \/ CreateCommits(q) \/ Fails(q)
         \/ \E u \in Users : RemoveOldPlaylists(q, u)
  PROVE  Inductive'
<1>1. CASE EditCommits(q)
  <2> DEFINE r == req[q]
             row == playlist[r.pl]
             new == [row EXCEPT !.public = r.public, !.collab = r.collab]
  <2>1. r.pl \in Playlists /\ Exists(r.pl)
    BY <1>1, BoundsAssumption DEF EditCommits, Inductive, Tables, RequestsOK, RequestOK, Playlists
  <2>2. playlist' = [playlist EXCEPT ![r.pl] = new]
    BY <1>1, <2>1 DEF EditCommits, Inductive, Tables
  <2>3. IsRow(new) /\ new.tracks = row.tracks
    <3>1. IsRow(row)
      BY <2>1 DEF Inductive, Rows, RowOK
    <3> HIDE DEF row, r
    <3> QED
      BY <3>1, RowChanged
  <2> HIDE DEF new
  <2>4. \A p \in Playlists : RowAsBefore(p)
    BY <2>1, <2>2, <2>3 DEF RowAsBefore, Inductive, Tables, Rows, RowOK, Exists
  <2>5. UNCHANGED <<last, upset>> /\ req' = [req EXCEPT ![q] = Idle]
    BY <1>1 DEF EditCommits, Done
  <2>6. Tables'
    BY <2>1, <2>2, <2>5 DEF Inductive, Tables, Exists
  <2>7. \A o \in Requests : req'[o] = req[o] \/ (req'[o].op \in {"idle", "create"} /\ req'[o].pl = 0)
    BY <2>5 DEF Inductive, Tables, Idle
  <2>8. last' >= last /\ \A p \in Playlists : upset[p] \subseteq upset'[p]
    BY <2>5 DEF Inductive, Tables
  <2> QED
    BY <2>4, <2>6, <2>7, <2>8, Frame
<1>2. CASE CreateCommits(q)
  <2>1. PICK s \in Payloads : Create(NewPlaylist(Bot, req[q].madeFor, TRUE, AddedBy(Bot, s)), req[q].old)
    BY <1>2 DEF CreateCommits
  <2>2. Sized(AddedBy(Bot, s))
    BY AddedBySized
  <2>3. UNCHANGED upset /\ req' = [req EXCEPT ![q] = Idle]
    BY <1>2 DEF CreateCommits, Done
  <2>4. /\ \A o \in Requests : req'[o] = req[o] \/ (req'[o].op \in {"idle", "create"} /\ req'[o].pl = 0)
        /\ req' = [o \in Requests |-> req'[o]]
    BY <2>3 DEF Inductive, Tables, Idle
  <2> QED
    BY <2>1, <2>2, <2>3, <2>4, Created
<1>3. CASE Fails(q) \/ \E u \in Users : RemoveOldPlaylists(q, u)
  <2>1. UNCHANGED <<playlist, last, upset>>
    BY <1>3 DEF Fails, RemoveOldPlaylists
  <2>2. PICK r : req' = [req EXCEPT ![q] = r] /\ r.op \in {"idle", "create"} /\ r.pl = 0
    BY <1>3 DEF Fails, RemoveOldPlaylists, Done, Idle
  <2>3. Tables'
    BY <2>1, <2>2 DEF Inductive, Tables, Exists
  <2>4. \A o \in Requests : req'[o] = req[o] \/ (req'[o].op \in {"idle", "create"} /\ req'[o].pl = 0)
    BY <2>2 DEF Inductive, Tables
  <2>5. last' >= last /\ \A p \in Playlists : upset[p] \subseteq upset'[p]
    BY <2>1 DEF Inductive, Tables
  <2>6. \A p \in Playlists : RowAsBefore(p)
    BY <2>1 DEF RowAsBefore, Inductive, Rows, RowOK, Exists
  <2> QED
    BY <2>3, <2>4, <2>5, <2>6, Frame
<1> QED
  BY <1>1, <1>2, <1>3

\* Creations, copies, deletions and the end of an account.
LEMMA OwnerStep ==
  ASSUME Inductive, NEW u \in Users,
         \/ create_playlist(u) \/ EraseUser(u)
         \/ \E p \in Playlists : copy_playlist(u, p) \/ delete_playlist(u, p)
  PROVE  Inductive'
<1>1. CASE create_playlist(u)
  <2>1. PICK public \in BOOLEAN, s \in Payloads : Create(NewPlaylist(u, u, public, AddedBy(u, s)), {})
    BY <1>1 DEF create_playlist
  <2>2. Sized(AddedBy(u, s))
    BY AddedBySized
  <2>3. UNCHANGED <<upset, req>>
    BY <1>1 DEF create_playlist
  <2>4. req' = [q \in Requests |-> req'[q]]
    BY <2>3 DEF Inductive, Tables
  <2> QED
    BY <2>1, <2>2, <2>3, <2>4, Created
<1>2. ASSUME NEW p \in Playlists, copy_playlist(u, p)
      PROVE  Inductive'
  <2> DEFINE items == get_recordings_for_playlists(playlist[p].tracks)
  <2>1. /\ Exists(p) /\ UNCHANGED <<upset, req>>
        /\ Create(NewPlaylist(u, u, playlist[p].public, items), {})
    BY <1>2 DEF copy_playlist
  <2>2. Sized(items)
    BY <2>1, ListSized DEF Inductive, Rows, RowOK
  <2>3. req' = [q \in Requests |-> req'[q]]
    BY <2>1 DEF Inductive, Tables
  <2> HIDE DEF items
  <2> QED
    BY <2>1, <2>2, <2>3, Created
<1>3. ASSUME NEW p \in Playlists, delete_playlist(u, p)
      PROVE  Inductive'
  <2>1. playlist' = [playlist EXCEPT ![p] = Absent] /\ UNCHANGED <<last, upset, req>>
    BY <1>3 DEF delete_playlist
  <2>2. Tables'
    BY <2>1 DEF Inductive, Tables, Exists
  <2>3. \A k \in Playlists : RowAsBefore(k)
    BY <2>1 DEF RowAsBefore, Inductive, Tables, Rows, RowOK, Exists
  <2>4. last' >= last /\ \A k \in Playlists : upset[k] \subseteq upset'[k]
    BY <2>1 DEF Inductive, Tables
  <2> QED
    BY <2>1, <2>2, <2>3, <2>4, Frame
<1>4. CASE EraseUser(u)
  <2> DEFINE kept(p) == {t \in playlist[p].tracks : t.by # u}
             stays(p) == Exists(p) /\ u \notin {playlist[p].creator, playlist[p].madeFor}
             new(p) == [playlist[p] EXCEPT !.collab = @ \ {u}, !.tracks = kept(p)]
             why(p) == IF ~Exists(p) \/ kept(p) = playlist[p].tracks THEN {}
                       ELSE {"hole"} \cup (IF Editing(p) = {} THEN {} ELSE {"overlap"})
  <2>1. /\ playlist' = [p \in Playlists |-> IF stays(p) THEN new(p) ELSE Absent]
        /\ upset' = [p \in Playlists |-> upset[p] \cup why(p)]
        /\ UNCHANGED <<last, req>>
    BY <1>4 DEF EraseUser
  <2>2. Tables'
    BY <2>1 DEF Inductive, Tables, Exists
  <2>3. last' >= last /\ \A p \in Playlists : upset[p] \subseteq upset'[p]
    <3> HIDE DEF why, new, stays
    <3>1. last' >= last
      BY <2>1 DEF Inductive, Tables
    <3> QED
      BY <2>1, <3>1
  <2>4. ASSUME NEW p \in Playlists, stays(p)
        PROVE  RowAsBefore(p)
    <3>1. IsRow(playlist[p]) /\ IsFiniteSet(playlist[p].tracks)
      BY <2>4 DEF Inductive, Rows, RowOK
    <3>2. IsRow(new(p)) /\ new(p).tracks = kept(p)
      <4>1. PICK tracks, row : tracks = kept(p) /\ row = playlist[p]
        OBVIOUS
      <4>2. IsRow([row EXCEPT !.collab = @ \ {u}, !.tracks = tracks])
            /\ [row EXCEPT !.collab = @ \ {u}, !.tracks = tracks].tracks = tracks
        BY <3>1, <4>1 DEF IsRow, Columns
      <4> QED
        BY <4>1, <4>2
    <3>3. IsFiniteSet(kept(p))
      BY <3>1, FS_Subset
    <3>4. kept(p) = playlist[p].tracks \/ upset'[p] # {}
      BY <2>1, <2>4
    <3>5. playlist'[p] = new(p)
      BY <2>1, <2>4
    <3> HIDE DEF new, kept
    <3> QED
      BY <2>4, <3>2, <3>3, <3>4, <3>5 DEF RowAsBefore
  <2>5. ASSUME NEW p \in Playlists, ~stays(p)
        PROVE  RowAsBefore(p)
    BY <2>1, <2>5 DEF RowAsBefore
  <2> QED
    BY <2>1, <2>2, <2>3, <2>4, <2>5, Frame
<1> QED
  BY <1>1, <1>2, <1>3, <1>4

LEMMA InductiveInit == Init => Inductive
<1> SUFFICES ASSUME Init PROVE Inductive
  OBVIOUS
<1>1. Tables /\ Rows
  BY BoundsAssumption DEF Init, Tables, Rows, Exists
<1>2. RequestsOK /\ RequestsFit /\ Alone
  BY IdleOK DEF Init, RequestsOK, RequestsFit, Alone, Edits, RequestOK
<1> QED
  BY <1>1, <1>2 DEF Inductive

LEMMA InductiveStep == Inductive /\ [Next]_vars => Inductive'
<1> SUFFICES ASSUME Inductive, [Next]_vars PROVE Inductive'
  OBVIOUS
<1>1. ASSUME NEW q \in Requests, Edit(q) PROVE Inductive'
  BY <1>1, EditStep, HandlerStep DEF Edit
<1>2. ASSUME NEW q \in Requests, Commit(q) \/ Fails(q) PROVE Inductive'
  BY <1>2, CommitStep, HandlerStep DEF Commit
<1>3. ASSUME NEW u \in Users, create_playlist(u) \/ EraseUser(u) PROVE Inductive'
  BY <1>3, OwnerStep
<1>4. ASSUME NEW u \in Users, NEW p \in Playlists, copy_playlist(u, p) \/ delete_playlist(u, p) PROVE Inductive'
  BY <1>4, OwnerStep
<1>5. CASE UNCHANGED vars
  <2>1. \A p \in Playlists : RowAsBefore(p)
    BY <1>5 DEF RowAsBefore, vars, Inductive, Rows, RowOK, Exists
  <2>2. Tables'
    BY <1>5 DEF vars, Inductive, Tables, Exists
  <2> QED
    BY <1>5, <2>1, <2>2, Frame DEF vars, Inductive, Tables
<1> QED
  BY <1>1, <1>2, <1>3, <1>4, <1>5 DEF Next

-----------------------------------------------------------------------------
(* Theorems. *)

\* The positions of a playlist that no two requests have edited at once and nothing has left a hole in
\* are 0, 1, 2 and so on: the arithmetic of db/playlist.py, whose callers hand it what they read in an
\* earlier transaction, is right for lists of any length, also between the two halves of a move.
THEOREM PositionsContiguousCorrect == Spec => []PositionsContiguous
<1>1. Inductive => PositionsContiguous
  BY LinedContiguous DEF Inductive, Rows, RowOK, PositionsContiguous
<1> QED
  BY <1>1, InductiveInit, InductiveStep, PTL DEF Spec

-----------------------------------------------------------------------------
(* Types.  The users that rows name are there, and ids tell recordings of  *)
(* a playlist apart even where positions do not.                           *)

TracksOf(U) == [id : Nat, mbid : Mbids, by : U, pos : Nat]

TableOK(T, U) ==
    /\ T \in SUBSET TracksOf(U) /\ IsFiniteSet(T)
    /\ \A s, t \in T : s.id = t.id => s = t

\* A finite set of numbers has a greatest.
LEMMA Greatest ==
  ASSUME NEW S \in SUBSET Nat, IsFiniteSet(S), S # {}
  PROVE  \E m \in S : \A x \in S : x <= m
<1> DEFINE Above(x) == {y \in S : y > x}
           Sizes == {Cardinality(Above(x)) : x \in S}
<1>1. \A x \in S : IsFiniteSet(Above(x)) /\ Cardinality(Above(x)) \in Nat
  BY FS_Subset, FS_CardinalityType
<1>2. PICK m \in S : \A x \in S : ~ (Cardinality(Above(x)) < Cardinality(Above(m)))
  <2>1. Sizes \in SUBSET Nat /\ Sizes # {}
    BY <1>1
  <2> HIDE DEF Sizes
  <2>2. PICK k \in Sizes : \A l \in Sizes : ~ (<<l, k>> \in OpToRel(<, Nat))
    BY <2>1, NatLessThanWellFounded, WFMin
  <2>3. \A l \in Sizes : ~ (l < k)
    BY <2>1, <2>2 DEF OpToRel
  <2> QED
    BY <2>3 DEF Sizes
<1>3. ASSUME NEW x \in S, x > m PROVE FALSE
  <2>0. m \in Nat /\ x \in Nat /\ \A y \in S : y \in Nat
    OBVIOUS
  <2>1. Above(x) \subseteq Above(m) /\ x \in Above(m) /\ x \notin Above(x)
    <3>1. ASSUME NEW y \in S, y > x PROVE y > m
      <4>1. y \in Nat
        BY <2>0
      <4> QED
        BY <1>3, <2>0, <3>1, <4>1
    <3>2. ~ (x > x)
      BY <2>0
    <3> QED
      BY <1>3, <3>1, <3>2
  <2> HIDE DEF Above
  <2>2. Cardinality(Above(x)) # Cardinality(Above(m)) /\ Cardinality(Above(x)) <= Cardinality(Above(m))
    BY <1>1, <2>1, FS_Subset
  <2> QED
    BY <1>1, <1>2, <2>2
<1> QED
  BY <1>3

LEMMA FirstIdNew ==
  ASSUME NEW T, NEW U, TableOK(T, U)
  PROVE  FirstId(T) \in Nat /\ \A t \in T : t.id < FirstId(T)
<1> DEFINE ids == {t.id : t \in T} \cup {0}
<1>1. ids \in SUBSET Nat /\ ids # {}
  BY DEF TableOK, TracksOf
<1>2. IsFiniteSet(ids)
  <2> DEFINE f == [t \in T |-> t.id]
  <2>1. f \in Surjection(T, {t.id : t \in T})
    BY DEF Surjection
  <2>2. IsFiniteSet({t.id : t \in T})
    BY <2>1, FS_Surjection DEF TableOK
  <2> QED
    BY <2>2, FS_EmptySet, FS_AddElement
<1> HIDE DEF ids
<1>3. \E i \in ids : \A j \in ids : j <= i
  BY <1>1, <1>2, Greatest
<1>4. FirstId(T) = 1 + CHOOSE i \in ids : \A j \in ids : j <= i
  BY DEF FirstId, ids
<1>5. PICK i \in ids : FirstId(T) = 1 + i /\ \A j \in ids : j <= i
  BY <1>3, <1>4
<1>6. \A t \in T : t.id \in ids
  BY DEF ids
<1>7. i \in Nat /\ \A j \in ids : j \in Nat
  BY <1>1
<1>8. ASSUME NEW t \in T PROVE t.id < FirstId(T)
  <2>1. t.id \in Nat /\ t.id <= i
    BY <1>5, <1>6, <1>7
  <2> QED
    BY <1>5, <1>7, <2>1
<1> QED
  BY <1>5, <1>7, <1>8

LEMMA ReorderedOK ==
  ASSUME NEW U, NEW T, TableOK(T, U), NEW from \in Nat, NEW by \in Int, from + by >= 0
  PROVE  TableOK(Reordered(T, from, by), U)
<1> DEFINE Shifted(t) == [id |-> t.id, mbid |-> t.mbid, by |-> t.by, pos |-> t.pos + by]
           Moved(t) == IF t.pos >= from THEN Shifted(t) ELSE t
<1>1. Reordered(T, from, by) = {Moved(t) : t \in T}
  BY DEF Reordered
<1>2. ASSUME NEW t \in T
      PROVE  Moved(t) \in TracksOf(U) /\ Moved(t).id = t.id
  <2>1. t \in TracksOf(U)
    BY DEF TableOK
  <2>2. t.id \in Nat /\ t.mbid \in Mbids /\ t.by \in U /\ t.pos \in Nat
    BY <2>1 DEF TracksOf
  <2>3. t.pos >= from => t.pos + by \in Nat
    BY <2>2
  <2> QED
    BY <2>1, <2>2, <2>3 DEF TracksOf
<1> HIDE DEF Moved
<1>3. IsFiniteSet(Reordered(T, from, by))
  BY FiniteReordered DEF TableOK
<1> QED
  BY <1>1, <1>2, <1>3 DEF TableOK

LEMMA InsertedOK ==
  ASSUME NEW U, NEW T, TableOK(T, U), NEW at \in Nat, NEW items \in Seq([mbid : Mbids, by : U])
  PROVE  TableOK(insert_recordings(T, items, at), U)
<1> DEFINE Placed(k) == [id |-> FirstId(T) + k - 1, mbid |-> items[k].mbid, by |-> items[k].by, pos |-> at + k - 1]
<1>1. Len(items) \in Nat /\ DOMAIN items = 1..Len(items) /\ Sized(items)
  BY LenProperties DEF Sized
<1>2. insert_recordings(T, items, at) = T \cup {Placed(k) : k \in 1..Len(items)}
  BY <1>1 DEF insert_recordings
<1>3. FirstId(T) \in Nat /\ \A t \in T : t.id < FirstId(T)
  BY FirstIdNew
<1>4. ASSUME NEW k \in 1..Len(items)
      PROVE  /\ Placed(k) \in TracksOf(U) /\ Placed(k).id = FirstId(T) + k - 1
             /\ FirstId(T) + k - 1 >= FirstId(T) /\ k \in Nat
  <2>1. items[k] \in [mbid : Mbids, by : U]
    BY ElementOfSeq
  <2>2. items[k].mbid \in Mbids /\ items[k].by \in U
    BY <2>1
  <2>3. FirstId(T) + k - 1 \in Nat /\ at + k - 1 \in Nat
    BY <1>1, <1>3
  <2> QED
    BY <1>1, <1>3, <2>2, <2>3 DEF TracksOf
<1> HIDE DEF Placed
<1>5. IsFiniteSet(insert_recordings(T, items, at))
  BY <1>1, FiniteInserted DEF TableOK
<1>6. \A t \in T : t.id \in Nat /\ t.id < FirstId(T)
  BY <1>3 DEF TableOK, TracksOf
<1>7. ASSUME NEW k \in 1..Len(items), NEW l \in 1..Len(items), Placed(k).id = Placed(l).id
      PROVE  k = l
  BY <1>3, <1>4, <1>7
<1>8. ASSUME NEW t \in T, NEW k \in 1..Len(items)
      PROVE  t.id # Placed(k).id
  BY <1>3, <1>4, <1>6
<1>9. \A s, t \in insert_recordings(T, items, at) : s.id = t.id => s = t
  BY <1>2, <1>7, <1>8 DEF TableOK
<1> QED
  BY <1>2, <1>4, <1>5, <1>9 DEF TableOK

LEMMA AddedOK ==
  ASSUME NEW U, NEW T, TableOK(T, U), NEW known \in Nat, NEW position \in Int,
         NEW items \in Seq([mbid : Mbids, by : U])
  PROVE  TableOK(add_recordings_to_playlist(T, known, items, position), U)
<1> DEFINE at == IF position < 0 THEN known ELSE position
           R == IF at < known THEN Reordered(T, at, Len(items)) ELSE T
<1>1. at \in Nat /\ Len(items) \in Nat
  BY LenProperties
<1>2. add_recordings_to_playlist(T, known, items, position) = insert_recordings(R, items, at)
  BY DEF add_recordings_to_playlist
<1> HIDE DEF at
<1>3. at + Len(items) >= 0 /\ Len(items) \in Int
  BY <1>1
<1>4. TableOK(R, U)
  BY <1>1, <1>3, ReorderedOK
<1> HIDE DEF R
<1> QED
  BY <1>1, <1>2, <1>4, InsertedOK

LEMMA FewerOK ==
  ASSUME NEW U, NEW T, TableOK(T, U), NEW S \in SUBSET T
  PROVE  TableOK(S, U)
<1>1. IsFiniteSet(S)
  BY FS_Subset DEF TableOK
<1> QED
  BY <1>1 DEF TableOK

LEMMA DeletedOK ==
  ASSUME NEW U, NEW T, TableOK(T, U), NEW known \in Nat, NEW from \in Nat, NEW count \in Nat
  PROVE  TableOK(delete_recordings_from_playlist(T, known, from, count), U)
<1> DEFINE kept == {t \in T : ~(from <= t.pos /\ t.pos < from + count)}
<1>1. TableOK(kept, U)
  BY FewerOK
<1>2. delete_recordings_from_playlist(T, known, from, count) =
        IF from + count < known THEN Reordered(kept, from + count, -count) ELSE kept
  BY DEF delete_recordings_from_playlist
<1> HIDE DEF kept
<1>3. from + count \in Nat /\ -count \in Int /\ (from + count) + (-count) >= 0
  OBVIOUS
<1>4. TableOK(Reordered(kept, from + count, -count), U)
  BY <1>1, <1>3, ReorderedOK
<1> QED
  BY <1>1, <1>2, <1>4

\* Every place in the list is taken by the recording that has so many before it.
LEMMA Ranked ==
  ASSUME NEW U, NEW T, TableOK(T, U), NEW k \in 1..Cardinality(T)
  PROVE  \E t \in T : Cardinality({s \in T : Before(s, t)}) = k - 1
<1> DEFINE n == Cardinality(T)
           Earlier(t) == {s \in T : Before(s, t)}
           rank == [t \in T |-> Cardinality(Earlier(t))]
<1>1. n \in Nat /\ IsFiniteSet(T)
  BY FS_CardinalityType DEF TableOK
<1>2. \A t \in T : t.pos \in Nat /\ t.id \in Nat
  BY DEF TableOK, TracksOf
<1>3. ASSUME NEW t \in T
      PROVE  IsFiniteSet(Earlier(t)) /\ Cardinality(Earlier(t)) \in Nat /\ Cardinality(Earlier(t)) < n
  <2>1. Earlier(t) \in SUBSET T /\ t \notin Earlier(t)
    BY <1>2 DEF Before
  <2> HIDE DEF Earlier
  <2>2. IsFiniteSet(Earlier(t)) /\ Cardinality(Earlier(t)) <= n /\ Cardinality(Earlier(t)) # n
    BY <1>1, <2>1, FS_Subset
  <2> QED
    BY <1>1, <2>2, FS_CardinalityType
<1>4. ASSUME NEW s \in T, NEW t \in T, Before(s, t)
      PROVE  Cardinality(Earlier(s)) # Cardinality(Earlier(t))
  <2>1. ASSUME NEW r \in T, Before(r, s) PROVE Before(r, t)
    BY <1>2, <1>4, <2>1 DEF Before
  <2>2. Earlier(s) \in SUBSET Earlier(t) /\ s \in Earlier(t) /\ s \notin Earlier(s)
    BY <1>2, <1>4, <2>1 DEF Before
  <2> HIDE DEF Earlier
  <2> QED
    BY <1>3, <2>2, FS_Subset
<1>5. ASSUME NEW s \in T, NEW t \in T, s # t
      PROVE  Before(s, t) \/ Before(t, s)
  <2>1. s.id # t.id
    BY <1>5 DEF TableOK
  <2> QED
    BY <1>2, <2>1 DEF Before
<1>6. \A t \in T : rank[t] = Cardinality(Earlier(t)) /\ rank[t] \in 0..(n - 1)
  <2> SUFFICES ASSUME NEW t \in T
               PROVE  rank[t] = Cardinality(Earlier(t)) /\ rank[t] \in 0..(n - 1)
    OBVIOUS
  <2>1. rank[t] = Cardinality(Earlier(t))
    OBVIOUS
  <2> HIDE DEF Earlier, n, rank
  <2> QED
    BY <1>1, <1>3, <2>1
<1>7. rank \in [T -> 0..(n - 1)]
  BY <1>6
<1> HIDE DEF rank, Earlier, n
<1>8. rank \in Injection(T, 0..(n - 1))
  BY <1>4, <1>5, <1>6, <1>7 DEF Injection, IsInjective
<1>9. IsFiniteSet(0..(n - 1)) /\ Cardinality(0..(n - 1)) = n
  BY <1>1, FS_Interval
<1>10. rank \in Surjection(T, 0..(n - 1))
  BY <1>1, <1>8, <1>9, FS_Injection DEF n
<1>11. k - 1 \in 0..(n - 1)
  BY <1>1 DEF n
<1>12. PICK t \in T : rank[t] = k - 1
  BY <1>10, <1>11 DEF Surjection
<1> QED
  BY <1>6, <1>12 DEF Earlier

LEMMA ListOK ==
  ASSUME NEW U, NEW T, TableOK(T, U)
  PROVE  get_recordings_for_playlists(T) \in Seq([mbid : Mbids, by : U])
<1> DEFINE At(k) == CHOOSE t \in T : Cardinality({s \in T : Before(s, t)}) = k - 1
<1>1. \A k \in 1..Cardinality(T) : At(k) \in T
  BY Ranked
<1>2. get_recordings_for_playlists(T) = [k \in 1..Cardinality(T) |-> [mbid |-> At(k).mbid, by |-> At(k).by]]
  BY DEF get_recordings_for_playlists
<1> HIDE DEF At
<1>3. \A k \in 1..Cardinality(T) : [mbid |-> At(k).mbid, by |-> At(k).by] \in [mbid : Mbids, by : U]
  BY <1>1 DEF TableOK, TracksOf
<1>4. Cardinality(T) \in Nat
  BY FS_CardinalityType DEF TableOK
<1> DEFINE list == get_recordings_for_playlists(T)
           R == [mbid : Mbids, by : U]
<1>5. list = [k \in 1..Cardinality(T) |-> list[k]] /\ \A k \in 1..Cardinality(T) : list[k] \in R
  BY <1>2, <1>3
<1> HIDE DEF list, R
<1>6. list \in Seq(R)
  BY <1>4, <1>5
<1> QED
  BY <1>6 DEF list, R

Request ==
    {Idle}
    \cup [op : {"create"}, pl : {0}, madeFor : Users, old : SUBSET Playlists]
    \cup [op : {"add"}, pl : Playlists, known : Nat, at : Int, items : Seq(Recording)]
    \cup [op : {"delete"}, pl : Playlists, known : Nat, from : Nat, count : 1..2]
    \cup [op : {"take"}, pl : Playlists, known : Nat, from : Nat, count : 1..2, to : Nat,
          items : Seq(Recording)]
    \cup [op : {"put"}, pl : Playlists, known : Nat, to : Nat, items : Seq(Recording)]
    \cup [op : {"edit"}, pl : Playlists, asks : {"yes", "no", "same"}, collab : SUBSET Users,
          public : BOOLEAN]

RowsOf(U) == [creator : U, madeFor : U, public : BOOLEAN, collab : SUBSET (U \cap Users),
              tracks : SUBSET TracksOf(U)]

RowFits(row, U) == row \in RowsOf(U) /\ TableOK(row.tracks, U)

\* The playlist, if there is one, is among those created and names users that are there.
PlaylistOK(p) == Exists(p) => p <= last /\ RowFits(playlist[p], live)

TypeInv ==
    /\ last \in 0..MaxPlaylists /\ live \subseteq Everyone /\ Bot \in live
    /\ playlist = [p \in Playlists |-> playlist[p]]
    /\ \A p \in Playlists : PlaylistOK(p)
    /\ req \in [Requests -> Request]
    /\ upset \in [Playlists -> SUBSET {"overlap", "hole"}]

\* A row is not taken for a missing one.
LEMMA RowIsThere ==
  ASSUME NEW U \in SUBSET Everyone, NEW row, RowFits(row, U)
  PROVE  row # Absent
<1>1. TracksOf(U) \subseteq TracksOf(Everyone)
  BY DEF TracksOf
<1>2. row \in PlaylistRow
  <2>1. /\ row \in RowsOf(U) /\ row.creator \in U /\ row.madeFor \in U /\ row.public \in BOOLEAN
        /\ row.collab \in SUBSET (U \cap Users) /\ row.tracks \in SUBSET TracksOf(U)
    BY DEF RowFits, RowsOf
  <2>2. /\ row.creator \in Everyone /\ row.madeFor \in Everyone /\ row.collab \in SUBSET Users
        /\ row.tracks \in SUBSET TracksOf(Everyone)
    BY <1>1, <2>1
  <2> HIDE DEF TracksOf
  <2>3. row = [creator |-> row.creator, madeFor |-> row.madeFor, public |-> row.public,
               collab |-> row.collab, tracks |-> row.tracks]
    BY <2>1 DEF RowsOf
  <2>4. row \in [creator : Everyone, madeFor : Everyone, public : BOOLEAN, collab : SUBSET Users,
                 tracks : SUBSET TracksOf(Everyone)]
    BY <2>1, <2>2, <2>3
  <2> QED
    BY <2>4 DEF PlaylistRow, TracksOf
<1> QED
  BY <1>2, AbsentAssumption

\* Users who stay keep what is theirs.
LEMMA TableGrows ==
  ASSUME NEW U, NEW V, U \subseteq V, NEW T, TableOK(T, U)
  PROVE  TableOK(T, V)
  BY DEF TableOK, TracksOf

LEMMA TypesInit == Init => TypeInv
<1> SUFFICES ASSUME Init PROVE TypeInv
  OBVIOUS
<1>1. req \in [Requests -> Request]
  BY DEF Init, Request
<1> QED
  BY <1>1, BoundsAssumption DEF Init, TypeInv, PlaylistOK, Exists, Everyone

\* Requests of a handler that others leave alone.
LEMMA RequestTaken ==
  ASSUME TypeInv, NEW q \in Requests, NEW r \in Request, req' = [req EXCEPT ![q] = r]
  PROVE  req' \in [Requests -> Request]
  BY DEF TypeInv

LEMMA BeginTypes ==
  ASSUME TypeInv, NEW q \in Requests, NEW p \in Playlists, NEW r \in Request, Begin(q, p, r)
  PROVE  TypeInv'
<1>1. /\ UNCHANGED <<playlist, last, live>> /\ req' = [req EXCEPT ![q] = r]
      /\ upset' = [upset EXCEPT ![p] = @ \cup (IF Editing(p) = {} THEN {} ELSE {"overlap"})]
  BY DEF Begin
<1>2. req' \in [Requests -> Request]
  BY <1>1, RequestTaken
<1>3. upset' \in [Playlists -> SUBSET {"overlap", "hole"}]
  BY <1>1 DEF TypeInv
<1> QED
  BY <1>1, <1>2, <1>3 DEF TypeInv, PlaylistOK, Exists

\* The step changes no playlist but p, and not whose it is.
Written(p) ==
    /\ playlist'[p] # Absent /\ playlist'[p].creator = playlist[p].creator /\ playlist'[p].madeFor = playlist[p].madeFor
    /\ \A o \in Playlists \ {p} : playlist'[o] = playlist[o]

LEMMA WriteTypes ==
  ASSUME TypeInv, NEW p \in Playlists, Exists(p), NEW T, TableOK(T, live),
         NEW why \in SUBSET {"overlap", "hole"}, WriteTracks(p, T, why),
         NEW q \in Requests, NEW r \in Request, req' = [req EXCEPT ![q] = r]
  PROVE  TypeInv' /\ Written(p)
<1>1. /\ UNCHANGED <<last, live>> /\ playlist' = [playlist EXCEPT ![p].tracks = T]
      /\ upset' = [upset EXCEPT ![p] = @ \cup why]
  BY DEF WriteTracks
<1>2. req' \in [Requests -> Request]
  BY RequestTaken
<1>3. upset' \in [Playlists -> SUBSET {"overlap", "hole"}]
  BY <1>1 DEF TypeInv
<1>4. p <= last /\ RowFits(playlist[p], live)
  BY DEF TypeInv, PlaylistOK
<1>5. playlist'[p] = [playlist[p] EXCEPT !.tracks = T] /\ \A o \in Playlists \ {p} : playlist'[o] = playlist[o]
  BY <1>1 DEF TypeInv
<1>6. /\ playlist'[p] \in RowsOf(live) /\ playlist'[p].tracks = T
      /\ playlist'[p].creator = playlist[p].creator /\ playlist'[p].madeFor = playlist[p].madeFor
  BY <1>4, <1>5 DEF RowFits, RowsOf, TableOK
<1>7. \A o \in Playlists : PlaylistOK(o)'
  BY <1>1, <1>4, <1>5, <1>6 DEF TypeInv, PlaylistOK, Exists, RowFits
<1>8. playlist' = [o \in Playlists |-> playlist'[o]]
  BY <1>1 DEF TypeInv
<1>9. playlist'[p] # Absent
  BY <1>6, RowIsThere DEF TypeInv, RowFits, Exists
<1> QED
  BY <1>1, <1>2, <1>3, <1>5, <1>6, <1>7, <1>8, <1>9 DEF TypeInv, Written

\* What a client sends and what a move takes are lists of recordings.
LEMMA SentTypes ==
  ASSUME NEW U \in SUBSET Everyone, NEW u \in U, NEW s \in Payloads
  PROVE  AddedBy(u, s) \in Seq([mbid : Mbids, by : U]) /\ AddedBy(u, s) \in Seq(Recording)
<1> DEFINE list == AddedBy(u, s)
           R == [mbid : Mbids, by : U]
<1>1. s \in Seq(Mbids) /\ Len(s) \in Nat /\ DOMAIN s = 1..Len(s)
  BY PayloadsAssumption, LenProperties
<1>2. list = [k \in 1..Len(s) |-> [mbid |-> s[k], by |-> u]] /\ \A k \in 1..Len(s) : s[k] \in Mbids
  BY <1>1, ElementOfSeq DEF AddedBy
<1>3. \A k \in 1..Len(s) : list[k] \in R /\ list[k] \in Recording
  BY <1>2 DEF Recording
<1>4. list = [k \in 1..Len(s) |-> list[k]]
  BY <1>2
<1> HIDE DEF list, R
<1>5. list \in Seq(R) /\ list \in Seq(Recording)
  BY <1>1, <1>3, <1>4
<1> QED
  BY <1>5 DEF list, R

LEMMA ReadTypes ==
  ASSUME TypeInv, NEW p \in Playlists, Exists(p)
  PROVE  /\ Known(p) \in Nat /\ p \in 1..last /\ TableOK(playlist[p].tracks, live)
         /\ get_recordings_for_playlists(playlist[p].tracks) \in Seq([mbid : Mbids, by : live])
         /\ get_recordings_for_playlists(playlist[p].tracks) \in Seq(Recording)
<1>1. TableOK(playlist[p].tracks, live) /\ p <= last /\ live \subseteq Everyone
  BY DEF TypeInv, PlaylistOK, RowFits
<1>2. Known(p) \in Nat
  BY <1>1, FS_CardinalityType DEF TableOK, Known
<1>3. p \in 1..last
  BY <1>1, BoundsAssumption DEF Playlists, TypeInv
<1>4. TableOK(playlist[p].tracks, Everyone)
  BY <1>1, TableGrows
<1> QED
  BY <1>1, <1>2, <1>3, <1>4, ListOK DEF Recording

LEMMA EditTypes ==
  ASSUME TypeInv, NEW q \in Requests, NEW u \in live, NEW p \in Playlists,
         \/ add_playlist_item(q, u, p) \/ delete_playlist_item(q, u, p)
         \/ move_playlist_item(q, u, p) \/ edit_playlist(q, u, p)
  PROVE  TypeInv'
<1>1. Exists(p)
  BY DEF add_playlist_item, delete_playlist_item, move_playlist_item, edit_playlist
<1> DEFINE list == get_recordings_for_playlists(playlist[p].tracks)
<1>2. Known(p) \in Nat /\ list \in Seq(Recording) /\ u \in Everyone
  BY <1>1, ReadTypes DEF TypeInv
<1> HIDE DEF list
<1>3. CASE add_playlist_item(q, u, p)
  <2>1. PICK at \in -1..(Known(p) + 1), s \in Payloads :
           Begin(q, p, [op |-> "add", pl |-> p, known |-> Known(p), at |-> at, items |-> AddedBy(u, s)])
    BY <1>3 DEF add_playlist_item
  <2>2. AddedBy(u, s) \in Seq(Recording)
    BY SentTypes DEF TypeInv
  <2>4. at \in Int
    BY <1>2
  <2>3. [op |-> "add", pl |-> p, known |-> Known(p), at |-> at, items |-> AddedBy(u, s)] \in Request
    BY <1>2, <2>2, <2>4 DEF Request
  <2> QED
    BY <2>1, <2>3, BeginTypes
<1>4. CASE delete_playlist_item(q, u, p)
  <2>1. PICK index \in 0..(Known(p) - 1), count \in 1..2 :
           Begin(q, p, [op |-> "delete", pl |-> p, known |-> Known(p), from |-> index, count |-> count])
    BY <1>4 DEF delete_playlist_item
  <2>2. index \in Nat
    BY <1>2
  <2>3. [op |-> "delete", pl |-> p, known |-> Known(p), from |-> index, count |-> count] \in Request
    BY <1>2, <2>2 DEF Request
  <2> QED
    BY <2>1, <2>3, BeginTypes
<1>5. CASE move_playlist_item(q, u, p)
  <2> DEFINE part(from, count) == SubSeq(list, from + 1, IF from + count < Known(p) THEN from + count ELSE Known(p))
             r(from, count, to) == [op |-> "take", pl |-> p, known |-> Known(p), from |-> from, count |-> count,
                                    to |-> to, items |-> part(from, count)]
  <2>1. PICK from \in 0..(Known(p) - 1), count \in 1..2, to \in 0..Known(p) : Begin(q, p, r(from, count, to))
    BY <1>5 DEF move_playlist_item, list
  <2>2. from \in Nat /\ to \in Nat
    BY <1>2
  <2>3. part(from, count) \in Seq(Recording)
    <3>1. Len(list) = Known(p)
      BY <1>2, LenProperties DEF list, get_recordings_for_playlists, Known
    <3> DEFINE end == IF from + count < Known(p) THEN from + count ELSE Known(p)
    <3>2. end \in Nat /\ end <= Len(list) /\ from + 1 \in Nat \ {0}
      BY <1>2, <3>1
    <3> HIDE DEF end
    <3>3. \A i \in (from + 1)..end : list[i] \in Recording
      BY <1>2, <3>2, ElementOfSeq, LenProperties
    <3>4. SubSeq(list, from + 1, end) \in Seq(Recording)
      BY <3>2, <3>3, SubSeqProperties
    <3> QED
      BY <3>4 DEF end
  <2> HIDE DEF part
  <2>4. r(from, count, to) \in Request
    BY <1>2, <2>2, <2>3 DEF Request
  <2> QED
    BY <2>1, <2>4, BeginTypes
<1>6. CASE edit_playlist(q, u, p)
  <2>1. PICK asks \in {"yes", "no", "same"}, c \in SUBSET ((Users \cap live) \ {u}) :
           Begin(q, p, [op |-> "edit", pl |-> p, asks |-> asks, collab |-> c,
                        public |-> asks = "yes" \/ (asks = "same" /\ playlist[p].public)])
    BY <1>6 DEF edit_playlist
  <2>2. (asks = "yes" \/ (asks = "same" /\ playlist[p].public)) \in BOOLEAN /\ c \in SUBSET Users
    OBVIOUS
  <2>3. [op |-> "edit", pl |-> p, asks |-> asks, collab |-> c,
         public |-> asks = "yes" \/ (asks = "same" /\ playlist[p].public)] \in Request
    BY <1>2, <2>2 DEF Request
  <2> QED
    BY <2>1, <2>3, BeginTypes
<1> QED
  BY <1>3, <1>4, <1>5, <1>6

\* What is to be inserted names users that are there, or the insertion fails.
LEMMA InsertableTypes ==
  ASSUME NEW r, r.items \in Seq(Recording), CanInsert(r)
  PROVE  r.items \in Seq([mbid : Mbids, by : live])
<1> DEFINE list == r.items
           R == [mbid : Mbids, by : live]
<1>1. Len(list) \in Nat /\ DOMAIN list = 1..Len(list) /\ list = [k \in 1..Len(list) |-> list[k]]
  BY LenProperties
<1>2. ASSUME NEW k \in 1..Len(list) PROVE list[k] \in R
  <2>1. list[k] \in Recording
    BY ElementOfSeq
  <2>2. list[k].by \in live
    BY <1>1 DEF CanInsert
  <2> QED
    BY <2>1, <2>2 DEF Recording
<1> HIDE DEF list, R
<1>3. list \in Seq(R)
  BY <1>1, <1>2
<1> QED
  BY <1>3 DEF list, R

LEMMA CommitTypes ==
  ASSUME TypeInv, NEW q \in Requests,
         AddCommits(q) \/ DeleteCommits(q) \/ MoveDeletes(q) \/ MoveAdds(q)
  PROVE  TypeInv' /\ Written(req[q].pl)
<1> DEFINE r == req[q]
           T == playlist[r.pl].tracks
<1>1. r \in Request /\ r.op \in {"add", "delete", "take", "put"} /\ Exists(r.pl)
  BY DEF AddCommits, DeleteCommits, MoveDeletes, MoveAdds, CanInsert, TypeInv
<1>2. r.pl \in Playlists
  BY <1>1 DEF Request, Idle
<1>3. TableOK(T, live)
  BY <1>1, <1>2, ReadTypes
<1>4. Idle \in Request
  BY DEF Request
<1> HIDE DEF T
<1>5. CASE AddCommits(q)
  <2>1. /\ r.op = "add" /\ req' = [req EXCEPT ![q] = Idle] /\ CanInsert(r)
        /\ WriteTracks(r.pl, add_recordings_to_playlist(T, r.known, r.items, r.at), Hole(r.at > r.known))
    BY <1>5 DEF AddCommits, Done, T
  <2>2. r.items \in Seq(Recording) /\ r.known \in Nat /\ r.at \in Int
    BY <1>1, <2>1 DEF Request, Idle
  <2>3. TableOK(add_recordings_to_playlist(T, r.known, r.items, r.at), live)
    BY <1>3, <2>1, <2>2, InsertableTypes, AddedOK
  <2> DEFINE U == add_recordings_to_playlist(T, r.known, r.items, r.at)
  <2>4. PICK why \in SUBSET {"overlap", "hole"} : WriteTracks(r.pl, U, why)
    BY <2>1 DEF Hole
  <2> HIDE DEF U, r
  <2>5. TableOK(U, live)
    BY <2>3 DEF U
  <2>6. TypeInv' /\ Written(r.pl)
    BY <1>1, <1>2, <1>4, <2>1, <2>4, <2>5, WriteTypes
  <2> QED
    BY <2>6 DEF r
<1>6. CASE DeleteCommits(q) \/ MoveDeletes(q)
  <2>1. /\ r.op \in {"delete", "take"}
        /\ WriteTracks(r.pl, delete_recordings_from_playlist(T, r.known, r.from, r.count), {})
    BY <1>6 DEF DeleteCommits, MoveDeletes, T
  <2>2. r.known \in Nat /\ r.from \in Nat /\ r.count \in Nat
    BY <1>1, <2>1 DEF Request, Idle
  <2>3. TableOK(delete_recordings_from_playlist(T, r.known, r.from, r.count), live)
    BY <1>3, <2>2, DeletedOK
  <2> DEFINE U == delete_recordings_from_playlist(T, r.known, r.from, r.count)
  <2>4. TableOK(U, live) /\ WriteTracks(r.pl, U, {}) /\ {} \in SUBSET {"overlap", "hole"}
    BY <2>1, <2>3
  <2>5. CASE DeleteCommits(q)
    <3>1. req' = [req EXCEPT ![q] = Idle]
      BY <2>5 DEF DeleteCommits, Done
    <3> HIDE DEF U, r
    <3>4. TypeInv' /\ Written(r.pl)
      BY <1>1, <1>2, <1>4, <2>4, <3>1, WriteTypes
    <3> QED
      BY <3>4 DEF r
  <2>6. CASE MoveDeletes(q)
    <3> DEFINE put == [op |-> "put", pl |-> r.pl, known |-> r.known, to |-> r.to, items |-> r.items]
    <3>1. r.op = "take" /\ req' = [req EXCEPT ![q] = put]
      BY <2>6 DEF MoveDeletes
    <3>2. r.to \in Nat /\ r.items \in Seq(Recording)
      BY <1>1, <3>1 DEF Request, Idle
    <3>3. put \in Request
      BY <1>2, <2>2, <3>2 DEF Request
    <3> HIDE DEF put, U, r
    <3>4. TypeInv' /\ Written(r.pl)
      BY <1>1, <1>2, <2>4, <3>1, <3>3, WriteTypes
    <3> QED
      BY <3>4 DEF r
  <2> QED
    BY <1>6, <2>5, <2>6
<1>7. CASE MoveAdds(q)
  <2>1. /\ r.op = "put" /\ req' = [req EXCEPT ![q] = Idle] /\ CanInsert(r)
        /\ WriteTracks(r.pl, add_recordings_to_playlist(T, r.known, r.items, r.to),
                       Hole(r.to + Len(r.items) > r.known))
    BY <1>7 DEF MoveAdds, Done, T
  <2>2. r.items \in Seq(Recording) /\ r.known \in Nat /\ r.to \in Int
    BY <1>1, <2>1 DEF Request, Idle
  <2>3. TableOK(add_recordings_to_playlist(T, r.known, r.items, r.to), live)
    BY <1>3, <2>1, <2>2, InsertableTypes, AddedOK
  <2> DEFINE U == add_recordings_to_playlist(T, r.known, r.items, r.to)
  <2>4. PICK why \in SUBSET {"overlap", "hole"} : WriteTracks(r.pl, U, why)
    BY <2>1 DEF Hole
  <2> HIDE DEF U, r
  <2>5. TableOK(U, live)
    BY <2>3 DEF U
  <2>6. TypeInv' /\ Written(r.pl)
    BY <1>1, <1>2, <1>4, <2>1, <2>4, <2>5, WriteTypes
  <2> QED
    BY <2>6 DEF r
<1> QED
  BY <1>5, <1>6, <1>7

LEMMA NewRow ==
  ASSUME TypeInv, NEW creator \in live, NEW madeFor \in live, NEW public \in BOOLEAN,
         NEW items \in Seq([mbid : Mbids, by : live]),
         NEW row, row = NewPlaylist(creator, madeFor, public, items)
  PROVE  RowFits(row, live)
<1> DEFINE T == insert_recordings({}, items, 0)
<1>1. TableOK(T, live)
  <2>1. TableOK({}, live)
    BY FS_EmptySet DEF TableOK
  <2> QED
    BY <2>1, InsertedOK
<1>2. row = [creator |-> creator, madeFor |-> madeFor, public |-> public, collab |-> {}, tracks |-> T]
  BY DEF NewPlaylist
<1> HIDE DEF T
<1> QED
  BY <1>1, <1>2 DEF RowFits, RowsOf, TableOK

LEMMA CreatedTypes ==
  ASSUME TypeInv, NEW creator \in live, NEW madeFor \in live, NEW public \in BOOLEAN,
         NEW items \in Seq([mbid : Mbids, by : live]), NEW old,
         Create(NewPlaylist(creator, madeFor, public, items), old), UNCHANGED upset,
         req' \in [Requests -> Request]
  PROVE  TypeInv'
<1> DEFINE row == NewPlaylist(creator, madeFor, public, items)
<1>3. /\ last < MaxPlaylists /\ last' = last + 1 /\ live' = live
      /\ playlist' = [p \in Playlists |-> IF p = last + 1 THEN row ELSE IF p \in old THEN Absent ELSE playlist[p]]
  BY DEF Create
<1>4. RowFits(row, live)
  BY NewRow
<1> HIDE DEF row
<1>5. last \in 0..MaxPlaylists /\ last' \in 0..MaxPlaylists
  BY <1>3, BoundsAssumption DEF TypeInv
<1>6. \A p \in Playlists : p \in Nat
  BY BoundsAssumption DEF Playlists
<1>7. ASSUME NEW p \in Playlists PROVE PlaylistOK(p)'
  <2>1. PlaylistOK(p)
    BY DEF TypeInv
  <2>2. CASE p = last + 1
    BY <1>3, <1>4, <1>5, <2>2 DEF PlaylistOK
  <2>3. CASE p # last + 1
    BY <1>3, <1>5, <1>6, <2>1, <2>3 DEF PlaylistOK, Exists
  <2> QED
    BY <2>2, <2>3
<1>8. playlist' = [p \in Playlists |-> playlist'[p]]
  BY <1>3
<1> QED
  BY <1>3, <1>5, <1>7, <1>8 DEF TypeInv

LEMMA EditCommitsTypes ==
  ASSUME TypeInv, NEW q \in Requests, EditCommits(q)
  PROVE  TypeInv' /\ Written(req[q].pl)
<1> DEFINE r == req[q]
           p == r.pl
           new == [playlist[p] EXCEPT !.public = r.public, !.collab = r.collab]
<1>1. /\ r.op = "edit" /\ Exists(p) /\ r.collab \subseteq live
      /\ req' = [req EXCEPT ![q] = Idle] /\ UNCHANGED <<last, live, upset>>
      /\ playlist' = [playlist EXCEPT ![p].public = r.public, ![p].collab = r.collab]
  BY DEF EditCommits, Done
<1>2. r \in Request /\ Idle \in Request
  BY DEF TypeInv, Request
<1>3. p \in Playlists /\ r.public \in BOOLEAN /\ r.collab \in SUBSET Users
  BY <1>1, <1>2 DEF Request, Idle
<1>4. p <= last /\ RowFits(playlist[p], live)
  BY <1>1, <1>3 DEF TypeInv, PlaylistOK
<1>5. playlist' = [playlist EXCEPT ![p] = new]
  BY <1>1, <1>3 DEF TypeInv
<1>6. RowFits(new, live) /\ new.creator = playlist[p].creator /\ new.madeFor = playlist[p].madeFor
  <2>1. /\ new \in RowsOf(live) /\ new.tracks = playlist[p].tracks
        /\ new.creator = playlist[p].creator /\ new.madeFor = playlist[p].madeFor
    BY <1>1, <1>3, <1>4 DEF RowFits, RowsOf
  <2> QED
    BY <1>4, <2>1 DEF RowFits
<1>7. req' \in [Requests -> Request]
  BY <1>1, <1>2, RequestTaken
<1> HIDE DEF new, r, p
<1>8. playlist'[p] = new /\ \A o \in Playlists \ {p} : playlist'[o] = playlist[o]
  BY <1>3, <1>5 DEF TypeInv
<1>9. \A o \in Playlists : PlaylistOK(o)'
  BY <1>1, <1>4, <1>6, <1>8 DEF TypeInv, PlaylistOK, Exists
<1>10. playlist' = [o \in Playlists |-> playlist'[o]]
  BY <1>5 DEF TypeInv
<1>11. playlist'[p] # Absent
  BY <1>6, <1>8, RowIsThere DEF TypeInv
<1>12. TypeInv' /\ Written(p)
  BY <1>1, <1>6, <1>7, <1>8, <1>9, <1>10, <1>11 DEF TypeInv, Written
<1> QED
  BY <1>12 DEF p, r

LEMMA HandlerTypes ==
  ASSUME TypeInv, NEW q \in Requests,
         \/ CreateCommits(q) \/ Fails(q)
         \/ \E u \in Users : RemoveOldPlaylists(q, u)
  PROVE  TypeInv'
<1>1. Idle \in Request
  BY DEF Request
<1>2. CASE CreateCommits(q)
  <2>1. PICK s \in Payloads : Create(NewPlaylist(Bot, req[q].madeFor, TRUE, AddedBy(Bot, s)), req[q].old)
    BY <1>2 DEF CreateCommits
  <2>2. req' = [req EXCEPT ![q] = Idle] /\ UNCHANGED upset /\ req[q].madeFor \in live
    BY <1>2 DEF CreateCommits, Done
  <2>3. Bot \in live /\ Bot \in Everyone /\ TRUE \in BOOLEAN
    BY DEF TypeInv, Everyone
  <2>4. AddedBy(Bot, s) \in Seq([mbid : Mbids, by : live])
    BY <2>3, SentTypes DEF TypeInv
  <2>5. req' \in [Requests -> Request]
    BY <1>1, <2>2, RequestTaken
  <2> QED
    BY <2>1, <2>2, <2>3, <2>4, <2>5, CreatedTypes
<1>3. CASE Fails(q) \/ \E u \in Users : RemoveOldPlaylists(q, u)
  <2>1. UNCHANGED <<playlist, last, live, upset>>
    BY <1>3 DEF Fails, RemoveOldPlaylists
  <2>2. \A u \in Users : [op |-> "create", pl |-> 0, madeFor |-> u, old |-> MadeFor(u)] \in Request
    BY DEF Request, MadeFor
  <2>3. PICK r \in Request : req' = [req EXCEPT ![q] = r]
    BY <1>1, <1>3, <2>2 DEF Fails, RemoveOldPlaylists, Done
  <2>4. req' \in [Requests -> Request]
    BY <2>3, RequestTaken
  <2> QED
    BY <2>1, <2>4 DEF TypeInv, PlaylistOK, Exists
<1> QED
  BY <1>2, <1>3

\* What the deletion of an account leaves of a playlist.
LEMMA ErasedRow ==
  ASSUME TypeInv, NEW u \in Users, NEW p \in Playlists, Exists(p),
         u \notin {playlist[p].creator, playlist[p].madeFor}
  PROVE  LET row == [playlist[p] EXCEPT !.collab = @ \ {u}, !.tracks = {t \in playlist[p].tracks : t.by # u}]
         IN  /\ p <= last /\ RowFits(row, live \ {u}) /\ row # Absent
             /\ row.creator = playlist[p].creator /\ row.madeFor = playlist[p].madeFor
<1> DEFINE T == {t \in playlist[p].tracks : t.by # u}
           row == [playlist[p] EXCEPT !.collab = @ \ {u}, !.tracks = T]
<1>1. p <= last /\ RowFits(playlist[p], live)
  BY DEF TypeInv, PlaylistOK
<1>2. TableOK(T, live)
  BY <1>1, FewerOK DEF RowFits
<1>3. TableOK(T, live \ {u})
  BY <1>2 DEF TableOK, TracksOf
<1>4. /\ playlist[p] \in RowsOf(live) /\ playlist[p].creator # u /\ playlist[p].madeFor # u
      /\ T \in SUBSET TracksOf(live \ {u})
  BY <1>1, <1>3 DEF RowFits, TableOK
<1> HIDE DEF T
<1>5. /\ row \in RowsOf(live \ {u}) /\ row.tracks = T
      /\ row.creator = playlist[p].creator /\ row.madeFor = playlist[p].madeFor
  BY <1>4 DEF RowsOf
<1> HIDE DEF row
<1>6. RowFits(row, live \ {u})
  BY <1>3, <1>5 DEF RowFits
<1>7. row # Absent
  BY <1>6, RowIsThere DEF TypeInv
<1> QED
  BY <1>1, <1>5, <1>6, <1>7 DEF row, T

LEMMA OwnerTypes ==
  ASSUME TypeInv, NEW u \in Users,
         \/ create_playlist(u) \/ EraseUser(u)
         \/ \E p \in Playlists : copy_playlist(u, p) \/ delete_playlist(u, p)
  PROVE  TypeInv'
<1>1. CASE create_playlist(u)
  <2>1. PICK public \in BOOLEAN, s \in Payloads : Create(NewPlaylist(u, u, public, AddedBy(u, s)), {})
    BY <1>1 DEF create_playlist
  <2>2. u \in live /\ u \in Everyone /\ UNCHANGED <<upset, req>>
    BY <1>1 DEF create_playlist, Everyone
  <2>3. AddedBy(u, s) \in Seq([mbid : Mbids, by : live])
    BY <2>2, SentTypes DEF TypeInv
  <2>4. req' \in [Requests -> Request]
    BY <2>2 DEF TypeInv
  <2> QED
    BY <2>1, <2>2, <2>3, <2>4, CreatedTypes
<1>2. ASSUME NEW p \in Playlists, copy_playlist(u, p)
      PROVE  TypeInv'
  <2> DEFINE items == get_recordings_for_playlists(playlist[p].tracks)
  <2>1. /\ Exists(p) /\ u \in live /\ UNCHANGED <<upset, req>>
        /\ Create(NewPlaylist(u, u, playlist[p].public, items), {})
    BY <1>2 DEF copy_playlist
  <2>2. items \in Seq([mbid : Mbids, by : live])
    BY <2>1, ReadTypes
  <2>3. playlist[p].public \in BOOLEAN /\ req' \in [Requests -> Request]
    BY <2>1 DEF TypeInv, PlaylistOK, RowFits, RowsOf
  <2> HIDE DEF items
  <2> QED
    BY <2>1, <2>2, <2>3, CreatedTypes
<1>3. ASSUME NEW p \in Playlists, delete_playlist(u, p)
      PROVE  TypeInv'
  <2>1. playlist' = [playlist EXCEPT ![p] = Absent] /\ UNCHANGED <<last, live, upset, req>>
    BY <1>3 DEF delete_playlist
  <2>2. \A o \in Playlists : PlaylistOK(o)'
    BY <2>1 DEF TypeInv, PlaylistOK, Exists
  <2>3. playlist' = [o \in Playlists |-> playlist'[o]]
    BY <2>1 DEF TypeInv
  <2> QED
    BY <2>1, <2>2, <2>3 DEF TypeInv
<1>4. CASE EraseUser(u)
  <2> DEFINE kept(p) == {t \in playlist[p].tracks : t.by # u}
             stays(p) == Exists(p) /\ u \notin {playlist[p].creator, playlist[p].madeFor}
             new(p) == [playlist[p] EXCEPT !.collab = @ \ {u}, !.tracks = kept(p)]
             why(p) == IF ~Exists(p) \/ kept(p) = playlist[p].tracks THEN {}
                       ELSE {"hole"} \cup (IF Editing(p) = {} THEN {} ELSE {"overlap"})
  <2>1. /\ playlist' = [p \in Playlists |-> IF stays(p) THEN new(p) ELSE Absent]
        /\ upset' = [p \in Playlists |-> upset[p] \cup why(p)]
        /\ live' = live \ {u} /\ UNCHANGED <<last, req>>
    BY <1>4 DEF EraseUser
  <2>2. upset' \in [Playlists -> SUBSET {"overlap", "hole"}]
    <3>1. \A p \in Playlists : why(p) \in SUBSET {"overlap", "hole"}
      OBVIOUS
    <3> HIDE DEF why
    <3> QED
      BY <2>1, <3>1 DEF TypeInv
  <2>3. live' \subseteq Everyone /\ Bot \in live'
    BY <2>1, BotAssumption DEF TypeInv
  <2>4. \A p \in Playlists : stays(p) => p <= last /\ RowFits(new(p), live \ {u})
    BY ErasedRow
  <2> HIDE DEF new, stays
  <2>5. \A p \in Playlists : PlaylistOK(p)'
    BY <2>1, <2>4 DEF PlaylistOK, Exists
  <2>6. playlist' = [p \in Playlists |-> playlist'[p]] /\ last' \in 0..MaxPlaylists /\ req' \in [Requests -> Request]
    BY <2>1 DEF TypeInv
  <2> QED
    BY <2>2, <2>3, <2>5, <2>6 DEF TypeInv
<1> QED
  BY <1>1, <1>2, <1>3, <1>4

LEMMA TypesStep == TypeInv /\ [Next]_vars => TypeInv'
<1> SUFFICES ASSUME TypeInv, [Next]_vars PROVE TypeInv'
  OBVIOUS
<1>1. ASSUME NEW q \in Requests, Edit(q) PROVE TypeInv'
  BY <1>1, EditTypes, HandlerTypes DEF Edit
<1>2. ASSUME NEW q \in Requests, Commit(q) \/ Fails(q) PROVE TypeInv'
  BY <1>2, CommitTypes, EditCommitsTypes, HandlerTypes DEF Commit
<1>3. ASSUME NEW u \in Users, create_playlist(u) \/ EraseUser(u) PROVE TypeInv'
  BY <1>3, OwnerTypes
<1>4. ASSUME NEW u \in Users, NEW p \in Playlists, copy_playlist(u, p) \/ delete_playlist(u, p) PROVE TypeInv'
  BY <1>4, OwnerTypes
<1>5. CASE UNCHANGED vars
  BY <1>5 DEF vars, TypeInv, PlaylistOK, Exists
<1> QED
  BY <1>1, <1>2, <1>3, <1>4, <1>5 DEF Next

LEMMA TypesSuffice == TypeInv => TypeOK
<1> SUFFICES ASSUME TypeInv PROVE TypeOK
  OBVIOUS
<1>1. ASSUME NEW p \in Playlists, Exists(p)
      PROVE  /\ playlist[p].creator \in live /\ playlist[p].madeFor \in live
             /\ playlist[p].collab \subseteq live
             /\ playlist[p].public \in BOOLEAN
             /\ playlist[p].tracks \in SUBSET [id : Nat, mbid : Mbids, by : live, pos : Nat]
  <2>1. playlist[p] \in RowsOf(live)
    BY <1>1 DEF TypeInv, PlaylistOK, RowFits
  <2> QED
    BY <2>1 DEF RowsOf, TracksOf
<1>2. \A p \in Playlists : p > last => ~Exists(p)
  BY BoundsAssumption DEF TypeInv, PlaylistOK, Playlists
<1> QED
  BY <1>1, <1>2 DEF TypeOK, TypeInv

\* Type correctness: playlists, those they are made for, collaborators and those who added a recording are
\* users that are there, through every deletion of an account and every request that began before it.
THEOREM TypeCorrect == Spec => []TypeOK
<1> QED
  BY TypesInit, TypesStep, TypesSuffice, PTL DEF Spec

-----------------------------------------------------------------------------
(* The playlists that the bot replaces.                                    *)

Creating(q, u) == req[q].op = "create" /\ req[q].madeFor = u

\* What a request means to replace was made by the bot for the same user, as ids are not given again.
OldKnown ==
    \A q \in Requests : req[q].op = "create" =>
       \A p \in req[q].old : /\ p <= last
                             /\ Exists(p) => playlist[p].creator = Bot /\ playlist[p].madeFor = req[q].madeFor

\* A user for whom no two playlists were being created at once has one, which whoever is creating another
\* means to replace.
Single ==
    \A u \in live \ ({Bot} \cup twins) :
       /\ \A o, p \in MadeFor(u) : o = p
       /\ \A q \in Requests : Creating(q, u) => MadeFor(u) \subseteq req[q].old
       /\ \A q, r \in Requests : Creating(q, u) /\ Creating(r, u) => q = r

JamInv == TypeInv /\ OldKnown /\ Single

\* The step replaces what it takes away.
Replaces == \A u \in live' \ {Bot} : MadeFor(u) # {} => MadeFor(u)' # {}

LEMMA CreateRequest ==
  ASSUME TypeInv, NEW q \in Requests, req[q].op = "create"
  PROVE  req[q].madeFor \in Users /\ req[q].old \in SUBSET Playlists
<1>1. req[q] \in Request
  BY DEF TypeInv
<1> QED
  BY <1>1 DEF Request, Idle

\* Steps that leave who made what for whom.
LEMMA JamFrame ==
  ASSUME JamInv, TypeInv', last' >= last, live' \subseteq live, twins' = twins,
         \A q \in Requests : req'[q] = req[q] \/ req'[q].op # "create",
         \A p \in Playlists : p <= last /\ Exists(p)' => /\ Exists(p) /\ playlist'[p].creator = playlist[p].creator
                                                         /\ playlist'[p].madeFor = playlist[p].madeFor,
         \A u \in live' \ {Bot} : MadeFor(u)' = MadeFor(u)
  PROVE  JamInv' /\ Replaces
<1>1. OldKnown'
  <2> SUFFICES ASSUME NEW q \in Requests, req'[q].op = "create", NEW p \in req'[q].old
               PROVE  /\ p <= last'
                      /\ Exists(p)' => playlist'[p].creator = Bot /\ playlist'[p].madeFor = req'[q].madeFor
    BY DEF OldKnown
  <2>1. req'[q] = req[q] /\ p \in req[q].old /\ p \in Playlists
    BY CreateRequest DEF JamInv
  <2>2. p <= last /\ (Exists(p) => playlist[p].creator = Bot /\ playlist[p].madeFor = req[q].madeFor)
    BY <2>1 DEF JamInv, OldKnown
  <2>3. p <= last'
    BY <2>1, <2>2, BoundsAssumption DEF JamInv, TypeInv, Playlists
  <2> QED
    BY <2>1, <2>2, <2>3
<1>2. Single'
  BY DEF JamInv, Single, Creating
<1>3. Replaces
  BY DEF Replaces
<1> QED
  BY <1>1, <1>2, <1>3 DEF JamInv

\* In particular those that leave what there is, but for recordings, collaborators and visibility.
LEMMA JamSame ==
  ASSUME JamInv, TypeInv', last' = last, live' = live, twins' = twins,
         \A q \in Requests : req'[q] = req[q] \/ req'[q].op # "create",
         \A p \in Playlists : playlist'[p] # Absent <=> playlist[p] # Absent,
         \A p \in Playlists : playlist[p] # Absent =>
            playlist'[p].creator = playlist[p].creator /\ playlist'[p].madeFor = playlist[p].madeFor
  PROVE  JamInv' /\ Replaces
<1>1. \A u \in live' \ {Bot} : MadeFor(u)' = MadeFor(u)
  BY DEF MadeFor, Exists
<1>2. last' >= last
  BY DEF JamInv, TypeInv
<1> QED
  BY <1>1, <1>2, JamFrame DEF Exists

\* Editing changes neither the creator nor the user that a playlist is made for.
LEMMA JamWrite ==
  ASSUME JamInv, NEW q \in Requests,
         \/ AddCommits(q) \/ DeleteCommits(q) \/ MoveDeletes(q) \/ MoveAdds(q) \/ EditCommits(q)
  PROVE  JamInv' /\ Replaces
<1> DEFINE p == req[q].pl
<1>1. /\ Exists(p) /\ req[q].op # "create" /\ req[q].op # "idle"
      /\ UNCHANGED <<last, live, twins>>
      /\ \E s : req' = [req EXCEPT ![q] = s] /\ s.op # "create"
  BY DEF AddCommits, DeleteCommits, MoveDeletes, MoveAdds, EditCommits, CanInsert, WriteTracks, Done, Idle
<1>2. TypeInv' /\ Written(p)
  BY CommitTypes, EditCommitsTypes DEF JamInv
<1>3. p \in Playlists
  <2>1. req[q] \in Request
    BY DEF JamInv, TypeInv
  <2> QED
    BY <1>1, <2>1 DEF Request, Idle
<1>4. \A r \in Requests : req'[r] = req[r] \/ req'[r].op # "create"
  BY <1>1 DEF JamInv, TypeInv
<1>5. \A o \in Playlists : /\ playlist'[o] # Absent <=> playlist[o] # Absent
                          /\ playlist'[o].creator = playlist[o].creator
                          /\ playlist'[o].madeFor = playlist[o].madeFor
  BY <1>1, <1>2, <1>3 DEF Written, Exists
<1>6. TypeInv' /\ last' = last /\ live' = live /\ twins' = twins
  BY <1>1, <1>2
<1> HIDE DEF p
<1> QED
  BY <1>4, <1>5, <1>6, JamSame
\* Steps that touch no playlist: a request begins or fails, or nothing happens.
LEMMA JamStill ==
  ASSUME JamInv, TypeInv', UNCHANGED <<playlist, last, live, twins>>,
         NEW q \in Requests, NEW s, s.op # "create", req' = [req EXCEPT ![q] = s]
  PROVE  JamInv' /\ Replaces
<1>1. \A r \in Requests : req'[r] = req[r] \/ req'[r].op # "create"
  BY DEF JamInv, TypeInv
<1>2. last' = last /\ live' = live /\ twins' = twins /\ playlist' = playlist
  OBVIOUS
<1> QED
  BY <1>1, <1>2, JamSame

LEMMA JamBegins ==
  ASSUME JamInv, NEW q \in Requests, NEW u \in live, NEW p \in Playlists,
         \/ add_playlist_item(q, u, p) \/ delete_playlist_item(q, u, p)
         \/ move_playlist_item(q, u, p) \/ edit_playlist(q, u, p)
  PROVE  JamInv' /\ Replaces
<1>1. PICK s : s.op # "create" /\ Begin(q, p, s)
  BY DEF add_playlist_item, delete_playlist_item, move_playlist_item, edit_playlist
<1>2. TypeInv'
  BY EditTypes DEF JamInv
<1>3. req' = [req EXCEPT ![q] = s] /\ UNCHANGED <<playlist, last, live, twins>>
  BY <1>1 DEF Begin
<1> QED
  BY <1>1, <1>2, <1>3, JamStill

LEMMA JamFails ==
  ASSUME JamInv, NEW q \in Requests, Fails(q)
  PROVE  JamInv' /\ Replaces
<1>1. TypeInv'
  BY HandlerTypes DEF JamInv
<1>2. req' = [req EXCEPT ![q] = Idle] /\ UNCHANGED <<playlist, last, live, twins>> /\ Idle.op # "create"
  BY DEF Fails, Done, Idle
<1> QED
  BY <1>1, <1>2, JamStill

\* The deletion is not committed yet: who has a playlist keeps it.
LEMMA JamRemoves ==
  ASSUME JamInv, NEW q \in Requests, NEW u \in Users, RemoveOldPlaylists(q, u)
  PROVE  JamInv' /\ Replaces
<1> DEFINE new == [op |-> "create", pl |-> 0, madeFor |-> u, old |-> MadeFor(u)]
<1>1. /\ UNCHANGED <<playlist, last, live>> /\ req[q] = Idle /\ req' = [req EXCEPT ![q] = new]
      /\ twins' = IF \E r \in Requests : req[r].op = "create" /\ req[r].madeFor = u THEN twins \cup {u} ELSE twins
  BY DEF RemoveOldPlaylists
<1>2. TypeInv'
  BY HandlerTypes DEF JamInv
<1>3. new.op = "create" /\ new.madeFor = u /\ new.old = MadeFor(u)
  OBVIOUS
<1> HIDE DEF new
<1>4. req'[q] = new /\ \A r \in Requests \ {q} : req'[r] = req[r]
  BY <1>1 DEF JamInv, TypeInv
<1>5. \A v : MadeFor(v)' = MadeFor(v)
  BY <1>1 DEF MadeFor, Exists
<1>6. OldKnown'
  <2>1. \A p \in MadeFor(u) : p <= last /\ playlist[p].creator = Bot /\ playlist[p].madeFor = u
    BY DEF JamInv, TypeInv, PlaylistOK, MadeFor
  <2> SUFFICES ASSUME NEW r \in Requests, req'[r].op = "create", NEW p \in req'[r].old
               PROVE  /\ p <= last'
                      /\ playlist'[p] # Absent => playlist'[p].creator = Bot /\ playlist'[p].madeFor = req'[r].madeFor
    BY DEF OldKnown, Exists
  <2>2. CASE r = q
    BY <1>1, <1>3, <1>4, <2>1, <2>2
  <2>3. CASE r # q
    BY <1>1, <1>4, <2>3 DEF JamInv, OldKnown, Exists
  <2> QED
    BY <2>2, <2>3
<1>7. ASSUME NEW v \in live' \ ({Bot} \cup twins')
      PROVE  /\ \A o, p \in MadeFor(v)' : o = p
             /\ \A r \in Requests : Creating(r, v)' => MadeFor(v)' \subseteq req'[r].old
             /\ \A r, s \in Requests : Creating(r, v)' /\ Creating(s, v)' => r = s
  <2>1. /\ v \in live \ ({Bot} \cup twins)
        /\ v = u => \A r \in Requests : ~Creating(r, v)
    BY <1>1 DEF Creating
  <2>2. /\ \A o, p \in MadeFor(v) : o = p
        /\ \A r \in Requests : Creating(r, v) => MadeFor(v) \subseteq req[r].old
        /\ \A r, s \in Requests : Creating(r, v) /\ Creating(s, v) => r = s
    BY <2>1 DEF JamInv, Single
  <2>3. \A r \in Requests \ {q} : Creating(r, v)' <=> Creating(r, v)
    BY <1>4 DEF Creating
  <2>4. Creating(q, v)' <=> v = u
    BY <1>3, <1>4 DEF Creating
  <2> QED
    BY <1>3, <1>4, <1>5, <2>1, <2>2, <2>3, <2>4
<1>8. Single'
  BY <1>7 DEF Single
<1>9. Replaces
  BY <1>5 DEF Replaces
<1> QED
  BY <1>2, <1>6, <1>8, <1>9 DEF JamInv

\* The old playlist goes in the step in which the new one comes.
LEMMA JamCreates ==
  ASSUME JamInv, NEW q \in Requests, CreateCommits(q)
  PROVE  JamInv' /\ Replaces
<1>0. PICK u, old, id : u = req[q].madeFor /\ old = req[q].old /\ id = last + 1
  OBVIOUS
<1>1. PICK s \in Payloads : Create(NewPlaylist(Bot, u, TRUE, AddedBy(Bot, s)), old)
  BY <1>0 DEF CreateCommits
<1>2. req[q].op = "create" /\ u \in live /\ req' = [req EXCEPT ![q] = Idle]
  BY <1>0 DEF CreateCommits, Done
<1>3. PICK row : /\ Create(row, old) /\ row # Absent /\ row.creator = Bot /\ row.madeFor = u
  <2>1. Bot \in live /\ Bot \in Everyone /\ TRUE \in BOOLEAN /\ TypeInv
    BY DEF JamInv, TypeInv, Everyone
  <2>2. PICK items \in Seq([mbid : Mbids, by : live]) : items = AddedBy(Bot, s)
    BY <2>1, SentTypes DEF TypeInv
  <2>3. PICK row : row = NewPlaylist(Bot, u, TRUE, items)
    OBVIOUS
  <2>4. RowFits(row, live)
    BY <1>2, <2>1, <2>3, NewRow
  <2>5. row # Absent
    BY <2>1, <2>4, RowIsThere DEF TypeInv
  <2>6. row.creator = Bot /\ row.madeFor = u
    BY <2>3 DEF NewPlaylist
  <2> QED
    BY <1>1, <2>2, <2>3, <2>5, <2>6
<1>4. /\ last < MaxPlaylists /\ last' = id /\ live' = live /\ twins' = twins
      /\ playlist' = [p \in Playlists |-> IF p = id THEN row ELSE IF p \in old THEN Absent ELSE playlist[p]]
  BY <1>0, <1>3 DEF Create, CreateCommits
<1>5. TypeInv'
  BY HandlerTypes DEF JamInv
<1>6. u \in Users /\ old \in SUBSET Playlists /\ u # Bot
  BY <1>0, <1>2, CreateRequest, BotAssumption DEF JamInv
<1>7. last \in Nat /\ id \in Playlists /\ \A p \in Playlists : p \in Nat /\ (Exists(p) => p <= last /\ p # id)
  BY <1>0, <1>4, BoundsAssumption DEF JamInv, TypeInv, PlaylistOK, Playlists
<1>8. \A p \in old : p <= last /\ (Exists(p) => playlist[p].creator = Bot /\ playlist[p].madeFor = u)
  BY <1>0, <1>2 DEF JamInv, OldKnown
<1>9. /\ req'[q].op # "create" /\ \A r \in Requests \ {q} : req'[r] = req[r]
  BY <1>2 DEF JamInv, TypeInv, Idle
\* Only u's playlists change.
<1>10. \A v : v # u => MadeFor(v)' = MadeFor(v)
  BY <1>4, <1>3, <1>6, <1>7, <1>8 DEF MadeFor, Exists
<1>11. MadeFor(u)' = {id} \cup (MadeFor(u) \ old)
  BY <1>4, <1>3, <1>6, <1>7, <1>8 DEF MadeFor, Exists
<1>12. OldKnown'
  <2> SUFFICES ASSUME NEW r \in Requests, req'[r].op = "create", NEW p \in req'[r].old
               PROVE  /\ p <= last'
                      /\ playlist'[p] # Absent => playlist'[p].creator = Bot /\ playlist'[p].madeFor = req'[r].madeFor
    BY DEF OldKnown, Exists
  <2>1. r # q /\ req'[r] = req[r]
    BY <1>9
  <2>2. p \in Playlists /\ p <= last /\ (Exists(p) => playlist[p].creator = Bot /\ playlist[p].madeFor = req[r].madeFor)
    BY <2>1, CreateRequest DEF JamInv, OldKnown
  <2>3. p <= last' /\ p # id
    BY <1>0, <1>4, <1>7, <2>2
  <2> QED
    BY <1>4, <2>1, <2>2, <2>3 DEF Exists
<1>13. ASSUME NEW v \in live' \ ({Bot} \cup twins')
       PROVE  /\ \A o, p \in MadeFor(v)' : o = p
              /\ \A r \in Requests : Creating(r, v)' => MadeFor(v)' \subseteq req'[r].old
              /\ \A r, t \in Requests : Creating(r, v)' /\ Creating(t, v)' => r = t
  <2>1. /\ \A o, p \in MadeFor(v) : o = p
        /\ \A r \in Requests : Creating(r, v) => MadeFor(v) \subseteq req[r].old
        /\ \A r, t \in Requests : Creating(r, v) /\ Creating(t, v) => r = t
    BY <1>4, <1>13 DEF JamInv, Single
  <2>2. \A r \in Requests : Creating(r, v)' => r # q /\ Creating(r, v) /\ req'[r].old = req[r].old
    BY <1>9 DEF Creating
  <2>3. CASE v = u
    <3>1. Creating(q, v)
      BY <1>0, <1>2, <2>3 DEF Creating
    <3>2. MadeFor(u) \subseteq old /\ \A r \in Requests : ~Creating(r, v)'
      BY <1>0, <2>1, <2>2, <2>3, <3>1
    <3> QED
      BY <1>11, <2>3, <3>2
  <2>4. CASE v # u
    BY <1>10, <2>1, <2>2, <2>4
  <2> QED
    BY <2>3, <2>4
<1>14. Single'
  BY <1>13 DEF Single
<1>15. Replaces
  BY <1>10, <1>11 DEF Replaces
<1> QED
  BY <1>5, <1>12, <1>14, <1>15 DEF JamInv

\* A playlist that users make for themselves is none of the bot's.
LEMMA JamOwned ==
  ASSUME JamInv, TypeInv', UNCHANGED <<req, twins>>, NEW u \in Users, NEW row, Create(row, {}), row.creator = u
  PROVE  JamInv' /\ Replaces
<1>1. /\ last < MaxPlaylists /\ last' = last + 1 /\ live' = live /\ req' = req /\ twins' = twins
      /\ playlist' = [p \in Playlists |-> IF p = last + 1 THEN row ELSE playlist[p]]
  BY DEF Create
<1>2. last \in Nat /\ \A p \in Playlists : p \in Nat /\ (Exists(p) => p <= last)
  BY BoundsAssumption DEF JamInv, TypeInv, PlaylistOK, Playlists
<1>3. u # Bot
  BY BotAssumption
<1>4. \A v : MadeFor(v)' = MadeFor(v)
  BY <1>1, <1>2, <1>3 DEF MadeFor, Exists
<1>5. \A p \in Playlists : p <= last => playlist'[p] = playlist[p]
  BY <1>1, <1>2
<1>6. last' >= last
  BY <1>1, <1>2
<1> QED
  BY <1>1, <1>4, <1>5, <1>6, JamFrame DEF Exists

LEMMA JamOwner ==
  ASSUME JamInv, NEW u \in Users,
         \/ create_playlist(u) \/ EraseUser(u)
         \/ \E p \in Playlists : copy_playlist(u, p) \/ delete_playlist(u, p)
  PROVE  JamInv' /\ Replaces
<1>1. TypeInv'
  BY OwnerTypes DEF JamInv
<1>2. u # Bot
  BY BotAssumption
<1>3. CASE create_playlist(u)
  <2>1. PICK public \in BOOLEAN, s \in Payloads : Create(NewPlaylist(u, u, public, AddedBy(u, s)), {})
    BY <1>3 DEF create_playlist
  <2>2. UNCHANGED <<req, twins>>
    BY <1>3 DEF create_playlist
  <2>3. NewPlaylist(u, u, public, AddedBy(u, s)).creator = u
    BY DEF NewPlaylist
  <2> QED
    BY <1>1, <2>1, <2>2, <2>3, JamOwned
<1>4. ASSUME NEW p \in Playlists, copy_playlist(u, p) PROVE JamInv' /\ Replaces
  <2> DEFINE row == NewPlaylist(u, u, playlist[p].public, get_recordings_for_playlists(playlist[p].tracks))
  <2>1. Create(row, {}) /\ UNCHANGED <<req, twins>>
    BY <1>4 DEF copy_playlist
  <2>2. row.creator = u
    BY DEF NewPlaylist
  <2> HIDE DEF row
  <2> QED
    BY <1>1, <2>1, <2>2, JamOwned
<1>5. ASSUME NEW p \in Playlists, delete_playlist(u, p) PROVE JamInv' /\ Replaces
  <2>1. /\ playlist' = [playlist EXCEPT ![p] = Absent] /\ playlist[p].creator = u
        /\ last' = last /\ live' = live /\ req' = req /\ twins' = twins
    BY <1>5 DEF delete_playlist
  <2>2. \A o \in Playlists : playlist'[o] = IF o = p THEN Absent ELSE playlist[o]
    BY <2>1 DEF JamInv, TypeInv
  <2>3. \A v : MadeFor(v)' = MadeFor(v)
    BY <1>2, <2>1, <2>2 DEF MadeFor, Exists
  <2>4. last' >= last
    BY <2>1 DEF JamInv, TypeInv
  <2> QED
    BY <1>1, <2>1, <2>2, <2>3, <2>4, JamFrame DEF Exists
<1>6. CASE EraseUser(u)
  <2> DEFINE kept(p) == {t \in playlist[p].tracks : t.by # u}
             stays(p) == Exists(p) /\ u \notin {playlist[p].creator, playlist[p].madeFor}
             new(p) == [playlist[p] EXCEPT !.collab = @ \ {u}, !.tracks = kept(p)]
  <2>1. /\ playlist' = [p \in Playlists |-> IF stays(p) THEN new(p) ELSE Absent]
        /\ live' = live \ {u} /\ last' = last /\ req' = req /\ twins' = twins
    BY <1>6 DEF EraseUser
  <2>2. \A p \in Playlists : stays(p) => /\ new(p) # Absent
                                         /\ new(p).creator = playlist[p].creator
                                         /\ new(p).madeFor = playlist[p].madeFor
    BY ErasedRow DEF JamInv
  <2> HIDE DEF new
  <2>3. \A v \in live' \ {Bot} : MadeFor(v)' = MadeFor(v)
    BY <1>2, <2>1, <2>2 DEF MadeFor, Exists
  <2>4. last' >= last
    BY <2>1 DEF JamInv, TypeInv
  <2>5. \A p \in Playlists : playlist'[p] # Absent => /\ playlist[p] # Absent
                                                      /\ playlist'[p].creator = playlist[p].creator
                                                      /\ playlist'[p].madeFor = playlist[p].madeFor
    BY <2>1, <2>2 DEF Exists
  <2> QED
    BY <1>1, <2>1, <2>3, <2>4, <2>5, JamFrame DEF Exists
<1> QED
  BY <1>3, <1>4, <1>5, <1>6

LEMMA JamInit == Init => JamInv
<1> SUFFICES ASSUME Init PROVE JamInv
  OBVIOUS
<1>1. TypeInv
  BY TypesInit
<1>2. \A q \in Requests : req[q].op # "create"
  BY DEF Init, Idle
<1>3. \A u : MadeFor(u) = {}
  BY DEF Init, MadeFor, Exists
<1>4. OldKnown /\ Single
  BY <1>2, <1>3 DEF OldKnown, Single, Creating
<1> QED
  BY <1>1, <1>4 DEF JamInv

LEMMA JamStep == JamInv /\ [Next]_vars => JamInv' /\ Replaces
<1> SUFFICES ASSUME JamInv, [Next]_vars PROVE JamInv' /\ Replaces
  OBVIOUS
<1>1. ASSUME NEW q \in Requests, Edit(q) PROVE JamInv' /\ Replaces
  BY <1>1, JamBegins, JamRemoves DEF Edit
<1>2. ASSUME NEW q \in Requests, Commit(q) \/ Fails(q) PROVE JamInv' /\ Replaces
  BY <1>2, JamWrite, JamCreates, JamFails DEF Commit
<1>3. ASSUME NEW u \in Users, create_playlist(u) \/ EraseUser(u) PROVE JamInv' /\ Replaces
  BY <1>3, JamOwner
<1>4. ASSUME NEW u \in Users, NEW p \in Playlists, copy_playlist(u, p) \/ delete_playlist(u, p)
      PROVE  JamInv' /\ Replaces
  BY <1>4, JamOwner
<1>5. CASE UNCHANGED vars
  <2>1. TypeInv'
    BY <1>5, TypesStep DEF JamInv
  <2>2. /\ playlist' = playlist /\ last' = last /\ live' = live /\ twins' = twins /\ req' = req
    BY <1>5 DEF vars
  <2> QED
    BY <2>1, <2>2, JamSame
<1> QED
  BY <1>1, <1>2, <1>3, <1>4, <1>5 DEF Next

\* One playlist at most.
LEMMA OneMade ==
  ASSUME NEW S, \A o, p \in S : o = p
  PROVE  Cardinality(S) <= 1
<1>1. CASE S = {}
  BY <1>1, FS_EmptySet
<1>2. CASE S # {}
  <2>1. PICK p \in S : S = {p}
    BY <1>2
  <2>2. Cardinality({p}) = 1
    BY FS_Singleton
  <2> QED
    BY <2>1, <2>2
<1> QED
  BY <1>1, <1>2

\* The bot's playlist for a user is replaced in one step: no step takes it away without a new one, and as
\* long as no two were being created at once there is never a second.
THEOREM JamsReplacedCorrect == Spec => JamsReplaced
<1>1. ASSUME JamInv, [Next]_vars
      PROVE  \A u \in live' \ {Bot} :
                /\ MadeFor(u) # {} => MadeFor(u)' # {}
                /\ u \notin twins' => Cardinality(MadeFor(u)') <= 1
  <2>1. JamInv' /\ Replaces
    BY <1>1, JamStep
  <2>2. ASSUME NEW u \in live' \ {Bot}, u \notin twins'
        PROVE  Cardinality(MadeFor(u)') <= 1
    <3> DEFINE S == MadeFor(u)'
    <3>1. \A o, p \in S : o = p
      BY <2>1, <2>2 DEF JamInv, Single
    <3> HIDE DEF S
    <3>2. Cardinality(S) <= 1
      BY <3>1, OneMade
    <3> QED
      BY <3>2 DEF S
  <2> QED
    BY <2>1, <2>2 DEF Replaces
<1>2. JamInv /\ [Next]_vars => JamInv'
  BY JamStep
<1> QED
  BY <1>1, <1>2, JamInit, PTL DEF Spec, JamsReplaced

-----------------------------------------------------------------------------
(* Lists.  A table with the positions 0 to n - 1 shows one sequence, and   *)
(* the statements edit it as PlaylistLists says.                           *)

Item(t) == [mbid |-> t.mbid, by |-> t.by]

Shows(T, s) ==
    /\ s \in Seq(Recording) /\ Lined(T, Len(s))
    /\ \A t \in T : s[t.pos + 1] = Item(t)

LEMMA ShowsOne ==
  ASSUME NEW T, NEW s, NEW z, Shows(T, s), Shows(T, z)
  PROVE  s = z
<1>1. /\ s \in Seq(Recording) /\ Lined(T, Len(s)) /\ \A t \in T : s[t.pos + 1] = Item(t)
      /\ z \in Seq(Recording) /\ Lined(T, Len(z)) /\ \A t \in T : z[t.pos + 1] = Item(t)
  BY DEF Shows
<1>2. Len(s) = Cardinality(T) /\ Len(z) = Cardinality(T) /\ Len(s) \in Nat
  BY <1>1, LinedSize, LenProperties
<1>3. ASSUME NEW i \in 1..Len(s)
      PROVE  s[i] = z[i]
  <2>1. i - 1 \in 0..(Len(s) - 1) /\ (i - 1) + 1 = i
    BY <1>2
  <2>2. PICK t \in T : t.pos = i - 1
    BY <1>1, <2>1 DEF Lined
  <2> QED
    BY <1>1, <2>1, <2>2
<1> QED
  BY <1>1, <1>2, <1>3, SeqEqual

\* What the API lists is the sequence that the table shows.
LEMMA ListShown ==
  ASSUME NEW T, NEW n, Lined(T, n), NEW U \in SUBSET Everyone, TableOK(T, U)
  PROVE  Shows(T, get_recordings_for_playlists(T)) /\ Len(get_recordings_for_playlists(T)) = n
<1> DEFINE s == get_recordings_for_playlists(T)
           row(k) == CHOOSE t \in T : Cardinality({o \in T : Before(o, t)}) = k - 1
<1>1. /\ n \in Nat /\ Cardinality(T) = n
      /\ \A t \in T : t.pos \in 0..(n - 1) /\ t.id \in Nat
      /\ \A i \in 0..(n - 1) : \E t \in T : t.pos = i
      /\ \A o, t \in T : o.pos = t.pos => o = t
  BY LinedSize DEF Lined, TableOK, TracksOf
<1>2. ASSUME NEW t \in T
      PROVE  Cardinality({o \in T : Before(o, t)}) = t.pos
  <2> DEFINE W == {o \in T : Before(o, t)}
  <2>1. W = {o \in T : o.pos < t.pos}
    BY <1>1 DEF Before
  <2>2. t.pos \in Nat /\ t.pos <= n
    BY <1>1
  <2> HIDE DEF W
  <2>3. Lined(W, t.pos)
    BY <1>1, <2>1, <2>2 DEF Lined
  <2>4. Cardinality(W) = t.pos
    BY <2>3, LinedSize
  <2> QED
    BY <2>4 DEF W
<1>3. ASSUME NEW t \in T
      PROVE  row(t.pos + 1) = t
  <2>1. t.pos \in Nat /\ (t.pos + 1) - 1 = t.pos
    BY <1>1
  <2>2. \A o \in T : Cardinality({v \in T : Before(v, o)}) = (t.pos + 1) - 1 => o = t
    BY <1>1, <1>2, <2>1
  <2>3. Cardinality({v \in T : Before(v, t)}) = (t.pos + 1) - 1
    BY <1>2, <2>1
  <2> QED
    BY <2>2, <2>3
<1>4. s = [k \in 1..n |-> [mbid |-> row(k).mbid, by |-> row(k).by]]
  BY <1>1 DEF get_recordings_for_playlists
<1> HIDE DEF row
<1>5. \A t \in T : s[t.pos + 1] = Item(t)
  BY <1>1, <1>3, <1>4 DEF Item
<1>6. s \in Seq(Recording)
  <2>1. s \in Seq([mbid : Mbids, by : U])
    BY ListOK
  <2>2. [mbid : Mbids, by : U] \subseteq Recording
    BY DEF Recording
  <2> QED
    BY <2>1, <2>2, SeqMonotonic
<1>7. Len(s) = n
  BY <1>1, <1>4, <1>6, LenProperties
<1> QED
  BY <1>5, <1>6, <1>7 DEF Shows

LEMMA EndShown ==
  ASSUME NEW s \in Seq(Recording), NEW first \in Nat \ {0}
  PROVE  LET b == SubSeq(s, first, Len(s))
         IN  /\ b \in Seq(Recording) /\ Len(b) = IF first <= Len(s) THEN Len(s) - first + 1 ELSE 0
             /\ \A i \in 1..(Len(s) - first + 1) : b[i] = s[first + i - 1]
<1>1. PICK l \in Nat : l = Len(s)
  BY LenProperties
<1>2. first \in Int /\ l \in Int /\ \A i \in first..l : s[i] \in Recording
  BY <1>1, ElementOfSeq
<1>3. /\ SubSeq(s, first, l) \in Seq(Recording)
      /\ Len(SubSeq(s, first, l)) = IF first <= l THEN l - first + 1 ELSE 0
      /\ \A i \in 1..(l - first + 1) : SubSeq(s, first, l)[i] = s[first + i - 1]
  BY <1>2, SubSeqProperties
<1> QED
  BY <1>1, <1>3

LEMMA InsertedElements ==
  ASSUME NEW s \in Seq(Recording), NEW items \in Seq(Recording), NEW at \in 0..Len(s)
  PROVE  LET U == Lists!InsertedAt(s, at, items)
         IN  /\ U \in Seq(Recording) /\ Len(U) = Len(s) + Len(items)
             /\ \A i \in 1..at : U[i] = s[i]
             /\ \A i \in 1..Len(items) : U[at + i] = items[i]
             /\ \A i \in (at + 1)..Len(s) : U[i + Len(items)] = s[i]
<1> DEFINE a == SubSeq(s, 1, at)
           b == SubSeq(s, at + 1, Len(s))
<1>1. Len(s) \in Nat /\ Len(items) \in Nat /\ at \in Nat /\ at <= Len(s)
  BY LenProperties
<1>2. Lists!InsertedAt(s, at, items) = a \o items \o b
  <2>1. Lists!Least(at, Len(s)) = at
    BY <1>1 DEF Lists!Least
  <2> QED
    BY <2>1 DEF Lists!InsertedAt
<1>3. \A i \in 1..Len(s) : s[i] \in Recording
  BY ElementOfSeq
<1>4. a \in Seq(Recording) /\ Len(a) = at /\ \A i \in 1..at : a[i] = s[i]
  <2>1. \A i \in 1..at : s[i] \in Recording
    BY <1>1, <1>3
  <2> QED
    BY <1>1, <2>1, SubSeqProperties
<1>5. b \in Seq(Recording) /\ Len(b) = Len(s) - at /\ \A i \in 1..(Len(s) - at) : b[i] = s[at + i]
  <2>1. PICK first \in Nat \ {0} : first = at + 1
    BY <1>1
  <2>2. /\ SubSeq(s, first, Len(s)) \in Seq(Recording)
        /\ Len(SubSeq(s, first, Len(s))) = IF first <= Len(s) THEN Len(s) - first + 1 ELSE 0
        /\ \A i \in 1..(Len(s) - first + 1) : SubSeq(s, first, Len(s))[i] = s[first + i - 1]
    BY EndShown
  <2> QED
    BY <1>1, <2>1, <2>2
<1> HIDE DEF a, b
<1> DEFINE c == a \o items
           U == c \o b
<1>6. /\ c \in Seq(Recording) /\ Len(c) = at + Len(items)
      /\ \A i \in 1..(at + Len(items)) : c[i] = IF i <= at THEN a[i] ELSE items[i - at]
  BY <1>4, ConcatProperties
<1> HIDE DEF c
<1>7. /\ U \in Seq(Recording) /\ Len(U) = Len(c) + Len(b)
      /\ \A i \in 1..(Len(c) + Len(b)) : U[i] = IF i <= Len(c) THEN c[i] ELSE b[i - Len(c)]
  BY <1>5, <1>6, ConcatProperties
<1> HIDE DEF U
<1>8. Len(U) = Len(s) + Len(items)
  BY <1>1, <1>5, <1>6, <1>7
<1>9. ASSUME NEW i \in 1..at
      PROVE  U[i] = s[i]
  <2>1. i \in 1..(Len(c) + Len(b)) /\ i \in 1..(at + Len(items)) /\ i <= Len(c) /\ i <= at
    BY <1>1, <1>5, <1>6
  <2>2. U[i] = c[i]
    BY <1>7, <2>1
  <2>3. c[i] = a[i]
    BY <1>6, <2>1
  <2> QED
    BY <1>4, <2>2, <2>3
<1>10. ASSUME NEW i \in 1..Len(items)
       PROVE  U[at + i] = items[i]
  <2>1. at + i \in 1..(at + Len(items)) /\ (at + i) - at = i /\ ~(at + i <= at) /\ at + i \in 1..(Len(c) + Len(b))
    BY <1>1, <1>5, <1>6
  <2> QED
    BY <1>6, <1>7, <2>1
<1>11. ASSUME NEW i \in (at + 1)..Len(s)
       PROVE  U[i + Len(items)] = s[i]
  <2>1. /\ i + Len(items) \in 1..(Len(c) + Len(b)) /\ ~(i + Len(items) <= Len(c))
        /\ (i + Len(items)) - Len(c) = i - at /\ i - at \in 1..(Len(s) - at) /\ at + (i - at) = i
    BY <1>1, <1>5, <1>6
  <2>2. U[i + Len(items)] = b[i - at]
    BY <1>7, <2>1
  <2>3. b[i - at] = s[i]
    BY <1>5, <2>1
  <2> QED
    BY <2>2, <2>3
<1>12. Lists!InsertedAt(s, at, items) = U
  BY <1>2 DEF U, c
<1> QED
  BY <1>7, <1>8, <1>9, <1>10, <1>11, <1>12

LEMMA RemovedElements ==
  ASSUME NEW s \in Seq(Recording), NEW from \in 0..(Len(s) - 1), NEW count \in Nat \ {0}
  PROVE  LET U == Lists!RangeRemoved(s, from, count)
         IN  /\ U \in Seq(Recording) /\ Len(U) = Len(s) - (Smaller(from + count, Len(s)) - from)
             /\ \A i \in 1..from : U[i] = s[i]
             /\ \A i \in (from + count + 1)..Len(s) : U[i - count] = s[i]
<1> DEFINE a == SubSeq(s, 1, from)
           b == SubSeq(s, from + count + 1, Len(s))
           rest == IF from + count < Len(s) THEN Len(s) - (from + count) ELSE 0
           U == a \o b
<1>1. Len(s) \in Nat /\ from \in Nat /\ from < Len(s) /\ from + count \in Nat /\ rest \in Nat
  BY LenProperties
<1>2. Lists!RangeRemoved(s, from, count) = U
  BY DEF Lists!RangeRemoved
<1>3. \A i \in 1..Len(s) : s[i] \in Recording
  BY ElementOfSeq
<1>4. a \in Seq(Recording) /\ Len(a) = from /\ \A i \in 1..from : a[i] = s[i]
  <2>1. \A i \in 1..from : s[i] \in Recording
    BY <1>1, <1>3
  <2> QED
    BY <1>1, <2>1, SubSeqProperties
<1>5. b \in Seq(Recording) /\ Len(b) = rest /\ \A i \in 1..rest : b[i] = s[from + count + i]
  <2>1. PICK first \in Nat \ {0} : first = from + count + 1
    BY <1>1
  <2>2. /\ SubSeq(s, first, Len(s)) \in Seq(Recording)
        /\ Len(SubSeq(s, first, Len(s))) = IF first <= Len(s) THEN Len(s) - first + 1 ELSE 0
        /\ \A i \in 1..(Len(s) - first + 1) : SubSeq(s, first, Len(s))[i] = s[first + i - 1]
    BY EndShown
  <2>3. b = SubSeq(s, first, Len(s))
    BY <2>1
  <2> HIDE DEF b
  <2>4. CASE from + count < Len(s)
    <3>1. first <= Len(s) /\ rest = Len(s) - first + 1
      BY <1>1, <2>1, <2>4
    <3>2. \A i \in 1..rest : first + i - 1 = from + count + i
      BY <1>1, <2>1
    <3> HIDE DEF rest
    <3> QED
      BY <2>2, <2>3, <3>1, <3>2
  <2>5. CASE ~(from + count < Len(s))
    BY <1>1, <2>1, <2>2, <2>3, <2>5
  <2> QED
    BY <2>4, <2>5
<1> HIDE DEF a, b
<1>6. /\ U \in Seq(Recording) /\ Len(U) = from + Len(b)
      /\ \A i \in 1..(from + Len(b)) : U[i] = IF i <= from THEN a[i] ELSE b[i - from]
  BY <1>4, <1>5, ConcatProperties
<1> HIDE DEF U
<1>7. Len(U) = Len(s) - (Smaller(from + count, Len(s)) - from)
  BY <1>1, <1>5, <1>6 DEF Smaller
<1>8. ASSUME NEW i \in 1..from
      PROVE  U[i] = s[i]
  <2>1. i \in 1..(from + Len(b)) /\ i <= from
    BY <1>1, <1>5
  <2>2. U[i] = a[i]
    BY <1>6, <2>1
  <2> QED
    BY <1>4, <2>2
<1>9. ASSUME NEW i \in (from + count + 1)..Len(s)
      PROVE  U[i - count] = s[i]
  <2>1. rest = Len(s) - (from + count) /\ i - (from + count) \in 1..rest
    BY <1>1
  <2>2. /\ i - count \in 1..(from + Len(b)) /\ ~(i - count <= from)
        /\ (i - count) - from = i - (from + count) /\ from + count + (i - (from + count)) = i
    BY <1>1, <1>5, <2>1
  <2>3. U[i - count] = b[i - (from + count)]
    BY <1>6, <2>2
  <2>4. b[i - (from + count)] = s[i]
    BY <1>5, <2>1, <2>2
  <2> QED
    BY <2>3, <2>4
<1> QED
  BY <1>2, <1>6, <1>7, <1>8, <1>9

\* A shifted row shows what it showed.
LEMMA ReorderedItems ==
  ASSUME NEW T, NEW from \in Int, NEW by \in Int
  PROVE  \A v \in Reordered(T, from, by) : \E t \in T :
            /\ Item(v) = Item(t)
            /\ v.pos = IF t.pos >= from THEN t.pos + by ELSE t.pos
<1> DEFINE Moved(t) == IF t.pos >= from THEN [id |-> t.id, mbid |-> t.mbid, by |-> t.by, pos |-> t.pos + by]
                                        ELSE t
<1>1. Reordered(T, from, by) = {Moved(t) : t \in T}
  BY DEF Reordered
<1>2. \A t \in T : /\ Moved(t).pos = IF t.pos >= from THEN t.pos + by ELSE t.pos
                   /\ Moved(t).mbid = t.mbid /\ Moved(t).by = t.by
  OBVIOUS
<1> HIDE DEF Moved
<1> QED
  BY <1>1, <1>2 DEF Item

\* An inserted row shows the recording that was sent.
LEMMA InsertedItems ==
  ASSUME NEW T, NEW items \in Seq(Recording), NEW at \in Nat
  PROVE  \A v \in insert_recordings(T, items, at) :
            v \in T \/ \E k \in 1..Len(items) : Item(v) = items[k] /\ v.pos = at + k - 1
<1> DEFINE Placed(k) == [id |-> FirstId(T) + k - 1, mbid |-> items[k].mbid, by |-> items[k].by, pos |-> at + k - 1]
<1>1. DOMAIN items = 1..Len(items) /\ Len(items) \in Nat
  BY LenProperties
<1>2. insert_recordings(T, items, at) = T \cup {Placed(k) : k \in 1..Len(items)}
  BY <1>1 DEF insert_recordings
<1>3. ASSUME NEW k \in 1..Len(items)
      PROVE  Item(Placed(k)) = items[k] /\ Placed(k).pos = at + k - 1
  <2>1. items[k] \in Recording
    BY ElementOfSeq
  <2>2. Placed(k).mbid = items[k].mbid /\ Placed(k).by = items[k].by /\ Placed(k).pos = at + k - 1
    OBVIOUS
  <2> HIDE DEF Placed
  <2> QED
    BY <2>1, <2>2 DEF Item, Recording
<1> HIDE DEF Placed
<1> QED
  BY <1>2, <1>3

LEMMA AddedShows ==
  ASSUME NEW T, NEW s, Shows(T, s), NEW items \in Seq(Recording), NEW at \in 0..Len(s)
  PROVE  Shows(add_recordings_to_playlist(T, Len(s), items, at), Lists!InsertedAt(s, at, items))
<1> DEFINE n == Len(s)
           W == IF at < n THEN Reordered(T, at, Len(items)) ELSE T
           V == add_recordings_to_playlist(T, n, items, at)
           U == Lists!InsertedAt(s, at, items)
<1>1. /\ s \in Seq(Recording) /\ Lined(T, n) /\ \A t \in T : s[t.pos + 1] = Item(t)
      /\ n \in Nat /\ Len(items) \in Nat /\ DOMAIN items = 1..Len(items) /\ at \in Nat /\ at <= n
      /\ \A t \in T : t.pos \in 0..(n - 1)
  BY LenProperties DEF Shows, Lined
<1>2. /\ U \in Seq(Recording) /\ Len(U) = n + Len(items)
      /\ \A i \in 1..at : U[i] = s[i]
      /\ \A i \in 1..Len(items) : U[at + i] = items[i]
      /\ \A i \in (at + 1)..n : U[i + Len(items)] = s[i]
  BY <1>1, InsertedElements
<1>3. V = insert_recordings(W, items, at)
  BY <1>1 DEF add_recordings_to_playlist
<1>4. Lined(V, n + Len(items))
  BY <1>1, AddedLined
<1>5. \A v \in V : v \in W \/ \E k \in 1..Len(items) : Item(v) = items[k] /\ v.pos = at + k - 1
  BY <1>1, <1>3, InsertedItems
<1>6. \A v \in W : \E t \in T : Item(v) = Item(t) /\ v.pos = IF t.pos >= at THEN t.pos + Len(items) ELSE t.pos
  <2>1. CASE at < n
    BY <1>1, <2>1, ReorderedItems
  <2>2. CASE ~(at < n)
    BY <1>1, <2>2
  <2> QED
    BY <2>1, <2>2
<1> HIDE DEF n, W, V, U
<1>7. ASSUME NEW v \in V
      PROVE  U[v.pos + 1] = Item(v)
  <2>1. CASE v \in W
    <3>1. PICK t \in T : Item(v) = Item(t) /\ v.pos = IF t.pos >= at THEN t.pos + Len(items) ELSE t.pos
      BY <1>6, <2>1
    <3>2. s[t.pos + 1] = Item(t) /\ t.pos \in 0..(n - 1)
      BY <1>1
    <3>3. CASE t.pos >= at
      <4>1. t.pos + 1 \in (at + 1)..n /\ v.pos + 1 = (t.pos + 1) + Len(items)
        BY <1>1, <3>1, <3>2, <3>3
      <4> QED
        BY <1>2, <3>1, <3>2, <4>1
    <3>4. CASE ~(t.pos >= at)
      <4>1. t.pos + 1 \in 1..at /\ v.pos = t.pos
        BY <1>1, <3>1, <3>2, <3>4
      <4> QED
        BY <1>2, <3>1, <3>2, <4>1
    <3> QED
      BY <3>3, <3>4
  <2>2. ASSUME NEW k \in 1..Len(items), Item(v) = items[k], v.pos = at + k - 1
        PROVE  U[v.pos + 1] = Item(v)
    <3>1. v.pos + 1 = at + k
      BY <1>1, <2>2
    <3> QED
      BY <1>2, <2>2, <3>1
  <2> QED
    BY <1>5, <2>1, <2>2
<1>8. Shows(V, U)
  BY <1>2, <1>4, <1>7 DEF Shows
<1> QED
  BY <1>8 DEF V, U, n

LEMMA DeletedShows ==
  ASSUME NEW T, NEW s, Shows(T, s), NEW from \in 0..(Len(s) - 1), NEW count \in Nat \ {0}
  PROVE  Shows(delete_recordings_from_playlist(T, Len(s), from, count), Lists!RangeRemoved(s, from, count))
<1> DEFINE n == Len(s)
           kept == {t \in T : ~(from <= t.pos /\ t.pos < from + count)}
           V == delete_recordings_from_playlist(T, n, from, count)
           U == Lists!RangeRemoved(s, from, count)
<1>1. /\ s \in Seq(Recording) /\ Lined(T, n) /\ \A t \in T : s[t.pos + 1] = Item(t)
      /\ n \in Nat /\ from \in Nat /\ count \in Nat /\ from + count \in Int /\ -count \in Int
      /\ \A t \in T : t.pos \in 0..(n - 1)
  BY LenProperties DEF Shows, Lined
<1>2. /\ U \in Seq(Recording) /\ Len(U) = n - (Smaller(from + count, n) - from)
      /\ \A i \in 1..from : U[i] = s[i]
      /\ \A i \in (from + count + 1)..n : U[i - count] = s[i]
  BY <1>1, RemovedElements
<1>3. Lined(V, n - (Smaller(from + count, n) - from))
  BY <1>1, DeletedLined
<1>4. \A v \in V : \E t \in kept : Item(v) = Item(t) /\ v.pos = IF t.pos >= from + count THEN t.pos + (-count) ELSE t.pos
  <2>1. CASE from + count < n
    <3>1. V = Reordered(kept, from + count, -count)
      BY <2>1 DEF delete_recordings_from_playlist
    <3> HIDE DEF kept, V
    <3> QED
      BY <1>1, <3>1, ReorderedItems
  <2>2. CASE ~(from + count < n)
    <3>1. V = kept
      BY <2>2 DEF delete_recordings_from_playlist
    <3>2. \A t \in kept : ~(t.pos >= from + count)
      BY <1>1, <2>2
    <3> HIDE DEF kept, V
    <3> QED
      BY <3>1, <3>2
  <2> QED
    BY <2>1, <2>2
<1>5. \A t \in kept : t \in T /\ (t.pos < from \/ t.pos >= from + count)
  BY <1>1
<1> HIDE DEF n, kept, V, U
<1>6. ASSUME NEW v \in V
      PROVE  U[v.pos + 1] = Item(v)
  <2>1. PICK t \in kept : Item(v) = Item(t) /\ v.pos = IF t.pos >= from + count THEN t.pos + (-count) ELSE t.pos
    BY <1>4
  <2>2. s[t.pos + 1] = Item(t) /\ t.pos \in 0..(n - 1)
    BY <1>1, <1>5
  <2>3. CASE t.pos >= from + count
    <3>1. v.pos = t.pos - count
      BY <1>1, <2>1, <2>2, <2>3
    <3>2. t.pos + 1 \in (from + count + 1)..n /\ v.pos + 1 = (t.pos + 1) - count
      BY <1>1, <2>2, <2>3, <3>1
    <3> QED
      BY <1>2, <2>1, <2>2, <3>2
  <2>4. CASE t.pos < from
    <3>1. t.pos + 1 \in 1..from /\ v.pos = t.pos
      BY <1>1, <2>1, <2>2, <2>4
    <3> QED
      BY <1>2, <2>1, <2>2, <3>1
  <2> QED
    BY <1>5, <2>3, <2>4
<1>7. Shows(V, U)
  BY <1>2, <1>3, <1>6 DEF Shows
<1> QED
  BY <1>7 DEF V, U, n

-----------------------------------------------------------------------------
(* What a request asks for.                                                *)

LEMMA AskedKinds ==
  ASSUME NEW r \in Request
  PROVE  /\ r.op \in {"idle", "create"} => AskedOf(r) = Idle
         /\ r.op = "edit" => AskedOf(r) = [op |-> "edit", pl |-> r.pl, public |-> r.asks]
         /\ r.op = "add" => AskedOf(r) = [op |-> "add", pl |-> r.pl, at |-> r.at, items |-> r.items]
         /\ r.op = "put" => AskedOf(r) = [op |-> "put", pl |-> r.pl, to |-> r.to, items |-> r.items]
         /\ r.op = "delete" => AskedOf(r) = [op |-> "delete", pl |-> r.pl, from |-> r.from, count |-> r.count]
         /\ r.op = "take" => AskedOf(r) = [op |-> "take", pl |-> r.pl, from |-> r.from, count |-> r.count, to |-> r.to]
<1>1. r.op \in {"idle", "create"} => AskedOf(r) = Idle
  BY DEF AskedOf
<1>2. r.op = "edit" => AskedOf(r) = [op |-> "edit", pl |-> r.pl, public |-> r.asks]
  BY DEF AskedOf
<1>3. ASSUME r.op = "add"
      PROVE  AskedOf(r) = [op |-> "add", pl |-> r.pl, at |-> r.at, items |-> r.items]
  <2>1. r \in [op : {"add"}, pl : Playlists, known : Nat, at : Int, items : Seq(Recording)]
    BY <1>3 DEF Request, Idle
  <2>2. AskedOf(r) = [x \in DOMAIN r \ {"known"} |-> r[x]]
    BY <1>3 DEF AskedOf
  <2> QED
    BY <2>1, <2>2
<1>4. ASSUME r.op = "put"
      PROVE  AskedOf(r) = [op |-> "put", pl |-> r.pl, to |-> r.to, items |-> r.items]
  <2>1. r \in [op : {"put"}, pl : Playlists, known : Nat, to : Nat, items : Seq(Recording)]
    BY <1>4 DEF Request, Idle
  <2>2. AskedOf(r) = [x \in DOMAIN r \ {"known"} |-> r[x]]
    BY <1>4 DEF AskedOf
  <2> QED
    BY <2>1, <2>2
<1>5. ASSUME r.op = "delete"
      PROVE  AskedOf(r) = [op |-> "delete", pl |-> r.pl, from |-> r.from, count |-> r.count]
  <2>1. r \in [op : {"delete"}, pl : Playlists, known : Nat, from : Nat, count : 1..2]
    BY <1>5 DEF Request, Idle
  <2>2. AskedOf(r) = [x \in DOMAIN r \ {"known"} |-> r[x]]
    BY <1>5 DEF AskedOf
  <2> QED
    BY <2>1, <2>2
<1>6. ASSUME r.op = "take"
      PROVE  AskedOf(r) = [op |-> "take", pl |-> r.pl, from |-> r.from, count |-> r.count, to |-> r.to]
  <2>1. r \in [op : {"take"}, pl : Playlists, known : Nat, from : Nat, count : 1..2, to : Nat,
               items : Seq(Recording)]
    BY <1>6 DEF Request, Idle
  <2>2. AskedOf(r) = [x \in DOMAIN r \ {"known", "items"} |-> r[x]]
    BY <1>6 DEF AskedOf
  <2> QED
    BY <2>1, <2>2
<1> QED
  BY <1>1, <1>2, <1>3, <1>4, <1>5, <1>6

LEMMA AskedIs ==
  ASSUME NEW q
  PROVE  Asked(q) = AskedOf(req[q]) /\ Asked(q)' = AskedOf(req'[q])
  BY DEF Asked

LEMMA NothingAsked == Idle.op = "idle" /\ AskedOf(Idle) = Idle
  BY DEF Idle, AskedOf

\* Whoever asks for an edit of a playlist is not idle.
LEMMA AskedSomething ==
  ASSUME NEW r \in Request, r.op \notin {"idle", "create"}
  PROVE  AskedOf(r) # Idle /\ AskedOf(r).pl = r.pl /\ AskedOf(r).op = r.op /\ r.pl \in Playlists
<1>1. r.op \in {"edit", "add", "put", "delete", "take"} /\ r.pl \in Playlists
  BY DEF Request, Idle
<1> QED
  BY <1>1, AskedKinds DEF Idle

-----------------------------------------------------------------------------
(* The mapping. *)

Why == {"overlap", "hole"}

LEMMA ListedIs ==
  ASSUME NEW p \in Playlists
  PROVE  /\ TypeInv => Listed(p, Why) = IF upset[p] # {} THEN Unknown
                        ELSE IF Exists(p) THEN get_recordings_for_playlists(playlist[p].tracks) ELSE Absent
         /\ TypeInv' => Listed(p, Why)' = IF upset'[p] # {} THEN Unknown
                        ELSE IF playlist'[p] # Absent THEN get_recordings_for_playlists(playlist'[p].tracks) ELSE Absent
<1>1. ASSUME TypeInv
      PROVE  Listed(p, Why) = IF upset[p] # {} THEN Unknown
                              ELSE IF Exists(p) THEN get_recordings_for_playlists(playlist[p].tracks) ELSE Absent
  <2>1. upset[p] \subseteq Why
    BY <1>1 DEF TypeInv, Why
  <2> QED
    BY <2>1 DEF Listed
<1>2. ASSUME TypeInv'
      PROVE  Listed(p, Why)' = IF upset'[p] # {} THEN Unknown
                        ELSE IF playlist'[p] # Absent THEN get_recordings_for_playlists(playlist'[p].tracks) ELSE Absent
  <2>1. upset'[p] \subseteq Why
    BY <1>2 DEF TypeInv, Why
  <2> QED
    BY <2>1 DEF Listed, Exists
<1> QED
  BY <1>1, <1>2

LEMMA Performs ==
  ASSUME NEW q \in Requests, NEW p \in Playlists, Asked(q) # Idle, Asked(q).pl = p,
         \A o \in Playlists \ {p} : Listed(o, Why)' = Listed(o, Why) /\ Shared(o)' = Shared(o),
         \A o \in Requests \ {q} : Asked(o)' = Asked(o),
         \/ Listed(p, Why)' = Unknown
         \/ /\ Listed(p, Why) \notin {Absent, Unknown}
            /\ Listed(p, Why)' = Lists!Edited(Listed(p, Why), Asked(q))
            /\ Asked(q)' = Lists!Rest(Listed(p, Why), Asked(q))
            /\ Shared(p)' = IF Asked(q).op = "edit"
                            THEN Asked(q).public = "yes" \/ (Shared(p) /\ Asked(q).public = "same") ELSE Shared(p)
  PROVE  Lists!Perform(q)
  BY DEF Lists!Perform, Why

-----------------------------------------------------------------------------
(* What a request has read and will write back.                            *)

Remembers(r, row) ==
    /\ r.op = "take" => r.items = SubSeq(get_recordings_for_playlists(row.tracks), r.from + 1,
                                         Smaller(r.from + r.count, r.known))
    /\ r.op = "edit" => (r.public <=> r.asks = "yes" \/ (r.asks = "same" /\ row.public))

Remembered ==
    \A q \in Requests, p \in Playlists :
        Edits(q, p) /\ playlist[p] # Absent /\ upset[p] = {} => Remembers(req[q], playlist[p])

ListInv == Inductive /\ TypeInv /\ Remembered

\* As long as the playlist stays as it is, or is upset.
LEMMA StillRemembered ==
  ASSUME ListInv,
         \A q \in Requests : req'[q] = req[q] \/ req'[q].op \notin {"take", "edit"},
         \A q \in Requests, p \in Playlists :
            Edits(q, p) /\ req'[q] = req[q] /\ playlist'[p] # Absent /\ upset'[p] = {} =>
               /\ playlist[p] # Absent /\ upset[p] = {}
               /\ playlist'[p].tracks = playlist[p].tracks /\ playlist'[p].public = playlist[p].public
  PROVE  Remembered'
<1> SUFFICES ASSUME NEW q \in Requests, NEW p \in Playlists, Edits(q, p)', playlist'[p] # Absent, upset'[p] = {}
             PROVE  Remembers(req'[q], playlist'[p])
  BY DEF Remembered
<1>1. CASE req'[q] = req[q]
  <2>1. Edits(q, p)
    BY <1>1 DEF Edits
  <2>2. /\ playlist[p] # Absent /\ upset[p] = {}
        /\ playlist'[p].tracks = playlist[p].tracks /\ playlist'[p].public = playlist[p].public
    BY <1>1, <2>1
  <2>3. Remembers(req[q], playlist[p])
    BY <2>1, <2>2 DEF ListInv, Remembered
  <2> QED
    BY <1>1, <2>2, <2>3 DEF Remembers
<1>2. CASE req'[q].op \notin {"take", "edit"}
  BY <1>2 DEF Remembers
<1> QED
  BY <1>1, <1>2

\* A list that nothing has upset is shown by its table.
LEMMA ShownList ==
  ASSUME ListInv, NEW p \in Playlists, Exists(p), upset[p] = {}
  PROVE  LET T == playlist[p].tracks
             s == get_recordings_for_playlists(T)
         IN  Shows(T, s) /\ s \in Seq(Recording) /\ s \notin {Absent, Unknown} /\ Lined(T, Len(s))
<1> DEFINE T == playlist[p].tracks
           s == get_recordings_for_playlists(T)
<1>1. PICK n \in Nat : Lined(T, n)
  BY DEF ListInv, Inductive, Rows, RowOK
<1>2. TableOK(T, live) /\ live \in SUBSET Everyone
  BY DEF ListInv, TypeInv, PlaylistOK, RowFits
<1> HIDE DEF T
<1>3. Shows(T, s)
  BY <1>1, <1>2, ListShown
<1>4. s \in Seq(Recording) /\ Lined(T, Len(s))
  BY <1>3 DEF Shows
<1>5. s \notin {Absent, Unknown}
  BY <1>4, AbsentAssumption, UnknownAssumption
<1> QED
  BY <1>3, <1>4, <1>5 DEF T

\* A table that shows a sequence is listed as that sequence.
LEMMA ListedAsShown ==
  ASSUME NEW T, NEW U \in SUBSET Everyone, TableOK(T, U), NEW z, Shows(T, z)
  PROVE  get_recordings_for_playlists(T) = z
<1>1. Lined(T, Len(z))
  BY DEF Shows
<1>2. Shows(T, get_recordings_for_playlists(T))
  BY <1>1, ListShown
<1> QED
  BY <1>2, ShowsOne

\* A transaction that writes recordings performs what its request asks.
LEMMA WritePerforms ==
  ASSUME ListInv, TypeInv', NEW q \in Requests, NEW p \in Playlists, Edits(q, p), Exists(p),
         req[q].op \in {"add", "delete", "take", "put"},
         NEW T, NEW why, WriteTracks(p, T, why), playlist'[p] # Absent,
         NEW r \in Request, r.op \notin {"take", "edit"}, r.op # req[q].op, req' = [req EXCEPT ![q] = r],
         upset[p] = {} /\ upset'[p] = {} =>
            LET s == get_recordings_for_playlists(playlist[p].tracks)
            IN  /\ Shows(T, Lists!Edited(s, AskedOf(req[q])))
                /\ AskedOf(r) = Lists!Rest(s, AskedOf(req[q]))
  PROVE  Lists!Perform(q) /\ Remembered'
<1> DEFINE s == get_recordings_for_playlists(playlist[p].tracks)
<1>1. /\ UNCHANGED last /\ playlist' = [playlist EXCEPT ![p].tracks = T]
      /\ upset' = [upset EXCEPT ![p] = @ \cup why]
  BY DEF WriteTracks
<1>2. /\ \A o \in Playlists \ {p} : upset'[o] = upset[o] /\ playlist'[o] = playlist[o]
      /\ upset[p] \subseteq upset'[p]
  BY <1>1 DEF ListInv, Inductive, Tables
<1>3. playlist'[p].tracks = T /\ playlist'[p].public = playlist[p].public
  <2>1. IsRow(playlist[p])
    BY DEF ListInv, Inductive, Rows, RowOK
  <2>2. playlist'[p] = [playlist[p] EXCEPT !.tracks = T]
    BY <1>1 DEF ListInv, Inductive, Tables
  <2> QED
    BY <2>1, <2>2 DEF IsRow, Columns
<1>4. req'[q] = r /\ \A o \in Requests \ {q} : req'[o] = req[o]
  BY DEF ListInv, Inductive, Tables
<1>5. req[q] \in Request
  BY DEF ListInv, TypeInv
<1>6. /\ AskedOf(req[q]) # Idle /\ AskedOf(req[q]).pl = p /\ AskedOf(req[q]).op # "edit"
  BY <1>5, AskedSomething DEF Edits
<1>7. Remembered'
  <2>1. \A o \in Requests : req'[o] = req[o] \/ req'[o].op \notin {"take", "edit"}
    BY <1>4
  <2>2. ASSUME NEW o \in Requests, Edits(o, p), req'[o] = req[o], upset'[p] = {}
        PROVE  FALSE
    <3>1. o # q
      BY <1>4, <2>2
    <3>2. upset[p] = {}
      BY <1>2, <2>2
    <3> QED
      BY <2>2, <3>1, <3>2 DEF ListInv, Inductive, Alone
  <2>3. \A o \in Requests, k \in Playlists :
            Edits(o, k) /\ req'[o] = req[o] /\ playlist'[k] # Absent /\ upset'[k] = {} =>
               /\ playlist[k] # Absent /\ upset[k] = {}
               /\ playlist'[k].tracks = playlist[k].tracks /\ playlist'[k].public = playlist[k].public
    BY <1>2, <2>2
  <2> QED
    BY <2>1, <2>3, StillRemembered
<1>8. /\ \A o \in Playlists \ {p} : Listed(o, Why)' = Listed(o, Why) /\ Shared(o)' = Shared(o)
      /\ Shared(p)' = Shared(p)
  <2>1. ASSUME NEW o \in Playlists \ {p}
        PROVE  Listed(o, Why)' = Listed(o, Why)
    BY <1>2 DEF Listed, Exists
  <2> QED
    BY <1>2, <1>3, <2>1 DEF Shared, Exists
<1>9. /\ Asked(q) = AskedOf(req[q]) /\ Asked(q)' = AskedOf(r)
      /\ \A o \in Requests \ {q} : Asked(o)' = Asked(o)
  BY <1>4, AskedIs
<1>10. CASE upset'[p] # {}
  <2>1. Listed(p, Why)' = Unknown
    BY <1>10, ListedIs
  <2> QED
    BY <1>6, <1>7, <1>8, <1>9, <2>1, Performs
<1>11. CASE upset'[p] = {}
  <2>1. upset[p] = {}
    BY <1>2, <1>11
  <2>2. Listed(p, Why) = s /\ s \notin {Absent, Unknown}
    BY <2>1, ListedIs, ShownList DEF ListInv
  <2>3. Listed(p, Why)' = get_recordings_for_playlists(T)
    BY <1>3, <1>11, ListedIs
  <2>4. TableOK(T, live') /\ live' \in SUBSET Everyone
    BY <1>3 DEF TypeInv, PlaylistOK, RowFits, Exists
  <2>5. Shows(T, Lists!Edited(s, Asked(q))) /\ AskedOf(r) = Lists!Rest(s, Asked(q))
    BY <1>9, <1>11, <2>1
  <2>6. get_recordings_for_playlists(T) = Lists!Edited(s, Asked(q))
    BY <2>4, <2>5, ListedAsShown
  <2> QED
    BY <1>6, <1>7, <1>8, <1>9, <2>2, <2>3, <2>5, <2>6, Performs
<1> QED
  BY <1>10, <1>11

\* The length that a request knows is that of the list that nothing has upset.
LEMMA KnownLength ==
  ASSUME ListInv, NEW q \in Requests, NEW p \in Playlists, Edits(q, p), Exists(p), upset[p] = {}
  PROVE  LET T == playlist[p].tracks
             s == get_recordings_for_playlists(T)
         IN  /\ Shows(T, s) /\ s \in Seq(Recording) /\ Lined(T, Len(s))
             /\ req[q].op \in {"add", "delete", "take"} => Len(s) = req[q].known
             /\ req[q].op = "put" => Len(s) = req[q].known - Len(req[q].items)
<1> DEFINE T == playlist[p].tracks
           s == get_recordings_for_playlists(T)
<1>1. Shows(T, s) /\ s \in Seq(Recording) /\ Lined(T, Len(s))
  BY ShownList
<1>2. Fits(req[q], T)
  BY DEF ListInv, Inductive, RequestsFit
<1> HIDE DEF T, s
<1>3. Cardinality(T) = Len(s)
  BY <1>1, LinedSize
<1>4. req[q].op \in {"add", "delete", "take"} => Len(s) = req[q].known
  BY <1>2, <1>3, LinedSize DEF Fits
<1>5. req[q].op = "put" => Len(s) = req[q].known - Len(req[q].items)
  BY <1>2, <1>3, LinedSize DEF Fits
<1> QED
  BY <1>1, <1>4, <1>5 DEF T, s

LEMMA AddPerforms ==
  ASSUME ListInv, NEW q \in Requests, AddCommits(q) \/ MoveAdds(q)
  PROVE  Lists!Perform(q) /\ Remembered'
<1>1. PICK r, p, T, s : /\ r \in Request /\ r = req[q] /\ p = r.pl /\ T = playlist[p].tracks
                        /\ s = get_recordings_for_playlists(T)
  BY DEF ListInv, TypeInv
<1>2. TypeInv' /\ playlist'[p] # Absent
  BY <1>1, CommitTypes DEF ListInv, Written
<1>3. r.op \in {"add", "put"} /\ Exists(p) /\ req' = [req EXCEPT ![q] = Idle] /\ RequestOK(r, last)
  BY <1>1 DEF AddCommits, MoveAdds, CanInsert, Done, ListInv, Inductive, RequestsOK
<1>4. p \in Playlists /\ Edits(q, p) /\ r.items \in Seq(Recording) /\ r.known \in Nat
  BY <1>1, <1>3 DEF Request, Idle, Edits
<1>5. upset[p] = {} => /\ Shows(T, s) /\ s \in Seq(Recording) /\ Lined(T, Len(s)) /\ Len(s) \in Nat
                       /\ r.op = "add" => Len(s) = r.known
                       /\ r.op = "put" => Len(s) = r.known - Len(r.items)
  BY <1>1, <1>3, <1>4, KnownLength, LenProperties
<1>6. Idle \in Request /\ Idle.op = "idle" /\ AskedOf(Idle) = Idle
  BY DEF Request, Idle, AskedOf
<1>7. \A U, why : WriteTracks(p, U, why) => upset[p] \subseteq upset'[p] /\ why \subseteq upset'[p]
  BY <1>4 DEF WriteTracks, ListInv, Inductive, Tables
<1>8. CASE AddCommits(q)
  <2> DEFINE U == add_recordings_to_playlist(T, r.known, r.items, r.at)
             at == IF r.at < 0 THEN Len(s) ELSE r.at
  <2>1. r.op = "add" /\ WriteTracks(p, U, Hole(r.at > r.known)) /\ r.at \in -1..(r.known + 1)
    BY <1>1, <1>3, <1>8 DEF AddCommits, RequestOK
  <2>2. AskedOf(r) = [op |-> "add", pl |-> p, at |-> r.at, items |-> r.items]
    BY <1>1, <2>1, AskedKinds
  <2>3. ASSUME upset[p] = {}, upset'[p] = {}
        PROVE  Shows(U, Lists!Edited(s, AskedOf(r))) /\ AskedOf(Idle) = Lists!Rest(s, AskedOf(r))
    <3>1. r.at \in -1..Len(s) /\ Len(s) = r.known /\ at \in 0..Len(s)
      <4>1. ~(r.at > r.known)
        BY <1>7, <2>1, <2>3, NoHole
      <4> QED
        BY <1>4, <1>5, <2>1, <2>3, <4>1
    <3>2. U = add_recordings_to_playlist(T, Len(s), r.items, at)
      BY <3>1 DEF add_recordings_to_playlist
    <3> HIDE DEF U, at
    <3>3. Shows(U, Lists!InsertedAt(s, at, r.items))
      BY <1>4, <1>5, <2>3, <3>1, <3>2, AddedShows
    <3> QED
      BY <1>6, <2>2, <3>3 DEF Lists!Edited, Lists!Rest, at
  <2> HIDE DEF U
  <2> QED
    BY <1>1, <1>2, <1>3, <1>4, <1>6, <2>1, <2>3, WritePerforms
<1>9. CASE MoveAdds(q)
  <2> DEFINE U == add_recordings_to_playlist(T, r.known, r.items, r.to)
  <2>1. r.op = "put" /\ WriteTracks(p, U, Hole(r.to + Len(r.items) > r.known)) /\ r.to \in 0..r.known
    BY <1>1, <1>3, <1>9 DEF MoveAdds, RequestOK
  <2>2. AskedOf(r) = [op |-> "put", pl |-> p, to |-> r.to, items |-> r.items]
    BY <1>1, <2>1, AskedKinds
  <2>3. ASSUME upset[p] = {}, upset'[p] = {}
        PROVE  Shows(U, Lists!Edited(s, AskedOf(r))) /\ AskedOf(Idle) = Lists!Rest(s, AskedOf(r))
    <3>1. r.to \in 0..Len(s) /\ Len(s) <= r.known
      <4>1. ~(r.to + Len(r.items) > r.known)
        BY <1>7, <2>1, <2>3, NoHole
      <4>2. Len(r.items) \in Nat
        BY <1>4, LenProperties
      <4> QED
        BY <1>4, <1>5, <2>1, <2>3, <4>1, <4>2
    <3>2. U = add_recordings_to_playlist(T, Len(s), r.items, r.to)
      BY <1>4, <1>5, <2>3, <3>1, PutAdds
    <3> HIDE DEF U
    <3>3. Shows(U, Lists!InsertedAt(s, r.to, r.items))
      BY <1>4, <1>5, <2>3, <3>1, <3>2, AddedShows
    <3> QED
      BY <1>6, <2>2, <3>3 DEF Lists!Edited, Lists!Rest
  <2> HIDE DEF U
  <2> QED
    BY <1>1, <1>2, <1>3, <1>4, <1>6, <2>1, <2>3, WritePerforms
<1> QED
  BY <1>8, <1>9

LEMMA DeletePerforms ==
  ASSUME ListInv, NEW q \in Requests, DeleteCommits(q) \/ MoveDeletes(q)
  PROVE  Lists!Perform(q) /\ Remembered'
<1>1. PICK r, p, T, s : /\ r \in Request /\ r = req[q] /\ p = r.pl /\ T = playlist[p].tracks
                        /\ s = get_recordings_for_playlists(T)
  BY DEF ListInv, TypeInv
<1>2. TypeInv' /\ playlist'[p] # Absent
  BY <1>1, CommitTypes DEF ListInv, Written
<1> DEFINE U == delete_recordings_from_playlist(T, r.known, r.from, r.count)
<1>3. r.op \in {"delete", "take"} /\ Exists(p) /\ RequestOK(r, last) /\ WriteTracks(p, U, {})
  BY <1>1 DEF DeleteCommits, MoveDeletes, ListInv, Inductive, RequestsOK
<1>4. /\ p \in Playlists /\ Edits(q, p) /\ r.known \in Nat
      /\ r.from \in 0..(r.known - 1) /\ r.count \in 1..2 /\ r.count \in Nat \ {0}
  BY <1>1, <1>3 DEF Request, Idle, Edits, RequestOK
<1>5. upset[p] = {} => /\ Shows(T, s) /\ s \in Seq(Recording) /\ Len(s) = r.known
                       /\ Remembers(r, playlist[p])
  BY <1>1, <1>3, <1>4, KnownLength DEF ListInv, Remembered, Exists
<1>6. upset[p] = {} => Shows(U, Lists!RangeRemoved(s, r.from, r.count))
  BY <1>4, <1>5, DeletedShows
<1>7. Idle \in Request /\ Idle.op = "idle" /\ AskedOf(Idle) = Idle
  BY DEF Request, Idle, AskedOf
<1> HIDE DEF U
<1>8. CASE DeleteCommits(q)
  <2>1. r.op = "delete" /\ req' = [req EXCEPT ![q] = Idle]
    BY <1>1, <1>8 DEF DeleteCommits, Done
  <2>2. AskedOf(r) = [op |-> "delete", pl |-> p, from |-> r.from, count |-> r.count]
    BY <1>1, <2>1, AskedKinds
  <2>3. ASSUME upset[p] = {}, upset'[p] = {}
        PROVE  Shows(U, Lists!Edited(s, AskedOf(r))) /\ AskedOf(Idle) = Lists!Rest(s, AskedOf(r))
    BY <1>6, <1>7, <2>2, <2>3 DEF Lists!Edited, Lists!Rest
  <2> QED
    BY <1>1, <1>2, <1>3, <1>4, <1>7, <2>1, <2>3, WritePerforms
<1>9. CASE MoveDeletes(q)
  <2> DEFINE put == [op |-> "put", pl |-> p, known |-> r.known, to |-> r.to, items |-> r.items]
  <2>1. r.op = "take" /\ req' = [req EXCEPT ![q] = put]
    BY <1>1, <1>9 DEF MoveDeletes
  <2>2. r.to \in Nat /\ r.items \in Seq(Recording)
    BY <1>1, <2>1 DEF Request, Idle
  <2>3. put \in Request /\ put.op = "put" /\ put.pl = p /\ put.to = r.to /\ put.items = r.items
    BY <1>4, <2>2 DEF Request
  <2>4. AskedOf(r) = [op |-> "take", pl |-> p, from |-> r.from, count |-> r.count, to |-> r.to]
    BY <1>1, <2>1, AskedKinds
  <2> HIDE DEF put
  <2>5. AskedOf(put) = [op |-> "put", pl |-> p, to |-> r.to, items |-> r.items]
    BY <2>3, AskedKinds
  <2>6. ASSUME upset[p] = {}, upset'[p] = {}
        PROVE  Shows(U, Lists!Edited(s, AskedOf(r))) /\ AskedOf(put) = Lists!Rest(s, AskedOf(r))
    <3>1. r.items = SubSeq(s, r.from + 1, Smaller(r.from + r.count, r.known))
      BY <1>1, <1>5, <2>1, <2>6 DEF Remembers
    <3>2. Lists!RangeOf(s, r.from, r.count) = r.items
      BY <1>5, <2>6, <3>1 DEF Lists!RangeOf, Lists!Least, Smaller
    <3> QED
      BY <1>6, <2>4, <2>5, <2>6, <3>2 DEF Lists!Edited, Lists!Rest
  <2> QED
    BY <1>1, <1>2, <1>3, <1>4, <2>1, <2>3, <2>6, WritePerforms
<1> QED
  BY <1>8, <1>9

\* An edit changes who sees the playlist, and no recording.
LEMMA EditPerforms ==
  ASSUME ListInv, NEW q \in Requests, EditCommits(q)
  PROVE  Lists!Perform(q) /\ Remembered'
<1>1. PICK r, p, row : r \in Request /\ r = req[q] /\ p = r.pl /\ row = playlist[p]
  BY DEF ListInv, TypeInv
<1>2. TypeInv' /\ playlist'[p] # Absent /\ \A o \in Playlists \ {p} : playlist'[o] = playlist[o]
  BY <1>1, EditCommitsTypes DEF ListInv, Written
<1>3. /\ r.op = "edit" /\ row # Absent /\ req' = [req EXCEPT ![q] = Idle] /\ upset' = upset
      /\ playlist' = [playlist EXCEPT ![p].public = r.public, ![p].collab = r.collab]
  BY <1>1 DEF EditCommits, Done, Exists
<1>4. p \in Playlists /\ Edits(q, p) /\ r.public \in BOOLEAN /\ r.asks \in {"yes", "no", "same"}
  BY <1>1, <1>3 DEF Request, Idle, Edits
<1>5. playlist'[p].tracks = row.tracks /\ playlist'[p].public = r.public
  <2>1. IsRow(row)
    BY <1>1, <1>3, <1>4 DEF ListInv, Inductive, Rows, RowOK, Exists
  <2>2. playlist'[p] = [row EXCEPT !.public = r.public, !.collab = r.collab]
    BY <1>1, <1>3, <1>4 DEF ListInv, Inductive, Tables
  <2> QED
    BY <2>1, <2>2 DEF IsRow, Columns
<1>6. req'[q] = Idle /\ \A o \in Requests \ {q} : req'[o] = req[o]
  BY <1>3 DEF ListInv, Inductive, Tables
<1>7. Remembered'
  <2>1. \A o \in Requests : req'[o] = req[o] \/ req'[o].op \notin {"take", "edit"}
    BY <1>6 DEF Idle
  <2>2. ASSUME NEW o \in Requests, Edits(o, p), req'[o] = req[o], upset'[p] = {}
        PROVE  FALSE
    <3>1. o # q
      BY <1>1, <1>3, <1>6, <2>2 DEF Idle
    <3> QED
      BY <1>3, <1>4, <2>2, <3>1 DEF ListInv, Inductive, Alone
  <2>3. \A o \in Requests, k \in Playlists :
            Edits(o, k) /\ req'[o] = req[o] /\ playlist'[k] # Absent /\ upset'[k] = {} =>
               /\ playlist[k] # Absent /\ upset[k] = {}
               /\ playlist'[k].tracks = playlist[k].tracks /\ playlist'[k].public = playlist[k].public
    BY <1>2, <1>3, <2>2
  <2> QED
    BY <2>1, <2>3, StillRemembered
<1>8. AskedOf(r) = [op |-> "edit", pl |-> p, public |-> r.asks] /\ AskedOf(Idle) = Idle
  BY <1>1, <1>3, AskedKinds DEF AskedOf, Idle
<1>9. /\ Asked(q) = AskedOf(r) /\ Asked(q)' = Idle
      /\ \A o \in Requests \ {q} : Asked(o)' = Asked(o)
  BY <1>1, <1>6, <1>8, AskedIs
<1>10. Asked(q) # Idle /\ Asked(q).pl = p /\ Asked(q).op = "edit" /\ Asked(q).public = r.asks
  BY <1>8, <1>9 DEF Idle
<1>11. \A o \in Playlists \ {p} : Listed(o, Why)' = Listed(o, Why) /\ Shared(o)' = Shared(o)
  <2>1. ASSUME NEW o \in Playlists \ {p}
        PROVE  Listed(o, Why)' = Listed(o, Why)
    <3>1. upset'[o] = upset[o] /\ playlist'[o] = playlist[o]
      BY <1>2, <1>3
    <3> QED
      BY <3>1 DEF Listed, Exists
  <2> QED
    BY <1>2, <2>1 DEF Shared, Exists
<1>12. CASE upset[p] # {}
  <2>1. Listed(p, Why)' = Unknown
    BY <1>2, <1>3, <1>4, <1>12, ListedIs
  <2> QED
    BY <1>4, <1>7, <1>9, <1>10, <1>11, <2>1, Performs
<1>13. CASE upset[p] = {}
  <2> DEFINE s == get_recordings_for_playlists(row.tracks)
  <2>1. Listed(p, Why) = s /\ s \notin {Absent, Unknown}
    BY <1>1, <1>3, <1>4, <1>13, ListedIs, ShownList DEF ListInv, Exists
  <2>2. Listed(p, Why)' = s
    BY <1>2, <1>3, <1>4, <1>5, <1>13, ListedIs
  <2> HIDE DEF s
  <2>3. Lists!Edited(s, Asked(q)) = s /\ Lists!Rest(s, Asked(q)) = Idle
    BY <1>10 DEF Lists!Edited, Lists!Rest
  <2>4. r.public <=> r.asks = "yes" \/ (r.asks = "same" /\ row.public)
    BY <1>1, <1>3, <1>4, <1>13 DEF ListInv, Remembered, Remembers
  <2>5. Shared(p)' = (Asked(q).public = "yes" \/ (Shared(p) /\ Asked(q).public = "same"))
    BY <1>1, <1>2, <1>3, <1>4, <1>5, <1>10, <2>4 DEF Shared, Exists
  <2> QED
    BY <1>4, <1>7, <1>9, <1>10, <1>11, <2>1, <2>2, <2>3, <2>5, Performs
<1> QED
  BY <1>12, <1>13

\* A step that moves no playlist but may upset some, and that only states or drops one request.
LEMMA Asks ==
  ASSUME TypeInv, TypeInv', NEW q \in Requests, playlist' = playlist,
         \A p \in Playlists : upset[p] \subseteq upset'[p],
         Idle \in {Asked(q), Asked(q)'}, \A o \in Requests \ {q} : Asked(o)' = Asked(o)
  PROVE  Lists!AskOrGiveUp(q)
<1>1. \A p \in Playlists : Listed(p, Why)' \in {Listed(p, Why), Unknown} /\ Shared(p)' = Shared(p)
  <2>1. ASSUME NEW p \in Playlists
        PROVE  Listed(p, Why)' \in {Listed(p, Why), Unknown}
    <3>1. CASE upset'[p] # {}
      BY <3>1, ListedIs
    <3>2. CASE upset'[p] = {}
      <4>1. upset[p] = {}
        BY <3>2
      <4> QED
        BY <3>2, <4>1, ListedIs DEF Exists
    <3> QED
      BY <3>1, <3>2
  <2> QED
    BY <2>1 DEF Shared, Exists
<1> QED
  BY <1>1 DEF Lists!AskOrGiveUp, Why

LEMMA BeginAsks ==
  ASSUME ListInv, TypeInv', NEW q \in Requests, NEW p \in Playlists, Exists(p), NEW r, Begin(q, p, r),
         r.pl = p, upset[p] = {} => Remembers(r, playlist[p])
  PROVE  Lists!AskOrGiveUp(q) /\ Remembered'
<1>1. /\ playlist' = playlist /\ req[q] = Idle /\ req' = [req EXCEPT ![q] = r]
      /\ upset' = [upset EXCEPT ![p] = @ \cup (IF Editing(p) = {} THEN {} ELSE {"overlap"})]
  BY DEF Begin
<1>2. \A o \in Playlists : upset[o] \subseteq upset'[o]
  BY <1>1 DEF ListInv, Inductive, Tables
<1>3. req'[q] = r /\ \A o \in Requests \ {q} : req'[o] = req[o]
  BY <1>1 DEF ListInv, Inductive, Tables
<1>4. Asked(q) = Idle /\ \A o \in Requests \ {q} : Asked(o)' = Asked(o)
  BY <1>1, <1>3, AskedIs, NothingAsked
<1>5. Lists!AskOrGiveUp(q)
  BY <1>1, <1>2, <1>4, Asks DEF ListInv
<1>6. Remembered'
  <2> SUFFICES ASSUME NEW o \in Requests, NEW k \in Playlists, Edits(o, k)', playlist'[k] # Absent, upset'[k] = {}
               PROVE  Remembers(req'[o], playlist'[k])
    BY DEF Remembered
  <2>1. upset[k] = {}
    BY <1>2
  <2>2. CASE o = q
    <3>1. k = p
      BY <1>3, <2>2 DEF Edits
    <3> QED
      BY <1>1, <1>3, <2>1, <2>2, <3>1
  <2>3. CASE o # q
    <3>1. Edits(o, k) /\ req'[o] = req[o]
      BY <1>3, <2>3 DEF Edits
    <3> QED
      BY <1>1, <2>1, <3>1 DEF ListInv, Remembered
  <2> QED
    BY <2>2, <2>3
<1> QED
  BY <1>5, <1>6

LEMMA EditAsks ==
  ASSUME ListInv, NEW q \in Requests, NEW u \in live, NEW p \in Playlists,
         \/ add_playlist_item(q, u, p) \/ delete_playlist_item(q, u, p)
         \/ move_playlist_item(q, u, p) \/ edit_playlist(q, u, p)
  PROVE  Lists!AskOrGiveUp(q) /\ Remembered'
<1>1. Exists(p)
  BY DEF add_playlist_item, delete_playlist_item, move_playlist_item, edit_playlist
<1>2. TypeInv'
  BY EditTypes DEF ListInv
<1>3. CASE add_playlist_item(q, u, p) \/ delete_playlist_item(q, u, p)
  <2>1. PICK r : Begin(q, p, r) /\ r.pl = p /\ r.op \in {"add", "delete"}
    <3>1. CASE add_playlist_item(q, u, p)
      <4>1. PICK at \in -1..(Known(p) + 1), s \in Payloads :
               Begin(q, p, [op |-> "add", pl |-> p, known |-> Known(p), at |-> at, items |-> AddedBy(u, s)])
        BY <3>1 DEF add_playlist_item
      <4> QED
        BY <4>1
    <3>2. CASE delete_playlist_item(q, u, p)
      <4>1. PICK index \in 0..(Known(p) - 1), count \in 1..2 :
               Begin(q, p, [op |-> "delete", pl |-> p, known |-> Known(p), from |-> index, count |-> count])
        BY <3>2 DEF delete_playlist_item
      <4> QED
        BY <4>1
    <3> QED
      BY <1>3, <3>1, <3>2
  <2>2. Remembers(r, playlist[p])
    BY <2>1 DEF Remembers
  <2> QED
    BY <1>1, <1>2, <2>1, <2>2, BeginAsks
<1>4. CASE move_playlist_item(q, u, p)
  <2> DEFINE s == get_recordings_for_playlists(playlist[p].tracks)
             part(from, count) == SubSeq(s, from + 1, IF from + count < Known(p) THEN from + count ELSE Known(p))
             r(from, count, to) == [op |-> "take", pl |-> p, known |-> Known(p), from |-> from, count |-> count,
                                    to |-> to, items |-> part(from, count)]
  <2>1. PICK from \in 0..(Known(p) - 1), count \in 1..2, to \in 0..Known(p) : Begin(q, p, r(from, count, to))
    BY <1>4 DEF move_playlist_item
  <2>2. part(from, count) = SubSeq(s, from + 1, Smaller(from + count, Known(p)))
    BY DEF Smaller
  <2> HIDE DEF part
  <2>3. Remembers(r(from, count, to), playlist[p]) /\ r(from, count, to).pl = p
    BY <2>2 DEF Remembers
  <2> QED
    BY <1>1, <1>2, <2>1, <2>3, BeginAsks
<1>5. CASE edit_playlist(q, u, p)
  <2>1. PICK asks \in {"yes", "no", "same"}, c \in SUBSET ((Users \cap live) \ {u}) :
           Begin(q, p, [op |-> "edit", pl |-> p, asks |-> asks, collab |-> c,
                        public |-> asks = "yes" \/ (asks = "same" /\ playlist[p].public)])
    BY <1>5 DEF edit_playlist
  <2> DEFINE r == [op |-> "edit", pl |-> p, asks |-> asks, collab |-> c,
                   public |-> asks = "yes" \/ (asks = "same" /\ playlist[p].public)]
  <2>2. Remembers(r, playlist[p]) /\ r.pl = p
    BY DEF Remembers
  <2> QED
    BY <1>1, <1>2, <2>1, <2>2, BeginAsks
<1> QED
  BY <1>3, <1>4, <1>5

LEMMA FailsGivesUp ==
  ASSUME ListInv, NEW q \in Requests, Fails(q)
  PROVE  Lists!AskOrGiveUp(q) /\ Remembered'
<1>1. req' = [req EXCEPT ![q] = Idle] /\ playlist' = playlist /\ upset' = upset
  BY DEF Fails, Done
<1>2. req'[q] = Idle /\ \A o \in Requests \ {q} : req'[o] = req[o]
  BY <1>1 DEF ListInv, Inductive, Tables
<1>3. TypeInv'
  BY HandlerTypes DEF ListInv
<1>4. Asked(q)' = Idle /\ \A o \in Requests \ {q} : Asked(o)' = Asked(o)
  BY <1>2, AskedIs, NothingAsked
<1>5. \A p \in Playlists : upset[p] \subseteq upset'[p]
  BY <1>1
<1>6. Lists!AskOrGiveUp(q)
  BY <1>1, <1>3, <1>4, <1>5, Asks DEF ListInv
<1>7. \A o \in Requests : req'[o] = req[o] \/ req'[o].op \notin {"take", "edit"}
  BY <1>2 DEF Idle
<1>8. Remembered'
  BY <1>1, <1>7, StillRemembered
<1> QED
  BY <1>6, <1>8

\* The creation that begins is not yet one.
LEMMA RemovesNothing ==
  ASSUME ListInv, NEW q \in Requests, NEW u \in Users, RemoveOldPlaylists(q, u)
  PROVE  UNCHANGED Lists!vars /\ Remembered'
<1>1. PICK r : r.op = "create" /\ req' = [req EXCEPT ![q] = r] /\ playlist' = playlist /\ upset' = upset /\ req[q] = Idle
  BY DEF RemoveOldPlaylists
<1>2. req'[q] = r /\ \A o \in Requests \ {q} : req'[o] = req[o]
  BY <1>1 DEF ListInv, Inductive, Tables
<1>3. \A o \in Requests : Asked(o)' = Asked(o)
  <2>1. AskedOf(r) = Idle
    BY <1>1 DEF AskedOf
  <2> QED
    BY <1>1, <1>2, <2>1, AskedIs, NothingAsked
<1>4. \A p \in Playlists : Listed(p, Why)' = Listed(p, Why) /\ Shared(p)' = Shared(p)
  BY <1>1 DEF Listed, Shared, Exists
<1>5. UNCHANGED Lists!vars
  BY <1>3, <1>4 DEF Lists!vars, Why
<1>6. \A o \in Requests : req'[o] = req[o] \/ req'[o].op \notin {"take", "edit"}
  BY <1>1, <1>2
<1>7. Remembered'
  BY <1>1, <1>6, StillRemembered
<1> QED
  BY <1>5, <1>7

\* Playlists come and go, or are upset; of those that stay, nobody changes the list.
RowLeft(p) ==
    \/ playlist'[p] = Absent
    \/ p > last
    \/ upset'[p] # {}
    \/ /\ playlist[p] # Absent
       /\ playlist'[p].tracks = playlist[p].tracks /\ playlist'[p].public = playlist[p].public

LEMMA Rearranges ==
  ASSUME ListInv, TypeInv', \A q \in Requests : Asked(q)' = Asked(q),
         \A q \in Requests : req'[q] = req[q] \/ req'[q].op \notin {"take", "edit"},
         \A p \in Playlists : RowLeft(p) /\ upset[p] \subseteq upset'[p]
  PROVE  Lists!Rearrange /\ Remembered'
<1>1. ASSUME NEW p \in Playlists
      PROVE  Listed(p, Why) = Absent \/ Listed(p, Why)' \in {Listed(p, Why), Absent, Unknown}
  <2>1. upset[p] \subseteq upset'[p] /\ RowLeft(p)
    OBVIOUS
  <2>2. CASE upset'[p] # {}
    BY <2>2, ListedIs
  <2>3. CASE upset'[p] = {}
    <3>1. upset[p] = {}
      BY <2>1, <2>3
    <3>2. CASE playlist'[p] = Absent
      BY <2>3, <3>2, ListedIs
    <3>3. CASE playlist[p] = Absent
      BY <3>1, <3>3, ListedIs DEF ListInv, Exists
    <3>4. p > last => playlist[p] = Absent
      BY BoundsAssumption DEF ListInv, TypeInv, PlaylistOK, Playlists, Exists
    <3>5. CASE playlist'[p] # Absent /\ playlist[p] # Absent
      <4>1. playlist'[p].tracks = playlist[p].tracks
        BY <2>1, <2>3, <3>4, <3>5 DEF RowLeft
      <4> QED
        BY <2>3, <3>1, <3>5, <4>1, ListedIs DEF ListInv, Exists
    <3> QED
      BY <3>2, <3>3, <3>5
  <2> QED
    BY <2>2, <2>3
<1>2. Lists!Rearrange
  <2>1. [q \in Requests |-> Asked(q)'] = [q \in Requests |-> IF q \in {} THEN Idle ELSE Asked(q)]
    OBVIOUS
  <2>2. {} \in SUBSET Requests
    OBVIOUS
  <2> QED
    BY <1>1, <2>1, <2>2 DEF Lists!Rearrange, Why
<1>3. Remembered'
  <2>1. ASSUME NEW q \in Requests, NEW p \in Playlists, Edits(q, p), req'[q] = req[q],
               playlist'[p] # Absent, upset'[p] = {}
        PROVE  /\ playlist[p] # Absent /\ upset[p] = {}
               /\ playlist'[p].tracks = playlist[p].tracks /\ playlist'[p].public = playlist[p].public
    <3>1. RowLeft(p) /\ upset[p] \subseteq upset'[p]
      OBVIOUS
    <3>2. ~(p > last)
      BY <2>1, BoundsAssumption DEF Edits, ListInv, Inductive, Tables, RequestsOK, RequestOK, Operations, Playlists
    <3> QED
      BY <2>1, <3>1, <3>2 DEF RowLeft
  <2> QED
    BY <2>1, StillRemembered
<1> QED
  BY <1>2, <1>3

LEMMA CreatedLeaves ==
  ASSUME ListInv, NEW row, NEW old, Create(row, old), NEW p \in Playlists
  PROVE  RowLeft(p)
<1>1. /\ last' = last + 1
      /\ playlist'[p] = IF p = last + 1 THEN row ELSE IF p \in old THEN Absent ELSE playlist[p]
  BY DEF Create
<1>2. last \in Nat
  BY BoundsAssumption DEF ListInv, TypeInv
<1> QED
  BY <1>1, <1>2 DEF RowLeft

LEMMA OwnerRearranges ==
  ASSUME ListInv, NEW u \in Users,
         \/ create_playlist(u) \/ EraseUser(u)
         \/ \E p \in Playlists : copy_playlist(u, p) \/ delete_playlist(u, p)
  PROVE  Lists!Rearrange /\ Remembered'
<1>1. TypeInv'
  BY OwnerTypes DEF ListInv
<1>2. UNCHANGED req
  BY DEF create_playlist, EraseUser, copy_playlist, delete_playlist
<1>3. \A q \in Requests : req'[q] = req[q] /\ Asked(q)' = Asked(q)
  BY <1>2, AskedIs
<1>4. CASE create_playlist(u)
  <2>1. upset' = upset /\ \E row, old : Create(row, old)
    BY <1>4 DEF create_playlist
  <2>2. \A p \in Playlists : RowLeft(p)
    BY <2>1, CreatedLeaves
  <2> QED
    BY <1>1, <1>3, <2>1, <2>2, Rearranges
<1>5. ASSUME NEW k \in Playlists, copy_playlist(u, k)
      PROVE  Lists!Rearrange /\ Remembered'
  <2>1. upset' = upset /\ \E row, old : Create(row, old)
    BY <1>5 DEF copy_playlist
  <2>2. \A p \in Playlists : RowLeft(p)
    BY <2>1, CreatedLeaves
  <2> QED
    BY <1>1, <1>3, <2>1, <2>2, Rearranges
<1>6. ASSUME NEW k \in Playlists, delete_playlist(u, k)
      PROVE  Lists!Rearrange /\ Remembered'
  <2>1. upset' = upset /\ playlist' = [playlist EXCEPT ![k] = Absent]
    BY <1>6 DEF delete_playlist
  <2>2. \A p \in Playlists : playlist'[p] = Absent \/ playlist'[p] = playlist[p]
    BY <2>1 DEF ListInv, Inductive, Tables
  <2>3. \A p \in Playlists : RowLeft(p)
    BY <2>2 DEF RowLeft
  <2> QED
    BY <1>1, <1>3, <2>1, <2>3, Rearranges
<1>7. CASE EraseUser(u)
  <2> DEFINE kept(p) == {t \in playlist[p].tracks : t.by # u}
             stays(p) == Exists(p) /\ u \notin {playlist[p].creator, playlist[p].madeFor}
             new(p) == [playlist[p] EXCEPT !.collab = @ \ {u}, !.tracks = kept(p)]
             why(p) == IF ~Exists(p) \/ kept(p) = playlist[p].tracks THEN {}
                       ELSE {"hole"} \cup (IF Editing(p) = {} THEN {} ELSE {"overlap"})
  <2>1. /\ playlist' = [p \in Playlists |-> IF stays(p) THEN new(p) ELSE Absent]
        /\ upset' = [p \in Playlists |-> upset[p] \cup why(p)]
    BY <1>7 DEF EraseUser
  <2>2. \A p \in Playlists : upset[p] \subseteq upset'[p]
    <3> HIDE DEF why
    <3> QED
      BY <2>1
  <2>3. ASSUME NEW p \in Playlists, stays(p)
        PROVE  RowLeft(p)
    <3>1. IsRow(playlist[p])
      BY <2>3 DEF ListInv, Inductive, Rows, RowOK
    <3>2. new(p).tracks = kept(p) /\ new(p).public = playlist[p].public
      <4>1. PICK tracks, row : tracks = kept(p) /\ row = playlist[p]
        OBVIOUS
      <4>2. /\ [row EXCEPT !.collab = @ \ {u}, !.tracks = tracks].tracks = tracks
            /\ [row EXCEPT !.collab = @ \ {u}, !.tracks = tracks].public = row.public
        BY <3>1, <4>1 DEF IsRow, Columns
      <4> QED
        BY <4>1, <4>2
    <3>3. kept(p) = playlist[p].tracks \/ upset'[p] # {}
      BY <2>1, <2>3
    <3>4. playlist'[p] = new(p)
      BY <2>1, <2>3
    <3> HIDE DEF new, kept
    <3> QED
      BY <2>3, <3>2, <3>3, <3>4 DEF RowLeft, Exists
  <2>4. ASSUME NEW p \in Playlists, ~stays(p)
        PROVE  RowLeft(p)
    BY <2>1, <2>4 DEF RowLeft
  <2> HIDE DEF kept, stays, new, why
  <2> QED
    BY <1>1, <1>3, <2>2, <2>3, <2>4, Rearranges
<1> QED
  BY <1>4, <1>5, <1>6, <1>7

LEMMA CreateRearranges ==
  ASSUME ListInv, NEW q \in Requests, CreateCommits(q)
  PROVE  Lists!Rearrange /\ Remembered'
<1>1. TypeInv'
  BY HandlerTypes DEF ListInv
<1>2. req[q].op = "create" /\ upset' = upset /\ req' = [req EXCEPT ![q] = Idle] /\ \E row, old : Create(row, old)
  BY DEF CreateCommits, Done
<1>3. req'[q] = Idle /\ \A o \in Requests \ {q} : req'[o] = req[o]
  BY <1>2 DEF ListInv, Inductive, Tables
<1>4. \A o \in Requests : Asked(o)' = Asked(o)
  <2>1. AskedOf(req[q]) = Idle
    BY <1>2 DEF AskedOf
  <2> QED
    BY <1>3, <2>1, AskedIs, NothingAsked
<1>5. \A o \in Requests : req'[o] = req[o] \/ req'[o].op \notin {"take", "edit"}
  BY <1>3, NothingAsked
<1>6. \A p \in Playlists : RowLeft(p) /\ upset[p] \subseteq upset'[p]
  BY <1>2, CreatedLeaves
<1> QED
  BY <1>1, <1>4, <1>5, <1>6, Rearranges

LEMMA ListInit == Init => ListInv /\ Lists!Init
<1> SUFFICES ASSUME Init PROVE ListInv /\ Lists!Init
  OBVIOUS
<1>1. /\ \A q \in Requests : req[q] = Idle
      /\ \A p \in Playlists : playlist[p] = Absent /\ upset[p] = {}
  BY DEF Init
<1>2. Remembered
  BY <1>1 DEF Remembered
<1>3. \A q \in Requests : Asked(q) = Idle
  BY <1>1, AskedIs, NothingAsked
<1>4. \A p \in Playlists : Listed(p, {"overlap", "hole"}) = Absent /\ Shared(p) = FALSE
  BY <1>1 DEF Listed, Shared, Exists
<1>5. Lists!Init
  BY <1>3, <1>4 DEF Lists!Init
<1> QED
  BY <1>2, <1>5, InductiveInit, TypesInit DEF ListInv

LEMMA ListStep == ListInv /\ [Next]_vars => ListInv' /\ [Lists!Next]_Lists!vars
<1> SUFFICES ASSUME ListInv, [Next]_vars
             PROVE  Remembered' /\ [Lists!Next]_Lists!vars
  BY InductiveStep, TypesStep DEF ListInv
<1>1. ASSUME NEW q \in Requests, Lists!Perform(q) \/ Lists!AskOrGiveUp(q)
      PROVE  Lists!Next
  BY <1>1 DEF Lists!Next
<1>2. Lists!Rearrange => Lists!Next
  BY DEF Lists!Next
<1>3. ASSUME NEW q \in Requests, Edit(q)
      PROVE  Remembered' /\ [Lists!Next]_Lists!vars
  <2>1. ASSUME NEW u \in Users, RemoveOldPlaylists(q, u)
        PROVE  Remembered' /\ [Lists!Next]_Lists!vars
    BY <2>1, RemovesNothing
  <2>2. ASSUME NEW u \in live, NEW p \in Playlists,
               \/ add_playlist_item(q, u, p) \/ delete_playlist_item(q, u, p)
               \/ move_playlist_item(q, u, p) \/ edit_playlist(q, u, p)
        PROVE  Remembered' /\ [Lists!Next]_Lists!vars
    BY <1>1, <2>2, EditAsks
  <2> QED
    BY <1>3, <2>1, <2>2 DEF Edit
<1>4. ASSUME NEW q \in Requests, Commit(q)
      PROVE  Remembered' /\ [Lists!Next]_Lists!vars
  <2>1. CASE CreateCommits(q)
    BY <1>2, <2>1, CreateRearranges
  <2>2. CASE ~CreateCommits(q)
    BY <1>1, <1>4, <2>2, AddPerforms, DeletePerforms, EditPerforms DEF Commit
  <2> QED
    BY <2>1, <2>2
<1>5. ASSUME NEW q \in Requests, Fails(q)
      PROVE  Remembered' /\ [Lists!Next]_Lists!vars
  BY <1>1, <1>5, FailsGivesUp
<1>6. ASSUME NEW u \in Users,
             \/ create_playlist(u) \/ EraseUser(u)
             \/ \E p \in Playlists : copy_playlist(u, p) \/ delete_playlist(u, p)
      PROVE  Remembered' /\ [Lists!Next]_Lists!vars
  BY <1>2, <1>6, OwnerRearranges
<1>7. CASE UNCHANGED vars
  <2>1. playlist' = playlist /\ req' = req /\ upset' = upset
    BY <1>7 DEF vars
  <2>2. Remembered'
    BY <2>1, StillRemembered
  <2>3. /\ \A o \in Requests : Asked(o)' = Asked(o)
        /\ \A p \in Playlists : Listed(p, Why)' = Listed(p, Why) /\ Shared(p)' = Shared(p)
    BY <2>1, AskedIs DEF Listed, Shared, Exists
  <2>4. UNCHANGED Lists!vars
    BY <2>3 DEF Lists!vars, Why
  <2> QED
    BY <2>2, <2>4
<1> QED
  BY <1>3, <1>4, <1>5, <1>6, <1>7 DEF Next

\* Every request edits the list of its playlist as it asks, whole or not at all, and nobody else changes it,
\* unless two edit one playlist at once or something leaves a hole in it: the tables of positions of
\* db/playlist.py implement PlaylistLists, for lists and payloads of any length, whatever request, deletion of
\* an account or failure comes between the read of a request and its write.
THEOREM ListsImplemented == Spec => ListsAsAsked
<1> QED
  BY ListInit, ListStep, PTL DEF Spec, ListsAsAsked, Lists!Spec

=============================================================================
