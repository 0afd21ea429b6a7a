------------------------------ MODULE Playlists ------------------------------
(***************************************************************************)
(* Playlists: the tables of playlists, of their recordings with their      *)
(* positions and of their collaborators, and the requests of the API that  *)
(* change them.  A request reads the whole playlist, checks it, and then   *)
(* writes in a transaction of its own from what it has read; a move writes *)
(* in two.  Nothing in the database keeps positions apart.                 *)
(*                                                                         *)
(* The statements of two transactions on one playlist are not interleaved  *)
(* any further than read against write: no property below is claimed for a *)
(* playlist that two requests have edited at the same time.                *)
(***************************************************************************)
EXTENDS Integers, FiniteSets, Sequences

CONSTANTS
    Users,
    Bot,            \* the account that creates playlists for others
    Requests,       \* handlers that may run at the same time
    Mbids,          \* recordings
    Payloads,       \* the sequences of recordings that a client may send
    MaxPlaylists,   \* bound: playlists ever created
    MaxTracks,      \* bound: recordings of a playlist
    MaxRequests,    \* bound: requests that edit a playlist
    Absent,         \* no such playlist
    Unknown         \* the list of a playlist that is upset

ASSUME BotAssumption == Bot \notin Users
ASSUME PayloadsAssumption == Payloads \subseteq Seq(Mbids)
ASSUME BoundsAssumption == MaxPlaylists \in Nat /\ MaxTracks \in Nat

VARIABLES
    playlist,   \* rows of playlist.playlist with their collaborators and recordings
    last,       \* the id of the playlist created last
    live,       \* users whose account exists
    req,        \* what each handler has read and means to write
    started,    \* requests so far
    upset,      \* history variable: why the list of a playlist may not be what was asked for
    twins       \* history variable: users for whom two playlists were being created at once

vars == <<playlist, last, live, req, started, upset, twins>>

Playlists == 1..MaxPlaylists
Everyone == Users \cup {Bot}

Recording == [mbid : Mbids, by : Everyone]
PlaylistRow == [creator : Everyone, madeFor : Everyone, public : BOOLEAN, collab : SUBSET Users,
                tracks : SUBSET [id : Nat, mbid : Mbids, by : Everyone, pos : Nat]]

\* No row and no list is taken for a missing one.
ASSUME AbsentAssumption == Absent \notin PlaylistRow \cup Seq(Recording)
ASSUME UnknownAssumption == Unknown \notin Seq(Recording) \cup {Absent}

\* A handler without a request.
Idle == [op |-> "idle", pl |-> 0]
Exists(p) == playlist[p] # Absent

-----------------------------------------------------------------------------
(* The statements of db/playlist.py. *)

\* UPDATE playlist_recording SET position = position + by WHERE position >= from
Reordered(T, from, by) ==
    {IF t.pos >= from THEN [id |-> t.id, mbid |-> t.mbid, by |-> t.by, pos |-> t.pos + by] ELSE t : t \in T}

\* Row ids are serial; here they only keep apart rows that are otherwise alike.
FirstId(T) ==
    LET ids == {t.id : t \in T} \cup {0} IN 1 + (CHOOSE i \in ids : \A j \in ids : j <= i)

insert_recordings(T, items, starting_position) ==
    T \cup {[id |-> FirstId(T) + k - 1, mbid |-> items[k].mbid, by |-> items[k].by,
             pos |-> starting_position + k - 1] : k \in DOMAIN items}

\* Mutant: recordings are added after the one at the position.
add_recordings_to_playlist_After(T, known, items, position) ==
    LET at == IF position < 0 \/ position >= known THEN known ELSE position + 1
    IN  insert_recordings(IF at < known THEN Reordered(T, at, Len(items)) ELSE T, items, at)

\* known: how many recordings the request has read.  They may be others by now.
add_recordings_to_playlist(T, known, items, position) ==
    LET at == IF position < 0 THEN known ELSE position
    IN  insert_recordings(IF at < known THEN Reordered(T, at, Len(items)) ELSE T, items, at)

\* Mutant: the rows behind those deleted are looked for one too far.
delete_recordings_from_playlist_OneOff(T, known, from, count) ==
    LET kept == {t \in T : ~(from <= t.pos /\ t.pos < from + count)}
    IN  IF from + count < known THEN Reordered(kept, from + count + 1, -count) ELSE kept

delete_recordings_from_playlist(T, known, from, count) ==
    LET kept == {t \in T : ~(from <= t.pos /\ t.pos < from + count)}
    IN  IF from + count < known THEN Reordered(kept, from + count, -count) ELSE kept

\* The recordings in the order the API lists them.
Before(s, t) == s.pos < t.pos \/ (s.pos = t.pos /\ s.id < t.id)
get_recordings_for_playlists(T) ==
    [k \in 1..Cardinality(T) |->
        LET row == CHOOSE t \in T : Cardinality({s \in T : Before(s, t)}) = k - 1
        IN  [mbid |-> row.mbid, by |-> row.by]]

is_modifiable_by(p, u) == u = playlist[p].creator \/ u \in playlist[p].collab
is_visible_by(p, u) == playlist[p].public \/ is_modifiable_by(p, u)

-----------------------------------------------------------------------------
(* Requests.  Each begins with a read and the checks, which may refuse it; *)
(* a refused request changes nothing and is left out.                      *)

Known(p) == Cardinality(playlist[p].tracks)
Editing(p) == {q \in Requests : req[q].op # "idle" /\ req[q].pl = p}

\* Handler q takes up a request about p.
Begin(q, p, r) ==
    /\ started < MaxRequests
    /\ started' = started + 1
    /\ req[q] = Idle
    /\ req' = [req EXCEPT ![q] = r]
    /\ upset' = [upset EXCEPT ![p] = @ \cup (IF Editing(p) = {} THEN {} ELSE {"overlap"})]
    /\ UNCHANGED <<playlist, last, live, twins>>

AddedBy(u, s) == [k \in DOMAIN s |-> [mbid |-> s[k], by |-> u]]

\* offset -1: none given, at the end
add_playlist_item(q, u, p) ==
    /\ Exists(p) /\ is_modifiable_by(p, u)
    /\ \E at \in -1..(Known(p) + 1), s \in Payloads :
          /\ Known(p) + Len(s) <= MaxTracks
          /\ Begin(q, p, [op |-> "add", pl |-> p, known |-> Known(p), at |-> at, items |-> AddedBy(u, s)])

\* Past the end the deletion raises ValueError before it writes.
delete_playlist_item(q, u, p) ==
    /\ Exists(p) /\ is_modifiable_by(p, u)
    /\ \E index \in 0..(Known(p) - 1), count \in 1..2 :
          Begin(q, p, [op |-> "delete", pl |-> p, known |-> Known(p), from |-> index, count |-> count])

move_playlist_item(q, u, p) ==
    /\ Exists(p) /\ is_modifiable_by(p, u)
    /\ \E from \in 0..(Known(p) - 1), count \in 1..2, to \in 0..Known(p) :
          Begin(q, p, [op |-> "take", pl |-> p, known |-> Known(p), from |-> from, count |-> count, to |-> to,
                       items |-> SubSeq(get_recordings_for_playlists(playlist[p].tracks), from + 1,
                                        IF from + count < Known(p) THEN from + count ELSE Known(p))])

\* The request may leave the visibility out: then it writes back what it has read.
\* Collaborators that it leaves out are removed.
edit_playlist(q, u, p) ==
    /\ Exists(p) /\ u = playlist[p].creator
    /\ \E asks \in {"yes", "no", "same"}, c \in SUBSET ((Users \cap live) \ {u}) :
          Begin(q, p, [op |-> "edit", pl |-> p, asks |-> asks, collab |-> c,
                       public |-> asks = "yes" \/ (asks = "same" /\ playlist[p].public)])

-----------------------------------------------------------------------------
(* The transactions that write. *)

Done(q) == req' = [req EXCEPT ![q] = Idle]

\* Whether the request writes past the end.
Hole(past) == IF past THEN {"hole"} ELSE {}

WriteTracks(p, T, why) ==
    /\ playlist' = [playlist EXCEPT ![p].tracks = T]
    /\ upset' = [upset EXCEPT ![p] = @ \cup why]
    /\ UNCHANGED <<last, live, started, twins>>

\* Rows of a deleted account or playlist violate a foreign key, and the request fails.
CanInsert(r) == Exists(r.pl) /\ \A k \in DOMAIN r.items : r.items[k].by \in live

AddCommits(q) ==
    LET r == req[q] IN
    /\ r.op = "add" /\ CanInsert(r)
    /\ WriteTracks(r.pl, add_recordings_to_playlist(playlist[r.pl].tracks, r.known, r.items, r.at),
                   Hole(r.at > r.known))
    /\ Done(q)

DeleteCommits(q) ==
    LET r == req[q] IN
    /\ r.op = "delete" /\ Exists(r.pl)
    /\ WriteTracks(r.pl, delete_recordings_from_playlist(playlist[r.pl].tracks, r.known, r.from, r.count), {})
    /\ Done(q)

\* The first transaction of a move; the second still goes by the length read before the first.
MoveDeletes(q) ==
    LET r == req[q] IN
    /\ r.op = "take" /\ Exists(r.pl)
    /\ WriteTracks(r.pl, delete_recordings_from_playlist(playlist[r.pl].tracks, r.known, r.from, r.count), {})
    /\ req' = [req EXCEPT ![q] = [op |-> "put", pl |-> r.pl, known |-> r.known, to |-> r.to, items |-> r.items]]

MoveAdds(q) ==
    LET r == req[q] IN
    /\ r.op = "put" /\ CanInsert(r)
    /\ WriteTracks(r.pl, add_recordings_to_playlist(playlist[r.pl].tracks, r.known, r.items, r.to),
                   Hole(r.to + Len(r.items) > r.known))
    /\ Done(q)

EditCommits(q) ==
    LET r == req[q] IN
    /\ r.op = "edit" /\ Exists(r.pl) /\ r.collab \subseteq live
    /\ playlist' = [playlist EXCEPT ![r.pl].public = r.public, ![r.pl].collab = r.collab]
    /\ Done(q)
    /\ UNCHANGED <<last, live, started, upset, twins>>

\* An error or the end of the process: what is not committed is rolled back.
Fails(q) ==
    /\ req[q] # Idle
    /\ Done(q)
    /\ UNCHANGED <<playlist, last, live, started, upset, twins>>

-----------------------------------------------------------------------------
(* Creation and deletion of playlists and accounts. *)

NewPlaylist(creator, madeFor, public, items) ==
    [creator |-> creator, madeFor |-> madeFor, public |-> public, collab |-> {},
     tracks |-> insert_recordings({}, items, 0)]

\* A new playlist takes the next id, and those in old are deleted with their rows.
Create(row, old) ==
    /\ last < MaxPlaylists
    /\ last' = last + 1
    /\ playlist' = [p \in Playlists |-> IF p = last + 1 THEN row ELSE IF p \in old THEN Absent ELSE playlist[p]]
    /\ UNCHANGED <<live, started>>

create_playlist(u) ==
    /\ u \in live
    /\ \E public \in BOOLEAN, s \in Payloads :
          /\ Len(s) <= MaxTracks
          /\ Create(NewPlaylist(u, u, public, AddedBy(u, s)), {})
    /\ UNCHANGED <<req, upset, twins>>

\* The copy keeps the visibility, and who added each recording.
copy_playlist(u, p) ==
    /\ Exists(p) /\ u \in live /\ is_visible_by(p, u)
    /\ Create(NewPlaylist(u, u, playlist[p].public, get_recordings_for_playlists(playlist[p].tracks)), {})
    /\ UNCHANGED <<req, upset, twins>>

delete_playlist(u, p) ==
    /\ Exists(p) /\ u = playlist[p].creator
    /\ playlist' = [playlist EXCEPT ![p] = Absent]
    /\ UNCHANGED <<last, live, req, started, upset, twins>>

\* The playlists that the bot has made for u from one patch.
MadeFor(u) == {p \in Playlists : Exists(p) /\ playlist[p].creator = Bot /\ playlist[p].madeFor = u}

\* Mutant: the deletion is committed before the new playlist is inserted.
RemoveOldPlaylists_Commits(q, u) ==
    /\ u \in live
    /\ req[q] = Idle /\ started < MaxRequests
    /\ started' = started + 1
    /\ req' = [req EXCEPT ![q] = [op |-> "create", pl |-> 0, madeFor |-> u, old |-> {}]]
    /\ playlist' = [p \in Playlists |-> IF p \in MadeFor(u) THEN Absent ELSE playlist[p]]
    /\ UNCHANGED <<last, live, upset, twins>>

\* The bot replaces u's playlist.  The DELETE statement finds the old one ...
RemoveOldPlaylists(q, u) ==
    /\ u \in live
    /\ req[q] = Idle /\ started < MaxRequests
    /\ started' = started + 1
    /\ req' = [req EXCEPT ![q] = [op |-> "create", pl |-> 0, madeFor |-> u, old |-> MadeFor(u)]]
    /\ twins' = IF \E r \in Requests : req[r].op = "create" /\ req[r].madeFor = u THEN twins \cup {u} ELSE twins
    /\ UNCHANGED <<playlist, last, live, upset>>

\* ... and the transaction that deletes it commits with the new one in it.
CreateCommits(q) ==
    LET r == req[q] IN
    /\ r.op = "create" /\ r.madeFor \in live
    /\ \E s \in Payloads : Create(NewPlaylist(Bot, r.madeFor, TRUE, AddedBy(Bot, s)), r.old)
    /\ Done(q)
    /\ UNCHANGED <<upset, twins>>

\* DELETE FROM "user": the foreign keys take the user's playlists, the user as a collaborator,
\* and the recordings that the user has added to the playlists of others.
EraseUser(u) ==
    LET kept(p) == {t \in playlist[p].tracks : t.by # u} IN
    /\ u \in live
    /\ live' = live \ {u}
    /\ playlist' = [p \in Playlists |->
                      IF Exists(p) /\ u \notin {playlist[p].creator, playlist[p].madeFor}
                      THEN [playlist[p] EXCEPT !.collab = @ \ {u}, !.tracks = kept(p)]
                      ELSE Absent]
    /\ upset' = [p \in Playlists |-> upset[p] \cup
                    (IF ~Exists(p) \/ kept(p) = playlist[p].tracks THEN {}
                     ELSE {"hole"} \cup (IF Editing(p) = {} THEN {} ELSE {"overlap"}))]
    /\ UNCHANGED <<last, req, started, twins>>

-----------------------------------------------------------------------------
Init ==
    /\ playlist = [p \in Playlists |-> Absent]
    /\ last = 0
    /\ live = Everyone
    /\ req = [q \in Requests |-> Idle]
    /\ started = 0
    /\ upset = [p \in Playlists |-> {}]
    /\ twins = {}

Edit(q) ==
    \/ \E u \in live, p \in Playlists :
          \/ add_playlist_item(q, u, p)
          \/ delete_playlist_item(q, u, p)
          \/ move_playlist_item(q, u, p)
          \/ edit_playlist(q, u, p)
    \/ \E u \in Users : RemoveOldPlaylists(q, u)

Commit(q) ==
    \/ AddCommits(q)
    \/ DeleteCommits(q)
    \/ MoveDeletes(q)
    \/ MoveAdds(q)
    \/ EditCommits(q)
    \/ CreateCommits(q)

Next ==
    \/ \E q \in Requests : Edit(q) \/ Commit(q) \/ Fails(q)
    \/ \E u \in Users : create_playlist(u) \/ EraseUser(u)
    \/ \E u \in Users, p \in Playlists : copy_playlist(u, p) \/ delete_playlist(u, p)

Spec == Init /\ [][Next]_vars

\* A handler that runs ends.
FairSpec == Spec /\ \A q \in Requests : WF_vars(Commit(q) \/ Fails(q))

-----------------------------------------------------------------------------
(* Properties. *)

\* Playlists, those they are made for, their collaborators and whoever added a recording are there.
TypeOK ==
    /\ \A p \in Playlists : Exists(p) =>
          /\ playlist[p].creator \in live /\ playlist[p].madeFor \in live
          /\ playlist[p].collab \subseteq live
          /\ playlist[p].public \in BOOLEAN
          /\ playlist[p].tracks \in SUBSET [id : Nat, mbid : Mbids, by : live, pos : Nat]
    /\ last \in 0..MaxPlaylists /\ live \subseteq Everyone
    /\ \A p \in Playlists : p > last => ~Exists(p)

Contiguous(T) ==
    /\ \A s, t \in T : s.pos = t.pos => s = t
    /\ \A t \in T : t.pos > 0 => \E s \in T : s.pos = t.pos - 1

\* The positions of a playlist are 0, 1, 2 and so on, unless two requests edited it at once or
\* something left a hole in it: an index past the end, or the deletion of the account that added a
\* recording.
PositionsContiguous == \A p \in Playlists : Exists(p) /\ upset[p] = {} => Contiguous(playlist[p].tracks)

\* A playlist that the bot made for a user is replaced in one step: while the account exists there is
\* always one, and one only unless two were being created at once.
JamsReplaced ==
    [][\A u \in live' \ {Bot} :
          /\ MadeFor(u) # {} => MadeFor(u)' # {}
          /\ u \notin twins' => Cardinality(MadeFor(u)') <= 1]_vars

\* What a request asks for, without what it has read.
AskedOf(r) ==
    CASE r.op \in {"idle", "create"} -> Idle
      [] r.op = "edit" -> [op |-> "edit", pl |-> r.pl, public |-> r.asks]
      [] r.op \in {"add", "put"} -> [x \in DOMAIN r \ {"known"} |-> r[x]]
      [] r.op = "delete" -> [x \in DOMAIN r \ {"known"} |-> r[x]]
      [] r.op = "take" -> [x \in DOMAIN r \ {"known", "items"} |-> r[x]]

Asked(q) == AskedOf(req[q])

Listed(p, why) ==
    IF upset[p] \cap why # {} THEN Unknown
    ELSE IF Exists(p) THEN get_recordings_for_playlists(playlist[p].tracks) ELSE Absent

Shared(p) == Exists(p) /\ playlist[p].public

\* Every request edits the list as it asks, unless the playlist is upset.
Lists == INSTANCE PlaylistLists WITH
    list <- [p \in Playlists |-> Listed(p, {"overlap", "hole"})],
    shared <- [p \in Playlists |-> Shared(p)],
    asked <- [q \in Requests |-> Asked(q)]

ListsAsAsked == Lists!Spec

\* The same although holes may have come about: "append them" is what add_recordings_to_playlist says
\* of a position past the end.
HoledLists == INSTANCE PlaylistLists WITH
    list <- [p \in Playlists |-> Listed(p, {"overlap"})],
    shared <- [p \in Playlists |-> Shared(p)],
    asked <- [q \in Requests |-> Asked(q)]

HoledListsAsAsked == HoledLists!Spec

=============================================================================
