---------------------------- MODULE ListensCache ----------------------------
(***************************************************************************)
(* The cached pages of a user's listens in Redis and the user's cached     *)
(* listen count: readers that fill them, and the changes of the listens    *)
(* database that invalidate them afterwards.  The keys of the user's pages *)
(* are tracked in a Redis set, user_listens_cache:<user_id>.  The users    *)
(* are independent of each other, so there is one.                         *)
(***************************************************************************)
EXTENDS Integers, FiniteSets, FiniteSetsExt

CONSTANTS
    Listens,        \* the timestamps at which the user may have a listen
    Pages,          \* what the pages select: sets of timestamps
    Readers,        \* requests that read listens or their number
    Changers,       \* processes that change the listens and invalidate the caches
    MaxChanges,     \* bound: changes made
    MaxFailures,    \* bound: readers and invalidations that fail
    None            \* no value

ASSUME ListensAssumption == Listens \subseteq Nat \ {0} /\ IsFiniteSet(Listens)
ASSUME PagesAssumption == Pages \subseteq SUBSET Listens

VARIABLES
    db,         \* the user's committed listens in the listens database
    pending,    \* listens whose deletion is requested
    page,       \* the cached pages
    count,      \* the cached listen count
    tracking,   \* the keys in the user's tracking set
    rpc,        \* progress of each reader
    key,        \* the page it reads
    read,       \* what it has read
    cpc,        \* progress of each change: idle, count, members, pages, tracking
    keys,       \* the keys it has got from the tracking set
    gone,       \* the listens it has deleted
    changes, failures,
    overlap,    \* history variable: readers during which listens changed or keys were untracked
    excused,    \* history variable: pages filled or untracked by a race, or not invalidated
    late,       \* history variable: the cached count was filled by such a reader
    deleted     \* history variable: deleted listens whose invalidation has finished

redis == <<page, count, tracking>>
reader == <<rpc, key, read>>
changer == <<cpc, keys, gone>>
tracked == <<overlap, excused, late, deleted>>
vars == <<db, pending, redis, reader, changer, changes, failures, tracked>>

Init ==
    /\ db \in SUBSET Listens
    /\ pending = {}
    /\ page = [p \in Pages |-> None]
    /\ count = None
    /\ tracking = {}
    /\ rpc = [r \in Readers |-> "idle"]
    /\ key = [r \in Readers |-> None]
    /\ read = [r \in Readers |-> None]
    /\ cpc = [c \in Changers |-> "idle"]
    /\ keys = [c \in Changers |-> {}]
    /\ gone = [c \in Changers |-> {}]
    /\ changes = 0 /\ failures = 0
    /\ overlap = {} /\ excused = {} /\ late = FALSE /\ deleted = {}

-----------------------------------------------------------------------------
(* fetch_listens_with_cache() and get_listen_count_for_user() *)

\* The bounds that get_timestamps_for_user() reads, EPOCH for a user without listens.
Bounds(S) == IF S = {} THEN <<0, 0>> ELSE <<Min(S), Max(S)>>

\* What a page holds when both of its queries see the listens S.
Content(p, S) == [listens |-> p \cap S, bounds |-> Bounds(S)]

Goto(r, p) == rpc' = [rpc EXCEPT ![r] = p]

\* A page that is cached is served and changes nothing.
BeginPage(r, p) ==
    /\ rpc[r] = "idle" /\ page[p] = None
    /\ Goto(r, "listens")
    /\ key' = [key EXCEPT ![r] = p]
    /\ overlap' = overlap \ {r}
    /\ UNCHANGED <<db, pending, redis, read, changer, changes, failures, excused, late, deleted>>

QueryListens(r) ==
    /\ rpc[r] = "listens"
    /\ read' = [read EXCEPT ![r] = [listens |-> key[r] \cap db, bounds |-> <<0, 0>>]]
    /\ Goto(r, "bounds")
    /\ UNCHANGED <<db, pending, redis, key, changer, changes, failures, tracked>>

\* Another connection, with a snapshot of its own.
QueryBounds(r) ==
    /\ rpc[r] = "bounds"
    /\ read' = [read EXCEPT ![r].bounds = Bounds(db)]
    /\ Goto(r, "track")
    /\ UNCHANGED <<db, pending, redis, key, changer, changes, failures, tracked>>

Track(r) ==
    /\ rpc[r] = "track"
    /\ tracking' = tracking \cup {key[r]}
    /\ Goto(r, "fill")
    /\ UNCHANGED <<db, pending, page, count, key, read, changer, changes, failures, tracked>>

Fill(r) ==
    /\ rpc[r] = "fill"
    /\ page' = [page EXCEPT ![key[r]] = read[r]]
    /\ excused' = IF r \in overlap THEN excused \cup {key[r]} ELSE excused
    /\ Goto(r, "idle")
    /\ read' = [read EXCEPT ![r] = None]
    /\ key' = [key EXCEPT ![r] = None]
    /\ UNCHANGED <<db, pending, count, tracking, changer, changes, failures, overlap, late, deleted>>

\* A count of zero is not taken from the cache.
BeginCount(r) ==
    /\ rpc[r] = "idle" /\ count \in {None, 0}
    /\ read' = [read EXCEPT ![r] = Cardinality(db)]
    /\ Goto(r, "count")
    /\ overlap' = overlap \ {r}
    /\ UNCHANGED <<db, pending, redis, key, changer, changes, failures, excused, late, deleted>>

FillCount(r) ==
    /\ rpc[r] = "count"
    /\ count' = read[r]
    /\ late' = (r \in overlap)
    /\ Goto(r, "idle")
    /\ read' = [read EXCEPT ![r] = None]
    /\ UNCHANGED <<db, pending, page, tracking, key, changer, changes, failures, overlap, excused,
                   deleted>>

\* An error of the database or of Redis fails the request.
ReaderFails(r) ==
    /\ rpc[r] # "idle" /\ failures < MaxFailures
    /\ failures' = failures + 1
    /\ Goto(r, "idle")
    /\ read' = [read EXCEPT ![r] = None]
    /\ key' = [key EXCEPT ![r] = None]
    /\ UNCHANGED <<db, pending, redis, changer, changes, tracked>>

-----------------------------------------------------------------------------
(* The changes: each commits in the database and then invalidates *)

Busy == {r \in Readers : rpc[r] # "idle"}

Change(c, p) ==
    /\ cpc[c] = "idle" /\ changes < MaxChanges
    /\ changes' = changes + 1
    /\ cpc' = [cpc EXCEPT ![c] = p]
    /\ overlap' = overlap \cup Busy

\* The timescale writer: new listens leave the cached count to its expiry.
Ingest(c) ==
    /\ Change(c, "members")
    /\ \E l \in Listens \ db : db' = db \cup {l} /\ deleted' = deleted \ {l}
    /\ UNCHANGED <<pending, redis, reader, keys, gone, failures, excused, late>>

\* The delete-listen endpoint: the request is queued and the listen is still there.
RequestDeletion(c) ==
    /\ Change(c, "members")
    /\ \E l \in Listens : pending' = pending \cup {l}
    /\ UNCHANGED <<db, redis, reader, keys, gone, failures, excused, late, deleted>>

\* delete_listens() in the cron container: only users whose listens it deleted are returned.
DeletePending(c) ==
    /\ pending # {}
    /\ Change(c, IF pending \cap db = {} THEN "idle" ELSE "count")
    /\ db' = db \ pending
    /\ gone' = [gone EXCEPT ![c] = pending \cap db]
    /\ pending' = {}
    /\ UNCHANGED <<redis, reader, keys, failures, excused, late, deleted>>

\* delete_listens_history() in the background task: listens created after the cutoff remain.
DeleteHistory(c) ==
    /\ Change(c, "count")
    /\ \E S \in SUBSET db :
          /\ gone' = [gone EXCEPT ![c] = S]
          /\ db' = db \ S
    /\ UNCHANGED <<pending, redis, reader, keys, failures, excused, late, deleted>>

\* delete_user(), which invalidates nothing.
DeleteAccount(c) ==
    /\ Change(c, "idle")
    /\ db' \in SUBSET db
    /\ excused' = Pages /\ late' = TRUE
    /\ UNCHANGED <<pending, redis, reader, keys, gone, failures, deleted>>

\* Mutation: the cached count is left to its expiry.
DeleteCount_Keeps(c) ==
    /\ cpc[c] = "count"
    /\ cpc' = [cpc EXCEPT ![c] = "members"]
    /\ UNCHANGED <<db, pending, redis, reader, keys, gone, changes, failures, overlap, excused,
                   late, deleted>>

DeleteCount(c) ==
    /\ cpc[c] = "count"
    /\ count' = None /\ late' = FALSE
    /\ cpc' = [cpc EXCEPT ![c] = "members"]
    /\ UNCHANGED <<db, pending, page, tracking, reader, keys, gone, changes, failures, overlap, excused,
                   deleted>>

-----------------------------------------------------------------------------
(* invalidate_user_listen_caches(): three requests to Redis *)

Finished(c) ==
    /\ keys' = [keys EXCEPT ![c] = {}]
    /\ gone' = [gone EXCEPT ![c] = {}]
    /\ deleted' = deleted \cup (gone[c] \ db)

\* Mutation: the tracking set is deleted before the pages, which are then not known.
ReadMembers_DeletesFirst(c) ==
    /\ cpc[c] = "members"
    /\ cpc' = [cpc EXCEPT ![c] = "idle"] /\ Finished(c)
    /\ tracking' = {}
    /\ UNCHANGED <<db, pending, page, count, reader, changes, failures, overlap, excused,
                   late>>

ReadMembers(c) ==
    /\ cpc[c] = "members"
    /\ IF tracking = {}
       THEN cpc' = [cpc EXCEPT ![c] = "idle"] /\ Finished(c)
       ELSE /\ cpc' = [cpc EXCEPT ![c] = "pages"]
            /\ keys' = [keys EXCEPT ![c] = tracking]
            /\ UNCHANGED <<gone, deleted>>
    /\ UNCHANGED <<db, pending, redis, reader, changes, failures, overlap, excused, late>>

DeletePages(c) ==
    /\ cpc[c] = "pages"
    /\ page' = [p \in Pages |-> IF p \in keys[c] THEN None ELSE page[p]]
    /\ excused' = excused \ keys[c]
    /\ cpc' = [cpc EXCEPT ![c] = "tracking"]
    /\ UNCHANGED <<db, pending, count, tracking, reader, keys, gone, changes, failures, overlap, late,
                   deleted>>

\* A key added since ReadMembers loses its tracking, and a page filled since DeletePages too.
DeleteTracking(c) ==
    /\ cpc[c] = "tracking"
    /\ tracking' = {}
    /\ excused' = excused \cup {p \in tracking : page[p] # None \/ p \notin keys[c]}
    /\ cpc' = [cpc EXCEPT ![c] = "idle"]
    /\ overlap' = overlap \cup Busy
    /\ Finished(c)
    /\ UNCHANGED <<db, pending, page, count, reader, changes, failures, late>>

\* An error of Redis: logged by the writer, raised by the others; nobody invalidates again.
InvalidationFails(c) ==
    /\ cpc[c] # "idle" /\ failures < MaxFailures
    /\ failures' = failures + 1
    /\ excused' = Pages /\ late' = TRUE
    /\ cpc' = [cpc EXCEPT ![c] = "idle"]
    /\ keys' = [keys EXCEPT ![c] = {}]
    /\ gone' = [gone EXCEPT ![c] = {}]
    /\ UNCHANGED <<db, pending, redis, reader, changes, overlap, deleted>>

-----------------------------------------------------------------------------
(* Expiry: an hour for a page, twice as long for the tracking set, which every Track renews, *)
(* five minutes for the count.                                                              *)

ExpirePage(p) ==
    /\ page[p] # None
    /\ page' = [page EXCEPT ![p] = None]
    /\ excused' = excused \ {p}
    /\ UNCHANGED <<db, pending, count, tracking, reader, changer, changes, failures, overlap, late,
                   deleted>>

ExpireTracking ==
    /\ tracking # {} /\ \A p \in Pages : page[p] = None
    /\ \A r \in Readers : rpc[r] # "fill"
    /\ tracking' = {}
    /\ UNCHANGED <<db, pending, page, count, reader, changer, changes, failures, tracked>>

ExpireCount ==
    /\ count # None
    /\ count' = None /\ late' = FALSE
    /\ UNCHANGED <<db, pending, page, tracking, reader, changer, changes, failures, overlap,
                   excused, deleted>>

Next ==
    \/ \E r \in Readers :
          \/ \E p \in Pages : BeginPage(r, p)
          \/ QueryListens(r) \/ QueryBounds(r) \/ Track(r) \/ Fill(r)
          \/ BeginCount(r) \/ FillCount(r) \/ ReaderFails(r)
    \/ \E c \in Changers :
          \/ Ingest(c) \/ RequestDeletion(c) \/ DeletePending(c) \/ DeleteHistory(c)
          \/ DeleteAccount(c) \/ DeleteCount(c) \/ ReadMembers(c) \/ DeletePages(c)
          \/ DeleteTracking(c) \/ InvalidationFails(c)
    \/ \E p \in Pages : ExpirePage(p)
    \/ ExpireTracking \/ ExpireCount

Spec == Init /\ [][Next]_vars

-----------------------------------------------------------------------------
(* Properties *)

PageData == [listens : SUBSET Listens, bounds : (Listens \cup {0}) \X (Listens \cup {0})]

\* The variables have the types of the Redis values and of the local state.
TypeOK ==
    /\ db \subseteq Listens /\ pending \subseteq Listens
    /\ page \in [Pages -> PageData \cup {None}]
    /\ count \in Nat \cup {None}
    /\ tracking \subseteq Pages
    /\ rpc \in [Readers -> {"idle", "listens", "bounds", "track", "fill", "count"}]
    /\ key \in [Readers -> Pages \cup {None}]
    /\ \A r \in Readers :
          CASE rpc[r] \in {"bounds", "track", "fill"} -> key[r] \in Pages /\ read[r] \in PageData
            [] rpc[r] = "count" -> key[r] = None /\ read[r] \in Nat
            [] rpc[r] = "listens" -> key[r] \in Pages /\ read[r] = None
            [] rpc[r] = "idle" -> key[r] = None /\ read[r] = None
    /\ cpc \in [Changers -> {"idle", "count", "members", "pages", "tracking"}]
    /\ keys \in [Changers -> SUBSET Pages] /\ gone \in [Changers -> SUBSET Listens]
    /\ overlap \subseteq Readers /\ excused \subseteq Pages /\ late \in BOOLEAN
    /\ deleted \subseteq Listens

\* The database has changed and some of the cached values have still to be invalidated.
Invalidating == \E c \in Changers : cpc[c] # "idle"

\* A stale or torn page is the doing of a reader that overlapped a change, of a key that was
\* added to the tracking set while it was being deleted, or of an invalidation that failed or
\* was never made: any other cached page is what the two queries would return now.
PagesFresh ==
    ~Invalidating =>
        \A p \in Pages \ excused : page[p] # None => page[p] = Content(p, db)

\* Whoever deletes listens deletes the cached count: it may lag behind ingestion but does not
\* count listens that are gone, unless its reader overlapped the deletion.
CountNotAhead ==
    (~Invalidating /\ ~late /\ count # None) => count <= Cardinality(db)

\* invalidate_user_listen_caches(): "Invalidate all cached listens for a user".
InvalidatesAll ==
    [][\A c \in Changers : ReadMembers(c) => {p \in Pages : page[p] # None} \subseteq tracking]_vars

\* delete_listens(): "reads can cache the listen again until it is actually deleted here, so
\* invalidate the affected users again".
DeletedNotCached ==
    \A p \in Pages : page[p] # None => page[p].listens \cap deleted = {}
=============================================================================
