-------------------------- MODULE ListensCacheProofs --------------------------
(***************************************************************************)
(* Theorems of ListensCache for every number of readers, changers, pages   *)
(* and failures: a page that is cached is fresh unless a race excuses it   *)
(* (PagesFresh), the cached count is not ahead of the database             *)
(* (CountNotAhead), and everything has its type (TypeOK).                  *)
(***************************************************************************)
EXTENDS ListensCache, FiniteSetTheorems, WellFoundedInduction, TLAPS

-------------------------------------------------------------------------------
(* The inductive invariant *)

\* What the proofs need of the types.
TypeInv ==
    /\ db \in SUBSET Listens
    /\ DOMAIN page = Pages
    /\ count \in Nat \cup {None}
    /\ rpc \in [Readers -> {"idle", "listens", "bounds", "track", "fill", "count"}]
    /\ DOMAIN key = Readers
    /\ DOMAIN read = Readers
    /\ \A r \in Readers :
          /\ rpc[r] = "bounds" => \E S : read[r] = [listens |-> S, bounds |-> <<0, 0>>]
          /\ rpc[r] = "count" => read[r] \in Nat
          /\ rpc[r] \in {"listens", "bounds", "track", "fill"} => key[r] \in Pages
    /\ cpc \in [Changers -> {"idle", "count", "members", "pages", "tracking"}]
    /\ DOMAIN keys = Changers /\ DOMAIN gone = Changers

\* A reader that no change has overlapped has read what is in the database now, and its key is tracked
\* when it fills the page.
ReadsCurrent ==
    \A r \in Readers \ overlap :
       /\ rpc[r] = "bounds" => read[r].listens = key[r] \cap db
       /\ rpc[r] \in {"track", "fill"} => read[r] = Content(key[r], db)
       /\ rpc[r] = "fill" => key[r] \in tracking
       /\ rpc[r] = "count" => read[r] = Cardinality(db)

\* An invalidation will find a cached page, or is excused from that.
CachedTracked == \A p \in Pages \ excused : page[p] # None => p \in tracking

\* Somebody is about to delete the page.
Doomed(p) ==
    \E c \in Changers : \/ cpc[c] \in {"count", "members"} /\ p \in tracking
                        \/ cpc[c] = "pages" /\ p \in keys[c]

StaleDoomed ==
    \A p \in Pages \ excused : page[p] # None /\ page[p] # Content(p, db) => Doomed(p)

\* Somebody is about to delete a count that is ahead.
AheadDoomed ==
    ~ late /\ count # None => count <= Cardinality(db) \/ \E c \in Changers : cpc[c] = "count"

CacheInv == TypeInv /\ ReadsCurrent /\ CachedTracked /\ StaleDoomed /\ AheadDoomed

LEMMA CacheInit == Init => CacheInv
  <1> SUFFICES ASSUME Init PROVE CacheInv
    OBVIOUS
  <1>1. TypeInv
    BY DEF Init, TypeInv
  <1> QED
    BY <1>1 DEF Init, CacheInv, ReadsCurrent, CachedTracked, StaleDoomed, AheadDoomed

\* Whoever reads while the database changes, or while keys lose their tracking, is overlapped.
LEMMA BusyOverlapped ==
    ASSUME TypeInv, overlap' = overlap \cup Busy, UNCHANGED reader, NEW r \in Readers \ overlap'
    PROVE  rpc'[r] = "idle"
  BY DEF Busy, reader

LEMMA NoneCurrent ==
    ASSUME TypeInv, overlap' = overlap \cup Busy, UNCHANGED reader
    PROVE  ReadsCurrent'
  <1>1. \A r \in Readers \ overlap' : rpc'[r] = "idle"
    BY BusyOverlapped
  <1> QED
    BY <1>1 DEF ReadsCurrent

LEMMA ReadsKept ==
    ASSUME ReadsCurrent, UNCHANGED <<db, reader, overlap>>, tracking \subseteq tracking'
    PROVE  ReadsCurrent'
  <1>1. rpc' = rpc /\ key' = key /\ read' = read
    BY DEF reader
  <1> QED
    BY <1>1 DEF ReadsCurrent, Content

-------------------------------------------------------------------------------
(* The readers *)

LEMMA ReaderStep ==
    ASSUME CacheInv, NEW r \in Readers,
           \/ \E p \in Pages : BeginPage(r, p)
           \/ QueryListens(r) \/ QueryBounds(r) \/ Track(r) \/ Fill(r)
           \/ BeginCount(r) \/ FillCount(r) \/ ReaderFails(r)
    PROVE  CacheInv'
  <1>0. TypeInv /\ ReadsCurrent /\ CachedTracked /\ StaleDoomed /\ AheadDoomed
    BY DEF CacheInv
  <1>1. db' = db /\ cpc' = cpc /\ keys' = keys /\ gone' = gone
    BY DEF BeginPage, QueryListens, QueryBounds, Track, Fill, BeginCount, FillCount, ReaderFails, changer
  <1>2. \A q \in Readers \ {r} : rpc'[q] = rpc[q] /\ key'[q] = key[q] /\ read'[q] = read[q]
    BY <1>0 DEF BeginPage, QueryListens, QueryBounds, Track, Fill, BeginCount, FillCount, ReaderFails,
                Goto, reader, TypeInv
  <1>3. tracking \subseteq tracking' /\ \A q \in Readers \ {r} : q \in overlap' <=> q \in overlap
    BY DEF BeginPage, QueryListens, QueryBounds, Track, Fill, BeginCount, FillCount, ReaderFails,
           redis, tracked
  <1>4. TypeInv'
    <2>1. DOMAIN page' = Pages /\ DOMAIN key' = Readers /\ DOMAIN read' = Readers
          /\ rpc' \in [Readers -> {"idle", "listens", "bounds", "track", "fill", "count"}]
      BY <1>0 DEF BeginPage, QueryListens, QueryBounds, Track, Fill, BeginCount, FillCount, ReaderFails,
                  Goto, redis, TypeInv
    <2>2. rpc'[r] = "bounds" => \E S : read'[r] = [listens |-> S, bounds |-> <<0, 0>>]
      BY <1>0 DEF BeginPage, QueryListens, QueryBounds, Track, Fill, BeginCount, FillCount, ReaderFails,
                  Goto, TypeInv
    <2>3. rpc'[r] \in {"listens", "bounds", "track", "fill"} => key'[r] \in Pages
      BY <1>0 DEF BeginPage, QueryListens, QueryBounds, Track, Fill, BeginCount, FillCount, ReaderFails,
                  Goto, TypeInv
    <2>4. rpc'[r] = "count" => read'[r] \in Nat
      <3>1. Cardinality(db) \in Nat
        BY <1>0, ListensAssumption, FS_Subset, FS_CardinalityType DEF TypeInv
      <3> QED
        BY <1>0, <3>1 DEF BeginPage, QueryListens, QueryBounds, Track, Fill, BeginCount, FillCount,
                          ReaderFails, Goto, TypeInv
    <2>5. count' \in Nat \cup {None}
      BY <1>0 DEF BeginPage, QueryListens, QueryBounds, Track, Fill, BeginCount, FillCount,
                  ReaderFails, redis, TypeInv
    <2> QED
      BY <1>0, <1>1, <1>2, <2>1, <2>2, <2>3, <2>4, <2>5 DEF TypeInv
  <1>5. ReadsCurrent'
    <2>1. ASSUME NEW q \in Readers \ overlap', q # r
          PROVE  /\ rpc'[q] = "bounds" => read'[q].listens = key'[q] \cap db'
                 /\ rpc'[q] \in {"track", "fill"} => read'[q] = Content(key'[q], db')
                 /\ rpc'[q] = "fill" => key'[q] \in tracking'
                 /\ rpc'[q] = "count" => read'[q] = Cardinality(db')
      BY <1>0, <1>1, <1>2, <1>3, <2>1 DEF ReadsCurrent
    <2>2. ASSUME r \notin overlap'
          PROVE  /\ rpc'[r] = "bounds" => read'[r].listens = key'[r] \cap db'
                 /\ rpc'[r] \in {"track", "fill"} => read'[r] = Content(key'[r], db')
                 /\ rpc'[r] = "fill" => key'[r] \in tracking'
                 /\ rpc'[r] = "count" => read'[r] = Cardinality(db')
      <3>1. CASE (\E p \in Pages : BeginPage(r, p)) \/ Fill(r) \/ FillCount(r) \/ ReaderFails(r)
        BY <1>0, <3>1 DEF BeginPage, Fill, FillCount, ReaderFails, Goto, TypeInv
      <3>2. CASE QueryListens(r)
        BY <1>0, <1>1, <3>2 DEF QueryListens, Goto, TypeInv
      <3>3. CASE QueryBounds(r)
        <4>1. rpc[r] = "bounds" /\ r \notin overlap /\ rpc'[r] = "track" /\ key' = key
          BY <1>0, <2>2, <3>3 DEF QueryBounds, Goto, TypeInv, tracked
        <4>2. PICK S : read[r] = [listens |-> S, bounds |-> <<0, 0>>]
          BY <1>0, <4>1 DEF TypeInv
        <4>3. S = key[r] \cap db
          BY <1>0, <4>1, <4>2 DEF ReadsCurrent
        <4>4. read'[r] = [listens |-> S, bounds |-> Bounds(db)]
          BY <1>0, <3>3, <4>2 DEF QueryBounds, TypeInv
        <4> QED
          BY <1>1, <4>1, <4>3, <4>4 DEF Content
      <3>4. CASE Track(r)
        BY <1>0, <1>1, <2>2, <3>4 DEF Track, Goto, TypeInv, ReadsCurrent, tracked
      <3>5. CASE BeginCount(r)
        BY <1>0, <1>1, <3>5 DEF BeginCount, Goto, TypeInv
      <3> QED
        BY <3>1, <3>2, <3>3, <3>4, <3>5
    <2> QED
      BY <2>1, <2>2 DEF ReadsCurrent
  <1>6. \A p \in Pages \ excused' : page'[p] # None =>
           \/ p \notin excused /\ page'[p] = page[p]
           \/ p \in tracking' /\ page'[p] = Content(p, db')
    <2>1. CASE Fill(r)
      <3>1. page' = [page EXCEPT ![key[r]] = read[r]]
            /\ excused' = IF r \in overlap THEN excused \cup {key[r]} ELSE excused
        BY <2>1 DEF Fill
      <3>2. r \notin overlap => read[r] = Content(key[r], db) /\ key[r] \in tracking
        BY <1>0, <2>1 DEF Fill, ReadsCurrent
      <3> QED
        BY <1>0, <1>1, <1>3, <3>1, <3>2 DEF TypeInv
    <2>2. CASE ~ Fill(r)
      BY <2>2 DEF BeginPage, QueryListens, QueryBounds, Track, BeginCount, FillCount, ReaderFails,
                  redis, tracked
    <2> QED
      BY <2>1, <2>2
  <1>7. CachedTracked'
    BY <1>0, <1>3, <1>6 DEF CachedTracked
  <1>8. StaleDoomed'
    <2> SUFFICES ASSUME NEW p \in Pages \ excused', page'[p] # None, page'[p] # Content(p, db')
                 PROVE  Doomed(p)'
      BY DEF StaleDoomed, Content
    <2>1. p \notin excused /\ page'[p] = page[p]
      BY <1>6
    <2>2. Doomed(p)
      BY <1>0, <1>1, <2>1 DEF StaleDoomed
    <2> QED
      BY <1>1, <1>3, <2>2 DEF Doomed
  <1>9. AheadDoomed'
    <2>1. CASE FillCount(r)
      <3>1. count' = read[r] /\ (~ late' => r \notin overlap)
        BY <2>1, Zenon DEF FillCount
      <3>3. r \notin overlap => read[r] = Cardinality(db)
        BY <1>0, <2>1 DEF FillCount, ReadsCurrent
      <3>2. Cardinality(db) \in Nat
        BY <1>0, ListensAssumption, FS_Subset, FS_CardinalityType DEF TypeInv
      <3> QED
        BY <1>1, <3>1, <3>2, <3>3 DEF AheadDoomed
    <2>2. CASE ~ FillCount(r)
      <3>1. count' = count /\ late' = late
        BY <2>2 DEF BeginPage, QueryListens, QueryBounds, Track, Fill, BeginCount, ReaderFails,
                    redis, tracked
      <3> QED
        BY <1>0, <1>1, <3>1 DEF AheadDoomed
    <2> QED
      BY <2>1, <2>2
  <1> QED
    BY <1>4, <1>5, <1>7, <1>8, <1>9 DEF CacheInv

-------------------------------------------------------------------------------
(* The changes *)

\* A change that leads to an invalidation, or changes nothing: the cached pages are tracked, which is how
\* the invalidation finds them.
LEMMA ChangeStep ==
    ASSUME CacheInv, NEW c \in Changers, NEW next \in {"idle", "count", "members"}, Change(c, next),
           UNCHANGED <<redis, reader, keys, excused, late>>, db' \in SUBSET Listens,
           DOMAIN gone' = Changers,
           next = "idle" => db' = db,
           next # "count" => db \subseteq db'
    PROVE  CacheInv'
  <1>0. TypeInv /\ ReadsCurrent /\ CachedTracked /\ StaleDoomed /\ AheadDoomed
    BY DEF CacheInv
  <1>1. /\ cpc[c] = "idle" /\ cpc' = [cpc EXCEPT ![c] = next] /\ overlap' = overlap \cup Busy
        /\ page' = page /\ count' = count /\ tracking' = tracking
        /\ rpc' = rpc /\ key' = key /\ read' = read
    BY DEF Change, redis, reader
  <1>2. cpc'[c] = next /\ \A b \in Changers \ {c} : cpc'[b] = cpc[b]
    BY <1>0, <1>1 DEF TypeInv
  <1>3. TypeInv'
    BY <1>0, <1>1 DEF TypeInv
  <1>4. ReadsCurrent'
    BY <1>0, <1>1, NoneCurrent DEF reader
  <1>5. CachedTracked'
    BY <1>0, <1>1 DEF CachedTracked
  <1>6. \A p \in Pages : Doomed(p) => Doomed(p)'
    BY <1>1, <1>2 DEF Doomed
  <1>7. StaleDoomed'
    <2> SUFFICES ASSUME NEW p \in Pages \ excused', page'[p] # None, page'[p] # Content(p, db')
                 PROVE  Doomed(p)'
      BY DEF StaleDoomed, Content
    <2>1. CASE next = "idle"
      BY <1>0, <1>1, <1>6, <2>1 DEF StaleDoomed
    <2>2. CASE next # "idle"
      BY <1>0, <1>1, <1>2, <2>2 DEF CachedTracked, Doomed
    <2> QED
      BY <2>1, <2>2
  <1>8. AheadDoomed'
    <2>1. CASE next = "count"
      BY <1>2, <2>1 DEF AheadDoomed
    <2>2. CASE next # "count"
      <3>1. /\ Cardinality(db) <= Cardinality(db')
            /\ Cardinality(db) \in Nat /\ Cardinality(db') \in Nat
        BY <1>0, <2>2, ListensAssumption, FS_Subset, FS_CardinalityType DEF TypeInv
      <3>2. ASSUME ~ late', count' # None
            PROVE  count' <= Cardinality(db') \/ \E b \in Changers : cpc'[b] = "count"
        <4>1. CASE \E b \in Changers : cpc[b] = "count"
          BY <1>1, <1>2, <4>1
        <4>2. CASE count <= Cardinality(db)
          BY <1>0, <1>1, <3>1, <3>2, <4>2 DEF TypeInv
        <4> QED
          BY <1>0, <1>1, <3>2, <4>1, <4>2 DEF AheadDoomed
      <3> QED
        BY <3>2 DEF AheadDoomed
    <2> QED
      BY <2>1, <2>2
  <1> QED
    BY <1>3, <1>4, <1>5, <1>7, <1>8 DEF CacheInv

LEMMA ChangesStep ==
    ASSUME CacheInv, NEW c \in Changers,
           Ingest(c) \/ RequestDeletion(c) \/ DeletePending(c) \/ DeleteHistory(c)
    PROVE  CacheInv'
  <1>0. TypeInv
    BY DEF CacheInv
  <1>1. CASE Ingest(c)
    <2>1. Change(c, "members") /\ db \subseteq db' /\ db' \in SUBSET Listens
          /\ UNCHANGED <<redis, reader, keys, excused, late, gone>>
      BY <1>0, <1>1 DEF Ingest, TypeInv
    <2> QED
      BY <1>0, <2>1, ChangeStep DEF TypeInv
  <1>2. CASE RequestDeletion(c)
    <2>1. Change(c, "members") /\ db' = db /\ UNCHANGED <<redis, reader, keys, excused, late, gone>>
      BY <1>2 DEF RequestDeletion
    <2> QED
      BY <1>0, <2>1, ChangeStep DEF TypeInv
  <1>3. CASE DeletePending(c)
    <2>1. /\ UNCHANGED <<redis, reader, keys, excused, late>> /\ db' \in SUBSET Listens
          /\ DOMAIN gone' = Changers
      BY <1>0, <1>3 DEF DeletePending, TypeInv
    <2>2. CASE pending \cap db = {}
      <3>1. Change(c, "idle") /\ db' = db
        BY <1>3, <2>2 DEF DeletePending
      <3> QED
        BY <2>1, <3>1, ChangeStep
    <2>3. CASE pending \cap db # {}
      <3>1. Change(c, "count")
        BY <1>3, <2>3 DEF DeletePending
      <3> QED
        BY <2>1, <3>1, ChangeStep
    <2> QED
      BY <2>2, <2>3
  <1>4. CASE DeleteHistory(c)
    <2>1. /\ UNCHANGED <<redis, reader, keys, excused, late>> /\ db' \in SUBSET Listens
          /\ DOMAIN gone' = Changers /\ Change(c, "count")
      BY <1>0, <1>4 DEF DeleteHistory, TypeInv
    <2> QED
      BY <2>1, ChangeStep
  <1> QED
    BY <1>1, <1>2, <1>3, <1>4

\* Nobody invalidates: all is excused.
LEMMA AllExcused ==
    ASSUME CacheInv, TypeInv', ReadsCurrent', excused' = Pages, late' = TRUE
    PROVE  CacheInv'
  BY DEF CacheInv, CachedTracked, StaleDoomed, AheadDoomed

LEMMA DeleteAccountStep ==
    ASSUME CacheInv, NEW c \in Changers, DeleteAccount(c)
    PROVE  CacheInv'
  <1>0. TypeInv
    BY DEF CacheInv
  <1>1. TypeInv'
    BY <1>0 DEF DeleteAccount, Change, TypeInv, redis, reader
  <1>2. ReadsCurrent'
    BY <1>0, NoneCurrent DEF DeleteAccount, Change
  <1> QED
    BY <1>1, <1>2, AllExcused DEF DeleteAccount

LEMMA InvalidationFailsStep ==
    ASSUME CacheInv, NEW c \in Changers, InvalidationFails(c)
    PROVE  CacheInv'
  <1>0. TypeInv /\ ReadsCurrent
    BY DEF CacheInv
  <1>1. TypeInv'
    BY <1>0 DEF InvalidationFails, TypeInv, redis, reader
  <1>2. ReadsCurrent'
    BY <1>0, ReadsKept DEF InvalidationFails, redis
  <1> QED
    BY <1>1, <1>2, AllExcused DEF InvalidationFails

LEMMA DeleteCountStep ==
    ASSUME CacheInv, NEW c \in Changers, DeleteCount(c)
    PROVE  CacheInv'
  <1>0. TypeInv /\ ReadsCurrent /\ CachedTracked /\ StaleDoomed
    BY DEF CacheInv
  <1>1. /\ UNCHANGED <<db, page, tracking, reader, keys, gone, overlap, excused>> /\ count' = None
        /\ cpc[c] = "count" /\ cpc' = [cpc EXCEPT ![c] = "members"]
    BY DEF DeleteCount
  <1>2. TypeInv'
    BY <1>0, <1>1 DEF TypeInv, reader
  <1>3. ReadsCurrent'
    BY <1>0, <1>1, ReadsKept
  <1>4. CachedTracked'
    BY <1>0, <1>1 DEF CachedTracked
  <1>5. \A p \in Pages : Doomed(p) => Doomed(p)'
    BY <1>0, <1>1 DEF Doomed, TypeInv
  <1>6. StaleDoomed'
    BY <1>0, <1>1, <1>5 DEF StaleDoomed, Content
  <1> QED
    BY <1>1, <1>2, <1>3, <1>4, <1>6 DEF CacheInv, AheadDoomed

-------------------------------------------------------------------------------
(* The invalidation *)

LEMMA ReadMembersStep ==
    ASSUME CacheInv, NEW c \in Changers, ReadMembers(c)
    PROVE  CacheInv'
  <1>0. TypeInv /\ ReadsCurrent /\ CachedTracked /\ StaleDoomed /\ AheadDoomed
    BY DEF CacheInv
  <1>1. /\ UNCHANGED <<db, page, count, tracking, reader, overlap, excused, late>> /\ cpc[c] = "members"
        /\ \/ tracking = {} /\ cpc' = [cpc EXCEPT ![c] = "idle"]
           \/ /\ tracking # {} /\ cpc' = [cpc EXCEPT ![c] = "pages"]
              /\ keys' = [keys EXCEPT ![c] = tracking]
        /\ DOMAIN keys' = Changers /\ DOMAIN gone' = Changers
        /\ \A b \in Changers \ {c} : keys'[b] = keys[b]
    BY <1>0 DEF ReadMembers, Finished, redis, TypeInv
  <1>2. TypeInv'
    BY <1>0, <1>1 DEF TypeInv, reader
  <1>3. ReadsCurrent'
    BY <1>0, <1>1, ReadsKept
  <1>4. CachedTracked'
    BY <1>0, <1>1 DEF CachedTracked
  <1>5. \A p \in tracking : Doomed(p) => Doomed(p)'
    <2> SUFFICES ASSUME NEW p \in tracking, Doomed(p) PROVE Doomed(p)'
      OBVIOUS
    <2>1. cpc'[c] = "pages" /\ p \in keys'[c]
      BY <1>0, <1>1 DEF TypeInv
    <2> QED
      BY <2>1 DEF Doomed
  <1>6. StaleDoomed'
    BY <1>0, <1>1, <1>5 DEF StaleDoomed, CachedTracked, Content
  <1>7. AheadDoomed'
    BY <1>0, <1>1 DEF AheadDoomed, TypeInv
  <1> QED
    BY <1>2, <1>3, <1>4, <1>6, <1>7 DEF CacheInv

LEMMA DeletePagesStep ==
    ASSUME CacheInv, NEW c \in Changers, DeletePages(c)
    PROVE  CacheInv'
  <1>0. TypeInv /\ ReadsCurrent /\ CachedTracked /\ StaleDoomed /\ AheadDoomed
    BY DEF CacheInv
  <1>1. /\ UNCHANGED <<db, count, tracking, reader, keys, gone, overlap, late>>
        /\ cpc[c] = "pages" /\ cpc' = [cpc EXCEPT ![c] = "tracking"]
        /\ page' = [p \in Pages |-> IF p \in keys[c] THEN None ELSE page[p]]
        /\ excused' = excused \ keys[c]
    BY DEF DeletePages
  <1>2. TypeInv'
    BY <1>0, <1>1 DEF TypeInv, reader
  <1>3. ReadsCurrent'
    BY <1>0, <1>1, ReadsKept
  <1>4. \A p \in Pages \ excused' : page'[p] # None => p \notin excused /\ p \notin keys[c] /\ page'[p] = page[p]
    BY <1>1
  <1>5. CachedTracked'
    BY <1>0, <1>1, <1>4 DEF CachedTracked
  <1>6. \A p \in Pages : p \notin keys[c] /\ Doomed(p) => Doomed(p)'
    BY <1>0, <1>1 DEF Doomed, TypeInv
  <1>7. StaleDoomed'
    BY <1>0, <1>1, <1>4, <1>6 DEF StaleDoomed, Content
  <1>8. AheadDoomed'
    BY <1>0, <1>1 DEF AheadDoomed, TypeInv
  <1> QED
    BY <1>2, <1>3, <1>5, <1>7, <1>8 DEF CacheInv

\* The pages that lose their tracking are excused: none other is cached then.
LEMMA DeleteTrackingStep ==
    ASSUME CacheInv, NEW c \in Changers, DeleteTracking(c)
    PROVE  CacheInv'
  <1>0. TypeInv /\ ReadsCurrent /\ CachedTracked /\ StaleDoomed /\ AheadDoomed
    BY DEF CacheInv
  <1>1. /\ UNCHANGED <<db, page, count, reader, late>>
        /\ cpc[c] = "tracking" /\ cpc' = [cpc EXCEPT ![c] = "idle"]
        /\ excused' = excused \cup {p \in tracking : page[p] # None \/ p \notin keys[c]}
        /\ overlap' = overlap \cup Busy
        /\ keys' = [keys EXCEPT ![c] = {}] /\ gone' = [gone EXCEPT ![c] = {}]
    BY DEF DeleteTracking, Finished
  <1>2. TypeInv'
    BY <1>0, <1>1 DEF TypeInv, reader
  <1>3. ReadsCurrent'
    BY <1>0, <1>1, NoneCurrent
  <1>4. \A p \in Pages \ excused' : page'[p] = None
    BY <1>0, <1>1 DEF CachedTracked
  <1>5. CachedTracked' /\ StaleDoomed'
    BY <1>4 DEF CachedTracked, StaleDoomed
  <1>6. AheadDoomed'
    BY <1>0, <1>1 DEF AheadDoomed, TypeInv
  <1> QED
    BY <1>2, <1>3, <1>5, <1>6 DEF CacheInv

-------------------------------------------------------------------------------
(* Expiry *)

LEMMA ExpireStep ==
    ASSUME CacheInv, (\E p \in Pages : ExpirePage(p)) \/ ExpireTracking \/ ExpireCount
    PROVE  CacheInv'
  <1>0. TypeInv /\ ReadsCurrent /\ CachedTracked /\ StaleDoomed /\ AheadDoomed
    BY DEF CacheInv
  <1>1. UNCHANGED <<db, reader, changer, overlap>>
    BY DEF ExpirePage, ExpireTracking, ExpireCount, tracked
  <1>2. TypeInv'
    BY <1>0, <1>1 DEF ExpirePage, ExpireTracking, ExpireCount, TypeInv, reader, changer
  <1>3. CASE \E p \in Pages : ExpirePage(p)
    <2>1. PICK p \in Pages : ExpirePage(p)
      BY <1>3
    <2>2. /\ page' = [page EXCEPT ![p] = None] /\ excused' = excused \ {p}
          /\ UNCHANGED <<count, tracking, late>>
      BY <2>1 DEF ExpirePage
    <2>3. \A q \in Pages \ excused' : page'[q] # None => q \notin excused /\ page'[q] = page[q]
      BY <1>0, <2>2 DEF TypeInv
    <2>4. ReadsCurrent' /\ CachedTracked' /\ AheadDoomed'
      BY <1>0, <1>1, <2>2, <2>3, ReadsKept DEF CachedTracked, AheadDoomed, changer
    <2>5. StaleDoomed'
      BY <1>0, <1>1, <2>2, <2>3 DEF StaleDoomed, Doomed, Content, changer
    <2> QED
      BY <1>2, <2>4, <2>5 DEF CacheInv
  <1>4. CASE ExpireTracking
    <2>1. /\ UNCHANGED <<page, count, excused, late>> /\ \A p \in Pages : page[p] = None
          /\ \A r \in Readers : rpc[r] # "fill"
      BY <1>4 DEF ExpireTracking, tracked
    <2>2. ReadsCurrent'
      BY <1>0, <1>1, <2>1 DEF ReadsCurrent, reader, Content
    <2>3. CachedTracked' /\ StaleDoomed' /\ AheadDoomed'
      BY <1>0, <1>1, <2>1 DEF CachedTracked, StaleDoomed, AheadDoomed, changer
    <2> QED
      BY <1>2, <2>2, <2>3 DEF CacheInv
  <1>5. CASE ExpireCount
    <2>1. UNCHANGED <<page, tracking, excused>> /\ count' = None
      BY <1>5 DEF ExpireCount
    <2>2. ReadsCurrent' /\ CachedTracked' /\ AheadDoomed'
      BY <1>0, <1>1, <2>1, ReadsKept DEF CachedTracked, AheadDoomed
    <2>3. StaleDoomed'
      BY <1>0, <1>1, <2>1 DEF StaleDoomed, Doomed, Content, changer
    <2> QED
      BY <1>2, <2>2, <2>3 DEF CacheInv
  <1> QED
    BY <1>3, <1>4, <1>5

-------------------------------------------------------------------------------

LEMMA CacheStep == CacheInv /\ [Next]_vars => CacheInv'
  <1> SUFFICES ASSUME CacheInv, [Next]_vars PROVE CacheInv'
    OBVIOUS
  <1>1. CASE UNCHANGED vars
    BY <1>1 DEF vars, redis, reader, changer, tracked, CacheInv, TypeInv, ReadsCurrent, CachedTracked,
                StaleDoomed, AheadDoomed, Doomed, Content
  <1>2. CASE Next
    BY <1>2, ReaderStep, ChangesStep, DeleteAccountStep, DeleteCountStep, ReadMembersStep,
       DeletePagesStep, DeleteTrackingStep, InvalidationFailsStep, ExpireStep DEF Next
  <1> QED
    BY <1>1, <1>2

LEMMA CacheInvCorrect == Spec => []CacheInv
  <1> QED
    BY CacheInit, CacheStep, PTL DEF Spec

\* Between invalidations every cached page is what the two queries of a reader would return now, unless
\* a race, a failed invalidation or the deletion of the account excuses it.
THEOREM PagesFreshCorrect == Spec => []PagesFresh
  <1>1. CacheInv => PagesFresh
    BY DEF CacheInv, TypeInv, StaleDoomed, Doomed, PagesFresh, Invalidating
  <1> QED
    BY <1>1, CacheInvCorrect, PTL

\* Between invalidations the cached count is not ahead of the listens there are, unless the reader that
\* filled it was overlapped.
THEOREM CountNotAheadCorrect == Spec => []CountNotAhead
  <1>1. CacheInv => CountNotAhead
    BY DEF CacheInv, TypeInv, AheadDoomed, CountNotAhead, Invalidating
  <1> QED
    BY <1>1, CacheInvCorrect, PTL

-------------------------------------------------------------------------------
(* The types *)

LEMMA LessRelated == \A m, n \in Nat : n < m => <<n, m>> \in OpToRel(<, Nat)
  BY DEF OpToRel

\* Finitely many numbers have a first, ...
LEMMA MinExists ==
    ASSUME NEW S \in SUBSET Nat, S # {}
    PROVE  Min(S) \in S
  <1>1. PICK m \in S : \A n \in S : ~ (<<n, m>> \in OpToRel(<, Nat))
    BY NatLessThanWellFounded, WFMin
  <1>2. \A n \in S : m <= n
    <2> TAKE n \in S
    <2>1. m \in Nat /\ n \in Nat
      OBVIOUS
    <2>2. ~ (n < m)
      BY <1>1, <2>1, LessRelated
    <2> QED
      BY <2>1, <2>2
  <1> QED
    BY <1>2 DEF Min

\* ... and a last: the one with the fewest above it.
LEMMA MaxExists ==
    ASSUME NEW S \in SUBSET Nat, S # {}, IsFiniteSet(S)
    PROVE  Max(S) \in S
  <1> DEFINE Above(m) == {n \in S : n > m}
             K == {Cardinality(Above(m)) : m \in S}
  <1>1. \A m \in S : IsFiniteSet(Above(m)) /\ Cardinality(Above(m)) \in Nat
    BY FS_Subset, FS_CardinalityType
  <1>2. K \in SUBSET Nat /\ K # {}
    BY <1>1
  <1>3. PICK k \in K : \A l \in K : ~ (<<l, k>> \in OpToRel(<, Nat))
    <2> HIDE DEF K
    <2> QED
      BY <1>2, NatLessThanWellFounded, WFMin
  <1>4. PICK m \in S : k = Cardinality(Above(m))
    BY <1>3
  <1>5. ASSUME NEW n \in S, n > m PROVE FALSE
    <2>0. m \in Nat /\ n \in Nat
      OBVIOUS
    <2>1. Above(n) \in SUBSET Above(m) /\ n \in Above(m) /\ n \notin Above(n)
      <3>1. \A l \in S : l \in Nat /\ (l > n => l > m) /\ ~ (n > n)
        BY <1>5, <2>0
      <3> QED
        BY <1>5, <3>1
    <2>2. Cardinality(Above(n)) <= Cardinality(Above(m)) /\ Cardinality(Above(n)) # Cardinality(Above(m))
      BY <1>1, <2>1, FS_Subset
    <2>3. Cardinality(Above(n)) < k /\ k \in Nat /\ Cardinality(Above(n)) \in Nat
      <3>1. Cardinality(Above(n)) \in Nat /\ Cardinality(Above(m)) \in Nat
        BY <1>1
      <3> HIDE DEF Above
      <3> QED
        BY <1>4, <2>2, <3>1
    <2>4. Cardinality(Above(n)) \in K
      OBVIOUS
    <2> QED
      BY <1>3, <2>3, <2>4, LessRelated
  <1>6. \A n \in S : m >= n
    BY <1>5
  <1> QED
    BY <1>6 DEF Max

LEMMA BoundsType ==
    ASSUME NEW S \in SUBSET Listens
    PROVE  Bounds(S) \in (Listens \cup {0}) \X (Listens \cup {0})
  <1>1. S \in SUBSET Nat /\ IsFiniteSet(S)
    BY ListensAssumption, FS_Subset
  <1> QED
    BY <1>1, MinExists, MaxExists DEF Bounds

\* What a reader has read and for which page, by its progress.
Reading(r) ==
    /\ rpc[r] \in {"bounds", "track", "fill"} => key[r] \in Pages /\ read[r] \in PageData
    /\ rpc[r] = "count" => key[r] = None /\ read[r] \in Nat
    /\ rpc[r] = "listens" => key[r] \in Pages /\ read[r] = None
    /\ rpc[r] = "idle" => key[r] = None /\ read[r] = None

\* TypeOK, with the readers' part spelled out.
Typed ==
    /\ db \in SUBSET Listens /\ pending \in SUBSET Listens
    /\ page \in [Pages -> PageData \cup {None}]
    /\ count \in Nat \cup {None}
    /\ tracking \in SUBSET Pages
    /\ rpc \in [Readers -> {"idle", "listens", "bounds", "track", "fill", "count"}]
    /\ key \in [Readers -> Pages \cup {None}]
    /\ DOMAIN read = Readers
    /\ \A r \in Readers : Reading(r)
    /\ cpc \in [Changers -> {"idle", "count", "members", "pages", "tracking"}]
    /\ keys \in [Changers -> SUBSET Pages] /\ gone \in [Changers -> SUBSET Listens]
    /\ overlap \in SUBSET Readers /\ excused \in SUBSET Pages /\ late \in BOOLEAN
    /\ deleted \in SUBSET Listens

LEMMA TypedOK == Typed => TypeOK
  <1> SUFFICES ASSUME Typed PROVE TypeOK
    OBVIOUS
  <1>1. ASSUME NEW r \in Readers
        PROVE  CASE rpc[r] \in {"bounds", "track", "fill"} -> key[r] \in Pages /\ read[r] \in PageData
                 [] rpc[r] = "count" -> key[r] = None /\ read[r] \in Nat
                 [] rpc[r] = "listens" -> key[r] \in Pages /\ read[r] = None
                 [] rpc[r] = "idle" -> key[r] = None /\ read[r] = None
    <2>1. Reading(r) /\ rpc[r] \in {"idle", "listens", "bounds", "track", "fill", "count"}
      BY DEF Typed
    <2>2. CASE rpc[r] \in {"bounds", "track", "fill"}
      BY <2>1, <2>2 DEF Reading
    <2>3. CASE rpc[r] = "count"
      BY <2>1, <2>3 DEF Reading
    <2>4. CASE rpc[r] = "listens"
      BY <2>1, <2>4 DEF Reading
    <2>5. CASE rpc[r] = "idle"
      BY <2>1, <2>5 DEF Reading
    <2> QED
      BY <2>1, <2>2, <2>3, <2>4, <2>5
  <1> QED
    BY <1>1 DEF Typed, TypeOK

LEMMA TypedInit == Init => Typed
  BY DEF Init, Typed, Reading

\* A step of a reader leaves the others as they are.
LEMMA TypedReader ==
    ASSUME Typed, NEW r \in Readers,
           \/ \E p \in Pages : BeginPage(r, p)
           \/ QueryListens(r) \/ QueryBounds(r) \/ Track(r) \/ Fill(r)
           \/ BeginCount(r) \/ FillCount(r) \/ ReaderFails(r)
    PROVE  Typed'
  <1>1. UNCHANGED <<db, pending, cpc, keys, gone, deleted>>
    BY DEF BeginPage, QueryListens, QueryBounds, Track, Fill, BeginCount, FillCount, ReaderFails, changer, tracked
  <1>2. \A q \in Readers \ {r} : rpc'[q] = rpc[q] /\ key'[q] = key[q] /\ read'[q] = read[q]
    BY DEF BeginPage, QueryListens, QueryBounds, Track, Fill, BeginCount, FillCount, ReaderFails,
           Goto, reader, Typed
  <1>3. Reading(r)
    BY DEF Typed
  <1>4. Reading(r)'
    <2>1. CASE QueryListens(r)
      <3>1. read'[r] = [listens |-> key[r] \cap db, bounds |-> <<0, 0>>] /\ key'[r] = key[r]
        BY <2>1 DEF QueryListens, Typed
      <3>2. read'[r] \in PageData
        BY <3>1 DEF PageData, Typed
      <3> QED
        BY <1>3, <2>1, <3>1, <3>2 DEF QueryListens, Goto, Reading, Typed
    <2>2. CASE QueryBounds(r)
      <3>1. read[r] \in PageData /\ key[r] \in Pages
        BY <1>3, <2>2 DEF QueryBounds, Reading
      <3>2. read'[r] = [read[r] EXCEPT !.bounds = Bounds(db)] /\ key'[r] = key[r]
        BY <2>2 DEF QueryBounds, Typed
      <3>3. read'[r] \in PageData
        BY <3>1, <3>2, BoundsType DEF PageData, Typed
      <3> QED
        BY <2>2, <3>1, <3>2, <3>3 DEF QueryBounds, Goto, Reading, Typed
    <2>3. CASE BeginCount(r)
      <3>1. Cardinality(db) \in Nat
        BY ListensAssumption, FS_Subset, FS_CardinalityType DEF Typed
      <3> QED
        BY <1>3, <2>3, <3>1 DEF BeginCount, Goto, Reading, Typed
    <2>4. CASE (\E p \in Pages : BeginPage(r, p)) \/ Track(r)
      BY <1>3, <2>4 DEF BeginPage, Track, Goto, Reading, Typed
    <2>5. CASE Fill(r) \/ FillCount(r) \/ ReaderFails(r)
      BY <1>3, <2>5 DEF Fill, FillCount, ReaderFails, Goto, Reading, Typed
    <2> QED
      BY <2>1, <2>2, <2>3, <2>4, <2>5
  <1>5. \A q \in Readers : Reading(q)'
    BY <1>2, <1>4 DEF Reading, Typed
  <1>6. /\ rpc' \in [Readers -> {"idle", "listens", "bounds", "track", "fill", "count"}]
        /\ key' \in [Readers -> Pages \cup {None}] /\ DOMAIN read' = Readers
    BY DEF BeginPage, QueryListens, QueryBounds, Track, Fill, BeginCount, FillCount, ReaderFails,
           Goto, Typed
  <1>7. page' \in [Pages -> PageData \cup {None}] /\ count' \in Nat \cup {None} /\ tracking' \in SUBSET Pages
    BY <1>3 DEF BeginPage, QueryListens, QueryBounds, Track, Fill, BeginCount, FillCount, ReaderFails,
                redis, Reading, Typed
  <1>8. overlap' \in SUBSET Readers /\ excused' \in SUBSET Pages /\ late' \in BOOLEAN
    <2>1. CASE Fill(r)
      BY <1>3, <2>1 DEF Fill, Reading, Typed
    <2>2. CASE FillCount(r)
      BY <2>2 DEF FillCount, Typed
    <2>3. CASE ~ Fill(r) /\ ~ FillCount(r)
      BY <2>3 DEF BeginPage, QueryListens, QueryBounds, Track, BeginCount, ReaderFails, tracked, Typed
    <2> QED
      BY <2>1, <2>2, <2>3
  <1> QED
    BY <1>1, <1>5, <1>6, <1>7, <1>8 DEF Typed

\* A change or an expiry leaves the readers as they are.
LEMMA TypedReaders ==
    ASSUME Typed, UNCHANGED reader
    PROVE  /\ \A r \in Readers : Reading(r)'
           /\ rpc' \in [Readers -> {"idle", "listens", "bounds", "track", "fill", "count"}]
           /\ key' \in [Readers -> Pages \cup {None}] /\ DOMAIN read' = Readers
  BY DEF Typed, Reading, reader

LEMMA TypedChange ==
    ASSUME Typed, NEW c \in Changers,
           Ingest(c) \/ RequestDeletion(c) \/ DeletePending(c) \/ DeleteHistory(c) \/ DeleteAccount(c)
    PROVE  Typed'
  <1>1. UNCHANGED <<page, count, tracking, reader, keys>> /\ overlap' = overlap \cup Busy
    BY DEF Ingest, RequestDeletion, DeletePending, DeleteHistory, DeleteAccount, Change, redis
  <1>2. cpc' \in [Changers -> {"idle", "count", "members", "pages", "tracking"}]
    BY DEF Ingest, RequestDeletion, DeletePending, DeleteHistory, DeleteAccount, Change, Typed
  <1>3. db' \in SUBSET Listens /\ pending' \in SUBSET Listens /\ deleted' \in SUBSET Listens
    BY DEF Ingest, RequestDeletion, DeletePending, DeleteHistory, DeleteAccount, Typed
  <1>4. gone' \in [Changers -> SUBSET Listens]
    BY DEF Ingest, RequestDeletion, DeletePending, DeleteHistory, DeleteAccount, Typed
  <1>5. excused' \in SUBSET Pages /\ late' \in BOOLEAN
    BY DEF Ingest, RequestDeletion, DeletePending, DeleteHistory, DeleteAccount, Typed
  <1> QED
    BY <1>1, <1>2, <1>3, <1>4, <1>5, TypedReaders DEF Typed, Busy

LEMMA TypedInvalidation ==
    ASSUME Typed, NEW c \in Changers,
           DeleteCount(c) \/ ReadMembers(c) \/ DeletePages(c) \/ DeleteTracking(c) \/ InvalidationFails(c)
    PROVE  Typed'
  <1>1. UNCHANGED <<db, pending, reader>>
    BY DEF DeleteCount, ReadMembers, DeletePages, DeleteTracking, InvalidationFails
  <1>2. /\ cpc' \in [Changers -> {"idle", "count", "members", "pages", "tracking"}]
        /\ keys' \in [Changers -> SUBSET Pages]
    BY DEF DeleteCount, ReadMembers, DeletePages, DeleteTracking, InvalidationFails, Finished, Typed
  <1>3. gone' \in [Changers -> SUBSET Listens] /\ deleted' \in SUBSET Listens
    BY DEF DeleteCount, ReadMembers, DeletePages, DeleteTracking, InvalidationFails, Finished, Typed
  <1>4. page' \in [Pages -> PageData \cup {None}] /\ count' \in Nat \cup {None} /\ tracking' \in SUBSET Pages
    BY DEF DeleteCount, ReadMembers, DeletePages, DeleteTracking, InvalidationFails, redis, Typed
  <1>5. overlap' \in SUBSET Readers /\ excused' \in SUBSET Pages /\ late' \in BOOLEAN
    BY DEF DeleteCount, ReadMembers, DeletePages, DeleteTracking, InvalidationFails, Busy, Typed
  <1> QED
    BY <1>1, <1>2, <1>3, <1>4, <1>5, TypedReaders DEF Typed

LEMMA TypedExpiry ==
    ASSUME Typed, (\E p \in Pages : ExpirePage(p)) \/ ExpireTracking \/ ExpireCount
    PROVE  Typed'
  <1>1. UNCHANGED <<db, pending, reader, cpc, keys, gone, overlap, deleted>>
    BY DEF ExpirePage, ExpireTracking, ExpireCount, changer, tracked
  <1>2. /\ page' \in [Pages -> PageData \cup {None}] /\ count' \in Nat \cup {None} /\ tracking' \in SUBSET Pages
        /\ excused' \in SUBSET Pages /\ late' \in BOOLEAN
    BY DEF ExpirePage, ExpireTracking, ExpireCount, tracked, Typed
  <1> QED
    BY <1>1, <1>2, TypedReaders DEF Typed

\* A cached page is a selection of the listens with their bounds, or nothing; a reader is reading one page or the
\* count, and an invalidation knows only keys of pages and listens, in every interleaving.
THEOREM TypeCorrect == Spec => []TypeOK
  <1>1. Typed /\ [Next]_vars => Typed'
    <2> SUFFICES ASSUME Typed, [Next]_vars PROVE Typed'
      OBVIOUS
    <2>1. CASE UNCHANGED vars
      BY <2>1, TypedReaders DEF vars, redis, reader, changer, tracked, Typed
    <2>2. CASE Next
      BY <2>2, TypedReader, TypedChange, TypedInvalidation, TypedExpiry DEF Next
    <2> QED
      BY <2>1, <2>2
  <1> QED
    BY <1>1, TypedInit, TypedOK, PTL DEF Spec

===============================================================================
