-------------------------- MODULE MappingQueueProofs --------------------------
(***************************************************************************)
(* Theorems of MappingQueue for every set of recordings and messages, every *)
(* window and day of the walk, and every number of jobs, threads and       *)
(* failures: TypeOK with the room of the queue and of the pool, and that   *)
(* no listen is forgotten (NoneForgotten).                                 *)
(***************************************************************************)
EXTENDS MappingQueue, FiniteSetTheorems, SequenceTheorems, TLAPS

-------------------------------------------------------------------------------
(* The inductive invariant *)

Future == [prio : {NEW_LISTEN, RECHECK_LISTEN, LEGACY_LISTEN}, items : SUBSET Msids,
           step : {"submitted", "lookup", "done"}]

Loader ==
    [at : {"none", "start", "recheck", "listens", "ended"}]
    \cup [at : {"mapped"}, msids : SUBSET Msids]
    \cup [at : {"put"}, prio : {RECHECK_LISTEN, LEGACY_LISTEN}, msids : SUBSET Msids]

Types ==
    /\ stored \in SUBSET Msids /\ unique \in SUBSET Batches
    /\ mapping \in [Msids -> {"absent", "match", "nomatch"} \cup Due]
    /\ pending \in SUBSET Jobs /\ futures \in Seq(Future) /\ thread \in {"wait", "fill", "dead"}
    /\ loader \in Loader
    /\ index \in Int \cup {None} /\ cached \in Int \cup {None}
    /\ loader.at \in {"recheck", "listens", "mapped", "put"} => index # None

\* All that is in a queue or a table has been listened to.
OnlyStored ==
    /\ \A b \in unique : b \subseteq stored
    /\ \A job \in pending : job.items \subseteq stored
    /\ \A k \in DOMAIN futures : futures[k].items \subseteq stored
    /\ loader.at \in {"mapped", "put"} => loader.msids \subseteq stored
    /\ \A m \in Msids : mapping[m] # "absent" => m \in stored

Bounded == Len(futures) <= MaxQueued /\ Cardinality(Executing) <= MaxThreads

\* The listens that are being loaded lie before the index, and rows to recheck are there.
WalkInv ==
    /\ WindowRead => \A m \in loader.msids : Listened[m] <= index
    /\ loader.at = "put" /\ loader.prio = RECHECK_LISTEN => \A m \in loader.msids : mapping[m] # "absent"

Reached == IF WindowRead THEN index - Window ELSE NextIndex

\* A listen is in a message, in a job, with the loader, or where the walk has yet to come.
OnItsWay(m) ==
    \/ \E b \in unique : m \in b
    \/ \E job \in pending : m \in job.items
    \/ \E k \in DOMAIN futures : futures[k].step # "done" /\ m \in futures[k].items
    \/ loader.at \in {"mapped", "put"} /\ m \in loader.msids
    \/ Listened[m] <= Reached

AllOnTheirWay == \A m \in stored \ passed : mapping[m] = "absent" => OnItsWay(m)

QueueInv == Types /\ OnlyStored /\ Bounded /\ WalkInv /\ AllOnTheirWay

LEMMA WayIs == Types /\ AllOnTheirWay => NoneForgotten
  <1> SUFFICES ASSUME Types, AllOnTheirWay, NEW m \in stored \ passed, mapping[m] = "absent"
               PROVE  m \in (UNION unique) \cup InHand \cup Loading \cup Ahead
    BY DEF NoneForgotten
  <1>1. OnItsWay(m) /\ m \in Msids
    BY DEF AllOnTheirWay, Types
  <1>2. CASE \E job \in pending : m \in job.items
    <2>1. m \in InHand
      BY <1>2 DEF InHand, Items
    <2> QED
      BY <2>1
  <1>3. CASE \E k \in DOMAIN futures : futures[k].step # "done" /\ m \in futures[k].items
    <2>1. m \in InHand
      BY <1>3 DEF InHand, Items, Done
    <2> QED
      BY <2>1
  <1>4. CASE \E b \in unique : m \in b
    BY <1>4
  <1>5. CASE loader.at \in {"mapped", "put"} /\ m \in loader.msids
    <2>1. m \in Loading
      BY <1>5 DEF Loading
    <2> QED
      BY <2>1
  <1>6. CASE Listened[m] <= Reached
    <2>1. m \in Ahead
      BY <1>1, <1>6 DEF Ahead, Reached
    <2> QED
      BY <2>1
  <1> QED
    BY <1>1, <1>2, <1>3, <1>4, <1>5, <1>6 DEF OnItsWay

LEMMA QueueInit == Init => QueueInv
  <1> SUFFICES ASSUME Init PROVE QueueInv
    OBVIOUS
  <1>1. futures = <<>> /\ Executing = {} /\ Len(futures) = 0 /\ futures \in Seq(Future)
    BY DEF Init, Executing
  <1>2. Bounded
    BY <1>1, FS_EmptySet, ThreadsAssumption DEF Bounded
  <1>3. Types /\ OnlyStored /\ WalkInv
    BY <1>1, ListensAssumption DEF Init, Types, OnlyStored, WalkInv, WindowRead, Loader
  <1>4. AllOnTheirWay
    <2>1. Reached = Now
      BY DEF Init, Reached, WindowRead, NextIndex, Resumed
    <2>2. \A m \in Msids : Listened[m] <= Now
      BY TimesAssumption
    <2> QED
      BY <1>3, <2>1, <2>2 DEF Types, AllOnTheirWay, OnItsWay
  <1> QED
    BY <1>2, <1>3, <1>4 DEF QueueInv

\* Where the walk has come to is a time.
LEMMA TimesInt ==
    ASSUME Types
    PROVE  /\ Reached \in Int /\ NextIndex \in Int /\ Resumed(cached) \in Int
           /\ loader.at \in {"recheck", "listens", "mapped", "put"} => index \in Int /\ NextIndex = index
           /\ \A m \in Msids : Listened[m] \in Int
  <1>1. Resumed(cached) \in Int
    BY TimesAssumption DEF Types, Resumed
  <1>2. NextIndex \in Int
    BY <1>1 DEF Types, NextIndex
  <1>3. loader.at \in {"recheck", "listens", "mapped", "put"} => index \in Int /\ NextIndex = index
    BY DEF Types, NextIndex
  <1>4. WindowRead => loader.at \in {"mapped", "put"}
    BY DEF WindowRead
  <1>5. Window \in Int /\ \A m \in Msids : Listened[m] \in Int
    BY TimesAssumption
  <1> QED
    BY <1>1, <1>2, <1>3, <1>4, <1>5 DEF Reached

-------------------------------------------------------------------------------
(* Messages, and what others do *)

LEMMA StoreStep ==
    ASSUME QueueInv, NEW b \in Batches, Store(b)
    PROVE  QueueInv'
  <1>0. Types /\ OnlyStored /\ Bounded /\ WalkInv /\ AllOnTheirWay
    BY DEF QueueInv
  <1>1. /\ stored' = stored \cup b /\ b \subseteq Msids
        /\ UNCHANGED <<pending, futures, thread, loader, index, rests, mapping, cached>>
        /\ \/ unique' = unique \cup {b} /\ passed' = passed
           \/ unique' = unique /\ passed' = passed \cup (b \ Ahead)
    BY ListensAssumption DEF Store, memory
  <1>2. Types' /\ OnlyStored'
    BY <1>0, <1>1 DEF Types, OnlyStored
  <1>3. Bounded' /\ WalkInv'
    BY <1>0, <1>1 DEF Bounded, Executing, WalkInv, WindowRead
  <1>4. Reached' = Reached
    BY <1>1 DEF Reached, WindowRead, NextIndex, Resumed
  <1>5. AllOnTheirWay'
    <2> SUFFICES ASSUME NEW m \in stored' \ passed', mapping'[m] = "absent"
                 PROVE  OnItsWay(m)'
      BY DEF AllOnTheirWay
    <2>1. CASE m \in stored
      <3>1. OnItsWay(m)
        BY <1>0, <1>1, <2>1 DEF AllOnTheirWay
      <3> QED
        BY <1>1, <1>4, <3>1 DEF OnItsWay
    <2>2. CASE m \in b
      BY <1>1, <1>4, <2>2 DEF OnItsWay, Ahead, Reached
    <2> QED
      BY <1>1, <2>1, <2>2
  <1> QED
    BY <1>2, <1>3, <1>5 DEF QueueInv

LEMMA CallbackStep ==
    ASSUME QueueInv, NEW b \in Batches, callback(b)
    PROVE  QueueInv'
  <1>0. Types /\ OnlyStored /\ Bounded /\ WalkInv /\ AllOnTheirWay
    BY DEF QueueInv
  <1> DEFINE job == [prio |-> NEW_LISTEN, items |-> b]
  <1>1. /\ b \in unique /\ b \subseteq Msids /\ pending' = pending \cup {job}
        /\ unique \subseteq unique' \cup {b} /\ unique' \subseteq unique
        /\ UNCHANGED <<futures, thread, loader, index, rests, stored, mapping, cached, passed>>
    BY ListensAssumption DEF callback
  <1>2. job \in Jobs /\ job.items = b
    BY <1>1 DEF Jobs
  <1> HIDE DEF job
  <1>3. Types' /\ OnlyStored'
    BY <1>0, <1>1, <1>2 DEF Types, OnlyStored
  <1>4. Bounded' /\ WalkInv'
    BY <1>0, <1>1 DEF Bounded, Executing, WalkInv, WindowRead
  <1>5. Reached' = Reached
    BY <1>1 DEF Reached, WindowRead, NextIndex, Resumed
  <1>6. AllOnTheirWay'
    <2> SUFFICES ASSUME NEW m \in stored' \ passed', mapping'[m] = "absent"
                 PROVE  OnItsWay(m)'
      BY DEF AllOnTheirWay
    <2>1. OnItsWay(m)
      BY <1>0, <1>1 DEF AllOnTheirWay
    <2> QED
      BY <1>1, <1>2, <1>5, <2>1 DEF OnItsWay
  <1> QED
    BY <1>3, <1>4, <1>6 DEF QueueInv

LEMMA FallsDueStep ==
    ASSUME QueueInv, NEW m \in Msids, FallsDue(m)
    PROVE  QueueInv'
  <1>0. Types /\ OnlyStored /\ Bounded /\ WalkInv /\ AllOnTheirWay
    BY DEF QueueInv
  <1>1. /\ UNCHANGED <<pending, futures, thread, loader, index, rests, stored, unique, cached, passed>>
        /\ mapping' \in [Msids -> {"absent", "match", "nomatch"} \cup Due]
        /\ \A n \in Msids : mapping'[n] = "absent" <=> mapping[n] = "absent"
    BY <1>0 DEF FallsDue, memory, Types, Due
  <1>2. Types' /\ OnlyStored'
    BY <1>0, <1>1 DEF Types, OnlyStored
  <1>3. Bounded' /\ WalkInv'
    BY <1>0, <1>1 DEF Bounded, Executing, WalkInv, WindowRead, Types, Loader
  <1>4. AllOnTheirWay'
    BY <1>0, <1>1 DEF AllOnTheirWay, OnItsWay, Reached, WindowRead, NextIndex, Resumed, Types
  <1> QED
    BY <1>2, <1>3, <1>4 DEF QueueInv

\* Steps that leave the listens where they are.
LEMMA IdleStep ==
    ASSUME QueueInv, UNCHANGED <<pending, futures, loader, index, stored, unique, mapping, cached, passed>>,
           thread' \in {"wait", "fill", "dead"}
    PROVE  QueueInv'
  <1>0. Types /\ OnlyStored /\ Bounded /\ WalkInv /\ AllOnTheirWay
    BY DEF QueueInv
  <1>1. Types' /\ OnlyStored'
    BY <1>0 DEF Types, OnlyStored
  <1>2. Bounded' /\ WalkInv'
    BY <1>0 DEF Bounded, Executing, WalkInv, WindowRead
  <1>3. AllOnTheirWay'
    BY <1>0 DEF AllOnTheirWay, OnItsWay, Reached, WindowRead, NextIndex, Resumed
  <1> QED
    BY <1>1, <1>2, <1>3 DEF QueueInv

\* A restart resumes the walk at the cached index: what lies past it is left without a row.
LEMMA CrashStep ==
    ASSUME QueueInv, Crash
    PROVE  QueueInv'
  <1>0. Types /\ OnlyStored
    BY DEF QueueInv
  <1>1. /\ pending' = {} /\ futures' = <<>> /\ thread' = "wait"
        /\ loader' = [at |-> "start"] /\ index' = None
        /\ UNCHANGED <<stored, unique, mapping, cached>>
        /\ passed' = passed \cup {m \in stored : Listened[m] > Resumed(cached)}
    BY DEF Crash, tables
  <1>2. Types' /\ OnlyStored' /\ WalkInv'
    BY <1>0, <1>1 DEF Types, OnlyStored, Loader, WalkInv, WindowRead
  <1>3. Bounded'
    <2>1. Executing' = {} /\ Len(futures') = 0
      BY <1>1 DEF Executing
    <2> QED
      BY <2>1, FS_EmptySet, ThreadsAssumption DEF Bounded
  <1>4. Reached' = Resumed(cached)
    BY <1>1 DEF Reached, WindowRead, NextIndex, Resumed
  <1>5. AllOnTheirWay'
    BY <1>0, <1>1, <1>4, TimesInt DEF Types, AllOnTheirWay, OnItsWay
  <1> QED
    BY <1>2, <1>3, <1>5 DEF QueueInv

-------------------------------------------------------------------------------
(* The loader *)

\* A step of the loader: what it has put is in the queue, and where the walk has come to, or what the
\* loader holds, accounts for the rest.
LEMMA LoaderStep ==
    ASSUME QueueInv, UNCHANGED <<futures, thread, stored, unique, mapping, passed>>,
           pending \subseteq pending', pending' \in SUBSET Jobs,
           \A job \in pending' \ pending : job.items \subseteq stored,
           loader' \in Loader, index' \in Int \cup {None}, cached' \in Int \cup {None},
           loader'.at \in {"recheck", "listens", "mapped", "put"} => index' # None,
           loader'.at \in {"mapped", "put"} => loader'.msids \subseteq stored,
           WalkInv',
           \A m \in stored : mapping[m] = "absent" =>
              /\ Listened[m] <= Reached =>
                    \/ Listened[m] <= Reached'
                    \/ loader'.at \in {"mapped", "put"} /\ m \in loader'.msids
              /\ loader.at \in {"mapped", "put"} /\ m \in loader.msids =>
                    \/ Listened[m] <= Reached'
                    \/ loader'.at \in {"mapped", "put"} /\ m \in loader'.msids
                    \/ \E job \in pending' : m \in job.items
    PROVE  QueueInv'
  <1>0. Types /\ OnlyStored /\ Bounded /\ AllOnTheirWay
    BY DEF QueueInv
  <1>1. Types'
    BY <1>0 DEF Types
  <1>2. OnlyStored'
    BY <1>0 DEF OnlyStored
  <1>3. Bounded'
    BY <1>0 DEF Bounded, Executing
  <1>4. AllOnTheirWay'
    <2> SUFFICES ASSUME NEW m \in stored \ passed, mapping[m] = "absent"
                 PROVE  OnItsWay(m)'
      BY DEF AllOnTheirWay
    <2>1. OnItsWay(m)
      BY <1>0 DEF AllOnTheirWay
    <2> QED
      BY <2>1 DEF OnItsWay
  <1> QED
    BY <1>1, <1>2, <1>3, <1>4 DEF QueueInv

LEMMA LoaderStartsStep ==
    ASSUME QueueInv, LoaderStarts
    PROVE  QueueInv'
  <1>0. Types
    BY DEF QueueInv
  <1>1. /\ loader.at = "start" /\ UNCHANGED <<pending, futures, thread, stored, unique, mapping, passed>>
        /\ \/ index' = Now /\ cached' = Truncate(Now) /\ loader' = [at |-> "ended"]
           \/ index' = NextIndex /\ loader' = [at |-> "recheck"] /\ cached' = cached
    BY DEF LoaderStarts
  <1>2. Truncate(Now) \in Int
    BY TimesAssumption DEF Truncate
  <1>3. index' \in Int /\ cached' \in Int \cup {None} /\ loader' \in Loader
        /\ loader'.at \in {"ended", "recheck"}
    BY <1>0, <1>1, <1>2, TimesInt, TimesAssumption DEF Types, Loader
  <1>4. index' # None /\ Reached' = index' /\ Reached = NextIndex
    BY <1>1, <1>3, TimesAssumption DEF Reached, WindowRead, NextIndex
  <1>5. \A m \in Msids : Listened[m] <= Reached => Listened[m] <= Reached'
    BY <1>1, <1>4, TimesAssumption
  <1>6. WalkInv'
    BY <1>3 DEF WalkInv, WindowRead
  <1> QED
    BY <1>0, <1>1, <1>3, <1>4, <1>5, <1>6, LoaderStep DEF Types

LEMMA LoaderRechecksStep ==
    ASSUME QueueInv, LoaderRechecks
    PROVE  QueueInv'
  <1>0. Types /\ OnlyStored
    BY DEF QueueInv
  <1> DEFINE due == {m \in Msids : mapping[m] \in Due}
  <1>1. /\ loader.at = "recheck" /\ UNCHANGED <<pending, futures, thread, index, rests, tables, passed>>
        /\ loader' = [at |-> "listens"] \/ loader' = [at |-> "put", prio |-> RECHECK_LISTEN, msids |-> due]
    BY DEF LoaderRechecks, OnlyLoader, Put
  <1>2. due \in SUBSET Msids /\ \A m \in due : mapping[m] # "absent" /\ m \in stored
    BY <1>0 DEF Due, OnlyStored
  <1> HIDE DEF due
  <1>3. /\ loader' \in Loader /\ loader'.at \in {"listens", "put"}
        /\ loader'.at = "put" => loader'.msids = due /\ loader'.prio = RECHECK_LISTEN
    BY <1>1, <1>2 DEF Loader
  <1>4. Reached' = Reached
    BY <1>1, <1>3 DEF Reached, WindowRead, NextIndex, Resumed, tables, RECHECK_LISTEN, LEGACY_LISTEN
  <1>5. WalkInv'
    BY <1>1, <1>2, <1>3 DEF WalkInv, WindowRead, tables, RECHECK_LISTEN, LEGACY_LISTEN
  <1> QED
    BY <1>0, <1>1, <1>2, <1>3, <1>4, <1>5, LoaderStep DEF Types, tables

LEMMA LoaderReadsStep ==
    ASSUME QueueInv, LoaderReads
    PROVE  QueueInv'
  <1>0. Types /\ OnlyStored
    BY DEF QueueInv
  <1>1. /\ loader.at = "listens" /\ loader' = [at |-> "mapped", msids |-> InWindow(index)]
        /\ UNCHANGED <<pending, futures, thread, index, rests, tables, passed>>
    BY DEF LoaderReads, OnlyLoader
  <1>2. InWindow(index) \in SUBSET stored /\ stored \in SUBSET Msids
    BY <1>0 DEF InWindow, Types
  <1>3. index \in Int /\ Reached = index /\ Reached' = index - Window
    BY <1>0, <1>1, TimesInt DEF Reached, WindowRead
  <1>4. \A m \in stored : Listened[m] <= Reached => Listened[m] <= Reached' \/ m \in InWindow(index)
    BY <1>2, <1>3, TimesAssumption DEF InWindow
  <1>5. loader' \in Loader /\ loader'.at = "mapped" /\ loader'.msids = InWindow(index)
    BY <1>1, <1>2 DEF Loader
  <1>6. WalkInv'
    BY <1>1, <1>2, <1>3, <1>5 DEF WalkInv, InWindow
  <1> QED
    BY <1>0, <1>1, <1>2, <1>3, <1>4, <1>5, <1>6, LoaderStep DEF Types, tables

LEMMA LoaderFiltersStep ==
    ASSUME QueueInv, LoaderFilters
    PROVE  QueueInv'
  <1>0. Types /\ OnlyStored /\ WalkInv
    BY DEF QueueInv
  <1> DEFINE rest == {m \in loader.msids : mapping[m] \notin Matched}
  <1>1. /\ loader.at = "mapped" /\ loader' = [at |-> "put", prio |-> LEGACY_LISTEN, msids |-> rest]
        /\ UNCHANGED <<pending, futures, thread, index, rests, tables, passed>>
    BY DEF LoaderFilters, OnlyLoader, Put
  <1>2. rest \in SUBSET loader.msids /\ loader.msids \in SUBSET stored /\ loader.msids \in SUBSET Msids
        /\ \A m \in loader.msids : mapping[m] = "absent" => m \in rest
    BY <1>0, <1>1 DEF OnlyStored, Matched, Types
  <1> HIDE DEF rest
  <1>3. index \in Int /\ Reached' = Reached
    BY <1>0, <1>1, TimesInt DEF Reached, WindowRead
  <1>4. loader' \in Loader /\ loader'.at = "put" /\ loader'.msids = rest /\ loader'.prio = LEGACY_LISTEN
    BY <1>1, <1>2 DEF Loader
  <1>5. WalkInv'
    BY <1>0, <1>1, <1>2, <1>4 DEF WalkInv, WindowRead, RECHECK_LISTEN, LEGACY_LISTEN
  <1> QED
    BY <1>0, <1>1, <1>2, <1>3, <1>4, <1>5, LoaderStep DEF Types, tables

LEMMA LoaderPutsStep ==
    ASSUME QueueInv, NEW n \in Msids, LoaderPuts(n)
    PROVE  QueueInv'
  <1>0. Types /\ OnlyStored /\ WalkInv
    BY DEF QueueInv
  <1> DEFINE job == [prio |-> loader.prio, items |-> {n}]
  <1>1. /\ loader.at = "put" /\ n \in loader.msids /\ loader' = [loader EXCEPT !.msids = @ \ {n}]
        /\ pending' = pending \cup {job}
        /\ UNCHANGED <<futures, thread, index, rests, tables, passed>>
    BY DEF LoaderPuts
  <1>2. loader \in [at : {"put"}, prio : {RECHECK_LISTEN, LEGACY_LISTEN}, msids : SUBSET Msids]
    BY <1>0, <1>1 DEF Types, Loader
  <1>3. job \in Jobs /\ job.items = {n} /\ loader.msids \subseteq stored
    BY <1>0, <1>1, <1>2 DEF Jobs, OnlyStored
  <1> HIDE DEF job
  <1>4. /\ loader' \in Loader /\ loader'.at = "put" /\ loader'.prio = loader.prio
        /\ loader'.msids = loader.msids \ {n}
    BY <1>1, <1>2 DEF Loader
  <1>5. Reached' = Reached
    BY <1>1, <1>4 DEF Reached, WindowRead, NextIndex, Resumed, tables
  <1>6. WalkInv'
    BY <1>0, <1>1, <1>4 DEF WalkInv, WindowRead, tables
  <1> QED
    BY <1>0, <1>1, <1>3, <1>4, <1>5, <1>6, LoaderStep DEF Types, tables

LEMMA LoaderEndsStep ==
    ASSUME QueueInv, LoaderEnds
    PROVE  QueueInv'
  <1>0. Types /\ WalkInv
    BY DEF QueueInv
  <1>1. /\ loader.at = "put" /\ loader.msids = {} /\ loader' = [at |-> "ended"]
        /\ UNCHANGED <<pending, futures, thread, stored, unique, mapping, passed>>
        /\ \/ loader.prio = RECHECK_LISTEN /\ UNCHANGED <<index, cached>>
           \/ /\ loader.prio # RECHECK_LISTEN /\ index' = index - Window
              /\ cached' = Truncate(index') \/ cached' = cached
    BY DEF LoaderEnds
  <1>2. index \in Int /\ NextIndex = index
    BY <1>0, <1>1, TimesInt
  <1>3. loader \in [at : {"put"}, prio : {RECHECK_LISTEN, LEGACY_LISTEN}, msids : SUBSET Msids]
    BY <1>0, <1>1 DEF Types, Loader
  <1>4. index' \in Int /\ index' # None /\ cached' \in Int \cup {None}
    <2>1. index' \in Int
      BY <1>1, <1>2, TimesAssumption
    <2>2. Truncate(index') \in Int
      BY <2>1, TimesAssumption DEF Truncate
    <2> QED
      BY <1>0, <1>1, <2>1, <2>2, TimesAssumption DEF Types
  <1>5. Reached' = Reached
    <2>1. Reached' = index'
      BY <1>1, <1>4 DEF Reached, WindowRead, NextIndex
    <2>2. Reached = IF loader.prio = LEGACY_LISTEN THEN index - Window ELSE index
      BY <1>1, <1>2 DEF Reached, WindowRead
    <2> QED
      BY <1>1, <1>3, <2>1, <2>2 DEF RECHECK_LISTEN, LEGACY_LISTEN
  <1>6. WalkInv' /\ loader' \in Loader /\ loader'.at = "ended"
    BY <1>1 DEF WalkInv, WindowRead, Loader
  <1> QED
    BY <1>0, <1>1, <1>4, <1>5, <1>6, LoaderStep DEF Types

LEMMA LoaderFailsStep ==
    ASSUME QueueInv, LoaderFails
    PROVE  QueueInv'
  <1>0. Types /\ WalkInv
    BY DEF QueueInv
  <1>1. /\ loader' = [at |-> "ended"] /\ UNCHANGED <<pending, futures, thread, index, rests, tables, passed>>
    BY DEF LoaderFails
  <1>2. WalkInv' /\ loader' \in Loader /\ loader'.at = "ended"
    BY <1>1 DEF WalkInv, WindowRead, Loader
  <1>3. Reached' = NextIndex /\ NextIndex \in Int /\ Reached <= NextIndex
    <2>1. Reached' = NextIndex
      BY <1>1 DEF Reached, WindowRead, NextIndex, Resumed, tables
    <2>2. CASE WindowRead
      <3>1. index \in Int /\ NextIndex = index
        BY <1>0, <2>2, TimesInt DEF WindowRead
      <3> QED
        BY <2>1, <2>2, <3>1, TimesAssumption DEF Reached
    <2>3. CASE ~ WindowRead
      BY <1>0, <2>1, <2>3, TimesInt DEF Reached
    <2> QED
      BY <2>2, <2>3
  <1>4. \A m \in Msids : Listened[m] <= Reached => Listened[m] <= Reached'
    BY <1>0, <1>3, TimesInt
  <1>5. ASSUME NEW m \in stored, mapping[m] = "absent", loader.at \in {"mapped", "put"}, m \in loader.msids
        PROVE  Listened[m] <= Reached'
    <2>1. WindowRead
      <3>1. CASE loader.at = "put"
        <4>1. loader \in [at : {"put"}, prio : {RECHECK_LISTEN, LEGACY_LISTEN}, msids : SUBSET Msids]
          BY <1>0, <3>1 DEF Types, Loader
        <4> QED
          BY <1>0, <1>5, <3>1, <4>1 DEF WalkInv, WindowRead
      <3> QED
        BY <1>5, <3>1 DEF WindowRead
    <2>2. Listened[m] <= index /\ NextIndex = index
      BY <1>0, <1>5, <2>1, TimesInt DEF WalkInv
    <2> QED
      BY <1>3, <2>2
  <1> QED
    BY <1>0, <1>1, <1>2, <1>4, <1>5, LoaderStep DEF Types, tables

-------------------------------------------------------------------------------
(* The thread of the job queue *)

\* The jobs that are collected are placed one to one where those that remain were.
LEMMA Placed ==
    ASSUME NEW n \in Nat, NEW D \in SUBSET (1..n), NEW place \in [1..Cardinality(D) -> D],
           \A j, k \in 1..Cardinality(D) : j < k => place[j] < place[k]
    PROVE  /\ IsFiniteSet(D) /\ Cardinality(D) \in Nat /\ Cardinality(D) <= n
           /\ place \in Injection(1..Cardinality(D), D)
           /\ \A i \in D : \E k \in 1..Cardinality(D) : place[k] = i
  <1>1. IsFiniteSet(1..n) /\ Cardinality(1..n) = n
    BY FS_Interval
  <1>2. IsFiniteSet(D) /\ Cardinality(D) \in Nat /\ Cardinality(D) <= n
    <2>1. IsFiniteSet(D) /\ Cardinality(D) <= Cardinality(1..n)
      BY <1>1, FS_Subset
    <2> QED
      BY <1>1, <2>1, FS_CardinalityType
  <1> DEFINE c == Cardinality(D)
  <1>3. c \in Nat
    BY <1>2
  <1> HIDE DEF c
  <1>4. place \in [1..c -> D] /\ \A j, k \in 1..c : j < k => place[j] < place[k]
    BY DEF c
  <1>5. ASSUME NEW j \in 1..c, NEW k \in 1..c, place[j] = place[k] PROVE j = k
    <2>1. place[j] \in D /\ place[k] \in D
      BY <1>4
    <2>2. place[j] \in 1..n
      BY <2>1
    <2>3. j \in Nat /\ k \in Nat
      BY <1>3
    <2>4. ~ (place[j] < place[k]) /\ ~ (place[k] < place[j])
      BY <1>5, <2>2
    <2> QED
      BY <1>4, <2>3, <2>4
  <1>6. place \in Injection(1..c, D)
    BY <1>4, <1>5 DEF Injection, IsInjective
  <1>7. IsFiniteSet(1..c) /\ Cardinality(1..c) = c
    BY <1>3, FS_Interval
  <1>8. place \in Surjection(1..c, D)
    BY <1>2, <1>6, <1>7, FS_Injection DEF c
  <1> QED
    BY <1>2, <1>6, <1>8 DEF Surjection, c

LEMMA CollectStep ==
    ASSUME QueueInv, Collect
    PROVE  QueueInv'
  <1>0. Types /\ OnlyStored /\ Bounded /\ WalkInv /\ AllOnTheirWay
    BY DEF QueueInv
  <1> DEFINE n == Len(futures)
             left == {k \in DOMAIN futures : Uncompleted(futures[k])}
             c == Cardinality(left)
  <1>1. futures \in [1..n -> Future] /\ n \in Nat /\ DOMAIN futures = 1..n
    BY <1>0 DEF Types
  <1>2. PICK place \in [1..c -> left] :
           /\ \A j, k \in DOMAIN place : j < k => place[j] < place[k]
           /\ futures' = [k \in DOMAIN place |-> futures[place[k]]]
    BY DEF Collect
  <1>3. UNCHANGED <<pending, loader, index, rests, tables, passed>> /\ thread' = "fill"
    BY DEF Collect
  <1>4. left \in SUBSET (1..n) /\ \A k \in left : futures[k].step # "done"
    BY <1>1 DEF Uncompleted, Done
  <1>5. \A k \in 1..n : futures[k].step # "done" => k \in left
    BY <1>1 DEF Uncompleted, Done
  <1> HIDE DEF left, n
  <1>6. /\ c \in Nat /\ c <= n /\ place \in Injection(1..c, left) /\ DOMAIN place = 1..c
        /\ \A i \in left : \E k \in 1..c : place[k] = i
    BY <1>1, <1>2, <1>4, Placed
  <1> HIDE DEF c
  <1>7. /\ futures' = [k \in 1..c |-> futures[place[k]]]
        /\ \A k \in 1..c : place[k] \in left /\ place[k] \in 1..n
    BY <1>2, <1>4, <1>6
  <1>8. futures' \in Seq(Future) /\ Len(futures') = c /\ DOMAIN futures' = 1..c
    BY <1>1, <1>6, <1>7
  <1>9. Types'
    BY <1>0, <1>3, <1>8 DEF Types, tables
  <1>10. OnlyStored'
    BY <1>0, <1>1, <1>3, <1>7, <1>8 DEF OnlyStored, tables
  <1>11. WalkInv'
    BY <1>0, <1>3 DEF WalkInv, WindowRead, tables
  <1>12. Bounded'
    <2> DEFINE f == [k \in Executing' |-> place[k]]
    <2>1. Executing' \subseteq 1..c /\ \A k \in Executing' : place[k] \in Executing
      BY <1>1, <1>7, <1>8 DEF Executing
    <2>2. f \in Injection(Executing', Executing)
      BY <1>6, <2>1 DEF Injection, IsInjective
    <2>3. IsFiniteSet(Executing)
      <3>1. Executing \subseteq 1..n
        BY <1>1 DEF Executing
      <3>2. IsFiniteSet(1..n)
        BY <1>1, FS_Interval
      <3> QED
        BY <3>1, <3>2, FS_Subset
    <2> HIDE DEF f
    <2>4. Cardinality(Executing') <= Cardinality(Executing) /\ IsFiniteSet(Executing')
      BY <2>2, <2>3, FS_Injection
    <2>5. Cardinality(Executing') \in Nat /\ Cardinality(Executing) \in Nat
      BY <2>3, <2>4, FS_CardinalityType
    <2> QED
      BY <1>0, <1>1, <1>6, <1>8, <2>4, <2>5, ThreadsAssumption DEF Bounded, n
  <1>13. AllOnTheirWay'
    <2> SUFFICES ASSUME NEW m \in stored' \ passed', mapping'[m] = "absent"
                 PROVE  OnItsWay(m)'
      BY DEF AllOnTheirWay
    <2>1. OnItsWay(m)
      BY <1>0, <1>3 DEF AllOnTheirWay, tables
    <2>2. CASE \E k \in DOMAIN futures : futures[k].step # "done" /\ m \in futures[k].items
      <3>1. PICK i \in left : m \in futures[i].items
        BY <1>1, <1>5, <2>2
      <3>2. PICK k \in 1..c : place[k] = i
        BY <1>6
      <3>3. k \in DOMAIN futures' /\ futures'[k] = futures[i]
        BY <1>7, <1>8, <3>2
      <3> QED
        BY <1>4, <3>1, <3>3 DEF OnItsWay
    <2>3. CASE ~ \E k \in DOMAIN futures : futures[k].step # "done" /\ m \in futures[k].items
      BY <1>3, <2>1, <2>3 DEF OnItsWay, Reached, WindowRead, NextIndex, Resumed, tables
    <2> QED
      BY <2>2, <2>3
  <1> QED
    BY <1>9, <1>10, <1>11, <1>12, <1>13 DEF QueueInv

LEMMA TakeStep ==
    ASSUME QueueInv, Take
    PROVE  QueueInv'
  <1>0. Types /\ OnlyStored /\ Bounded /\ WalkInv /\ AllOnTheirWay
    BY DEF QueueInv
  <1>1. PICK job \in pending :
           /\ pending' = pending \ {job}
           /\ futures' = Append(futures, [prio |-> job.prio, items |-> job.items, step |-> "submitted"])
    BY DEF Take
  <1> DEFINE new == [prio |-> job.prio, items |-> job.items, step |-> "submitted"]
             n == Len(futures)
  <1>2. UNCHANGED <<thread, loader, index, rests, tables, passed>> /\ n < MaxQueued
    BY <1>0, ThreadsAssumption DEF Take, Room, Types
  <1>3. new \in Future /\ new.items = job.items /\ new.step = "submitted"
    BY <1>0 DEF Types, Jobs, Future
  <1> HIDE DEF new
  <1>4. /\ n \in Nat /\ DOMAIN futures = 1..n /\ futures' \in Seq(Future) /\ Len(futures') = n + 1
        /\ DOMAIN futures' = 1..(n + 1) /\ futures'[n + 1] = new
        /\ \A k \in 1..n : futures'[k] = futures[k]
    <2>1. futures' = Append(futures, new)
      BY <1>1 DEF new
    <2> QED
      BY <1>0, <1>3, <2>1 DEF Types
  <1> HIDE DEF n
  <1>5. Types'
    BY <1>0, <1>1, <1>2, <1>4 DEF Types, tables
  <1>6. OnlyStored'
    BY <1>0, <1>1, <1>2, <1>3, <1>4 DEF OnlyStored, tables
  <1>7. WalkInv'
    BY <1>0, <1>2 DEF WalkInv, WindowRead, tables
  <1>8. Bounded'
    <2>1. Executing' = Executing
      BY <1>3, <1>4 DEF Executing
    <2> QED
      BY <1>0, <1>2, <1>4, <2>1, ThreadsAssumption DEF Bounded
  <1>9. AllOnTheirWay'
    <2> SUFFICES ASSUME NEW m \in stored' \ passed', mapping'[m] = "absent"
                 PROVE  OnItsWay(m)'
      BY DEF AllOnTheirWay
    <2>1. OnItsWay(m)
      BY <1>0, <1>2 DEF AllOnTheirWay, tables
    <2>2. CASE m \in job.items
      BY <1>3, <1>4, <2>2 DEF OnItsWay
    <2>3. CASE m \notin job.items
      BY <1>1, <1>2, <1>4, <2>1, <2>3 DEF OnItsWay, Reached, WindowRead, NextIndex, Resumed, tables
    <2> QED
      BY <2>2, <2>3
  <1> QED
    BY <1>5, <1>6, <1>7, <1>8, <1>9 DEF QueueInv

LEMMA FilledStep ==
    ASSUME QueueInv, Filled
    PROVE  QueueInv'
  <1>0. Types /\ OnlyStored /\ Bounded /\ WalkInv /\ AllOnTheirWay
    BY DEF QueueInv
  <1>1. /\ UNCHANGED <<pending, futures, index, rests, tables, passed>> /\ thread' = "wait"
        /\ \/ loader' = loader
           \/ /\ loader.at \in {"none", "ended"}
              /\ loader' = [at |-> "start"] \/ loader' = [at |-> "none"]
    BY DEF Filled, NextLoader
  <1>2. CASE loader' = loader
    BY <1>1, <1>2, IdleStep DEF tables
  <1>3. CASE loader.at \in {"none", "ended"} /\ (loader' = [at |-> "start"] \/ loader' = [at |-> "none"])
    <2>1. Types' /\ OnlyStored' /\ WalkInv' /\ Bounded'
      BY <1>0, <1>1, <1>3 DEF Types, OnlyStored, WalkInv, WindowRead, Loader, Bounded, Executing, tables
    <2>2. AllOnTheirWay'
      BY <1>0, <1>1, <1>3 DEF AllOnTheirWay, OnItsWay, Reached, WindowRead, NextIndex, Resumed, tables
    <2> QED
      BY <2>1, <2>2 DEF QueueInv
  <1> QED
    BY <1>1, <1>2, <1>3

-------------------------------------------------------------------------------
(* Jobs *)

LEMMA JobsStep ==
    ASSUME QueueInv, NEW k \in Nat, JobStarts(k) \/ JobCommits(k) \/ JobFails(k)
    PROVE  QueueInv'
  <1>0. Types /\ OnlyStored /\ Bounded /\ WalkInv /\ AllOnTheirWay
    BY DEF QueueInv
  <1>1. /\ UNCHANGED <<pending, thread, loader, index, rests, stored, unique, cached>>
        /\ k \in DOMAIN futures
    BY DEF JobStarts, JobCommits, JobFails, OnlyFutures, Step
  <1>2. /\ DOMAIN futures = 1..Len(futures) /\ Len(futures) \in Nat /\ futures[k] \in Future
    BY <1>0, <1>1 DEF Types
  <1>3. \E job \in Future :
           /\ futures' = [futures EXCEPT ![k] = job]
           /\ job.items \subseteq futures[k].items
           /\ job.step \in {"lookup", "done"}
           /\ job.step = "lookup" => Cardinality(Executing) < MaxThreads
           /\ mapping' \in [Msids -> {"absent", "match", "nomatch"} \cup Due]
           /\ \A m \in Msids : /\ mapping'[m] = "absent" => mapping[m] = "absent"
                               /\ mapping'[m] # "absent" => mapping[m] # "absent" \/ m \in futures[k].items
           /\ passed \subseteq passed'
           /\ \A m \in futures[k].items :
                 \/ job.step = "lookup" /\ m \in job.items
                 \/ mapping'[m] # "absent" \/ m \in passed' \/ m \in Ahead
    <2>1. CASE JobStarts(k)
      <3> DEFINE items == ToCheck(futures[k])
                 job == [futures[k] EXCEPT !.items = items,
                                           !.step = IF items = {} THEN "done" ELSE "lookup"]
      <3>1. items \subseteq futures[k].items
            /\ \A m \in futures[k].items : mapping[m] = "absent" => m \in items
        BY DEF ToCheck
      <3>2. /\ futures' = [futures EXCEPT ![k].items = items,
                                          ![k].step = IF items = {} THEN "done" ELSE "lookup"]
            /\ mapping' = mapping /\ passed' = passed /\ Cardinality(Executing) < MaxThreads
        BY <2>1 DEF JobStarts
      <3> HIDE DEF items
      <3>3. /\ job \in Future /\ job.items = items
            /\ job.step = IF items = {} THEN "done" ELSE "lookup"
        BY <1>2, <3>1 DEF Future
      <3>4. futures' = [futures EXCEPT ![k] = job]
        BY <1>0, <1>1, <1>2, <3>2 DEF Types, Future
      <3> HIDE DEF job
      <3>5. \A m \in futures[k].items : (job.step = "lookup" /\ m \in job.items) \/ mapping'[m] # "absent"
        BY <3>1, <3>2, <3>3
      <3> QED
        BY <1>0, <3>1, <3>2, <3>3, <3>4, <3>5 DEF Types
    <2>2. CASE JobCommits(k)
      <3> DEFINE job == [futures[k] EXCEPT !.step = "done"]
      <3>1. job \in Future /\ job.items = futures[k].items /\ job.step = "done"
        BY <1>2 DEF Future
      <3>2. futures' = [futures EXCEPT ![k] = job] /\ passed' = passed
        BY <2>2 DEF JobCommits
      <3>3. PICK found \in SUBSET futures[k].items :
               mapping' = [m \in Msids |-> RowsOf(futures[k], found, m)]
        BY <2>2 DEF JobCommits
      <3>4. \A m \in Msids : /\ mapping'[m] \in {"absent", "match", "nomatch"} \cup Due
                             /\ m \in futures[k].items => mapping'[m] # "absent"
                             /\ m \notin futures[k].items => mapping'[m] = mapping[m]
        BY <1>0, <3>3 DEF RowsOf, Types
      <3>5. mapping' \in [Msids -> {"absent", "match", "nomatch"} \cup Due]
        BY <3>3, <3>4
      <3>6. futures[k].items \subseteq Msids
        BY <1>2 DEF Future
      <3> HIDE DEF job
      <3> QED
        BY <3>1, <3>2, <3>4, <3>5, <3>6
    <2>3. CASE JobFails(k)
      <3> DEFINE job == [futures[k] EXCEPT !.step = "done"]
      <3>1. job \in Future /\ job.items = futures[k].items /\ job.step = "done"
        BY <1>2 DEF Future
      <3>2. /\ futures' = [futures EXCEPT ![k] = job] /\ mapping' = mapping
            /\ passed' = passed \cup (futures[k].items \ Ahead)
        BY <2>3 DEF JobFails
      <3> HIDE DEF job
      <3> QED
        BY <1>0, <3>1, <3>2 DEF Types
    <2> QED
      BY <2>1, <2>2, <2>3
  <1>4. PICK job \in Future :
           /\ futures' = [futures EXCEPT ![k] = job]
           /\ job.items \subseteq futures[k].items
           /\ job.step \in {"lookup", "done"}
           /\ job.step = "lookup" => Cardinality(Executing) < MaxThreads
           /\ mapping' \in [Msids -> {"absent", "match", "nomatch"} \cup Due]
           /\ \A m \in Msids : /\ mapping'[m] = "absent" => mapping[m] = "absent"
                               /\ mapping'[m] # "absent" => mapping[m] # "absent" \/ m \in futures[k].items
           /\ passed \subseteq passed'
           /\ \A m \in futures[k].items :
                 \/ job.step = "lookup" /\ m \in job.items
                 \/ mapping'[m] # "absent" \/ m \in passed' \/ m \in Ahead
    BY <1>3
  <1>5. /\ futures' \in Seq(Future) /\ Len(futures') = Len(futures) /\ DOMAIN futures' = DOMAIN futures
        /\ futures'[k] = job /\ \A j \in DOMAIN futures \ {k} : futures'[j] = futures[j]
    BY <1>0, <1>1, <1>4 DEF Types
  <1>6. Types'
    BY <1>0, <1>1, <1>4, <1>5 DEF Types
  <1>7. OnlyStored'
    BY <1>0, <1>1, <1>4, <1>5 DEF OnlyStored
  <1>8. WalkInv'
    <2>1. loader.at \in {"mapped", "put"} => loader.msids \subseteq Msids
      BY <1>0 DEF OnlyStored, Types
    <2> QED
      BY <1>0, <1>1, <1>4, <2>1 DEF WalkInv, WindowRead
  <1>9. Bounded'
    <2>1. IsFiniteSet(Executing)
      <3>1. Executing \subseteq 1..Len(futures)
        BY <1>2 DEF Executing
      <3>2. IsFiniteSet(1..Len(futures))
        BY <1>2, FS_Interval
      <3> QED
        BY <3>1, <3>2, FS_Subset
    <2>2. CASE job.step = "lookup"
      <3>1. Executing' \subseteq Executing \cup {k}
        BY <1>5 DEF Executing
      <3>2. /\ IsFiniteSet(Executing \cup {k}) /\ Cardinality(Executing) \in Nat
            /\ Cardinality(Executing \cup {k}) <= Cardinality(Executing) + 1
        BY <2>1, FS_AddElement, FS_CardinalityType
      <3>3. Cardinality(Executing') <= Cardinality(Executing \cup {k})
            /\ Cardinality(Executing') \in Nat /\ Cardinality(Executing \cup {k}) \in Nat
        BY <3>1, <3>2, FS_Subset, FS_CardinalityType
      <3> QED
        BY <1>0, <1>4, <1>5, <2>2, <3>2, <3>3, ThreadsAssumption DEF Bounded
    <2>3. CASE job.step = "done"
      <3>1. Executing' \subseteq Executing
        BY <1>5, <2>3 DEF Executing
      <3>2. Cardinality(Executing') <= Cardinality(Executing)
            /\ Cardinality(Executing') \in Nat /\ Cardinality(Executing) \in Nat
        BY <2>1, <3>1, FS_Subset, FS_CardinalityType
      <3> QED
        BY <1>0, <1>5, <3>2, ThreadsAssumption DEF Bounded
    <2> QED
      BY <1>4, <2>2, <2>3
  <1>10. AllOnTheirWay'
    <2> SUFFICES ASSUME NEW m \in stored' \ passed', mapping'[m] = "absent"
                 PROVE  OnItsWay(m)'
      BY DEF AllOnTheirWay
    <2>1. OnItsWay(m) /\ m \in Msids
      BY <1>0, <1>1, <1>4 DEF AllOnTheirWay, Types
    <2>2. Reached' = Reached
      BY <1>1 DEF Reached, WindowRead, NextIndex, Resumed
    <2>3. CASE m \in futures[k].items
      <3>1. CASE m \in Ahead
        BY <2>2, <3>1 DEF OnItsWay, Ahead, Reached
      <3>2. CASE job.step = "lookup" /\ m \in job.items
        BY <1>1, <1>5, <3>2 DEF OnItsWay
      <3> QED
        BY <1>4, <2>3, <3>1, <3>2
    <2>4. CASE m \notin futures[k].items
      BY <1>1, <1>5, <2>1, <2>2, <2>4 DEF OnItsWay
    <2> QED
      BY <2>3, <2>4
  <1> QED
    BY <1>6, <1>7, <1>8, <1>9, <1>10 DEF QueueInv

-------------------------------------------------------------------------------

LEMMA QueueStep == QueueInv /\ [Next]_vars => QueueInv'
  <1> SUFFICES ASSUME QueueInv, [Next]_vars PROVE QueueInv'
    OBVIOUS
  <1>1. CASE UNCHANGED vars \/ DayPasses \/ Dies
    <2>1. UNCHANGED <<pending, futures, loader, index, stored, unique, mapping, cached, passed>>
          /\ thread' \in {"wait", "fill", "dead"}
      BY <1>1 DEF vars, memory, tables, DayPasses, Dies, QueueInv, Types
    <2> QED
      BY <2>1, IdleStep
  <1>2. CASE \E b \in Batches : Store(b) \/ callback(b)
    BY <1>2, StoreStep, CallbackStep
  <1>3. CASE Load \/ LoaderFails
    BY <1>3, LoaderStartsStep, LoaderRechecksStep, LoaderReadsStep, LoaderFiltersStep, LoaderPutsStep,
       LoaderEndsStep, LoaderFailsStep DEF Load
  <1>4. CASE Loop \/ Crash
    BY <1>4, CollectStep, TakeStep, FilledStep, CrashStep DEF Loop
  <1>5. CASE Work \/ \E k \in 1..MaxQueued : JobFails(k)
    <2>1. 1..MaxQueued \subseteq Nat
      BY ThreadsAssumption
    <2> QED
      BY <1>5, <2>1, JobsStep DEF Work
  <1>6. CASE \E m \in Msids : FallsDue(m)
    BY <1>6, FallsDueStep
  <1> QED
    BY <1>1, <1>2, <1>3, <1>4, <1>5, <1>6 DEF Next

LEMMA QueueInvCorrect == Spec => []QueueInv
  <1> QED
    BY QueueInit, QueueStep, PTL DEF Spec

\* The pool never has more jobs than its queue has room for, nor more threads at work than it may, and
\* nothing gets a row that nobody has listened to.
THEOREM TypeCorrect == Spec => []TypeOK
  <1>1. QueueInv => TypeOK
    BY DEF QueueInv, Types, OnlyStored, Bounded, TypeOK
  <1> QED
    BY <1>1, QueueInvCorrect, PTL

\* A listen without a row is in a message, in a job, with the loader or ahead of the walk, through every
\* crash, failed job, failed ack and race of the loader with the jobs, unless the walk was past it when it
\* was lost: for any window, any day and any number of threads.
THEOREM NoneForgottenCorrect == Spec => []NoneForgotten
  <1>1. QueueInv => NoneForgotten
    BY WayIs DEF QueueInv
  <1> QED
    BY <1>1, QueueInvCorrect, PTL
===============================================================================
