----------------------------- MODULE MappingQueue -----------------------------
(***************************************************************************)
(* The MBID mapping writer: the consumer of the unique queue, the thread   *)
(* of a MappingJobQueue that hands listens to a pool of threads by         *)
(* priority, the thread that loads rows to recheck and legacy listens when *)
(* the queue runs empty, and the jobs that look listens up and write       *)
(* mapping.mbid_mapping.                                                   *)
(*                                                                         *)
(* Messages are acked once they are in the memory of the process: what a   *)
(* crash, a failed job or a lost announcement leaves without a row is left *)
(* to the legacy listens, a walk from now back to the first listen, window *)
(* by window, that starts anew a day after it has ended.                   *)
(***************************************************************************)
EXTENDS Integers, FiniteSets, Sequences

CONSTANTS
    Msids,
    Batches,      \* the sets of recordings that messages carry
    Listened,     \* [Msids -> Int]: when each was listened to
    Legacy,       \* those stored before the writer was there
    Now,          \* the present, in the unit of Listened
    Window,       \* LEGACY_LISTENS_LOAD_WINDOW
    Day,          \* what the index in the cache is rounded down to
    MinimumDate,  \* LISTEN_MINIMUM_DATE
    MaxThreads, MaxQueued,  \* MAX_THREADS, MAX_QUEUED_JOBS
    MaxFailures,  \* bound: errors, crashes and lost announcements
    MaxDue,       \* bound: rows that fall due or are marked
    None

ASSUME ThreadsAssumption == MaxThreads \in Nat \ {0} /\ MaxQueued \in Nat \ {0}
ASSUME ListensAssumption == Batches \subseteq SUBSET Msids /\ Legacy \subseteq Msids
ASSUME TimesAssumption ==
    /\ Now \in Int /\ MinimumDate \in Int /\ None \notin Int
    /\ Listened \in [Msids -> MinimumDate..Now]
    /\ Window \in Nat \ {0} /\ Day \in Nat \ {0}

VARIABLES
    stored,      \* recordings that somebody has listened to
    unique,      \* messages of the unique queue
    mapping,     \* mapping.mbid_mapping: a row with or without a match, that is to be checked again or not
    pending,     \* the PriorityQueue
    futures,     \* jobs submitted to the pool, in order
    thread,      \* run(): "wait" for a future, "fill" the pool, or "dead"
    loader,      \* legacy_load_thread
    index,       \* legacy_listens_index_date
    rests,       \* legacy_next_run lies ahead
    cached,      \* LEGACY_LISTENS_INDEX_DATE_CACHE_KEY
    passed,      \* history variable: left without a row where the walk was past them
    failures, dues

\* The memory of the process, what lasts, and the bounds.
memory == <<pending, futures, thread, loader, index, rests>>
tables == <<stored, unique, mapping, cached>>
vars == <<memory, tables, passed, failures, dues>>

NEW_LISTEN == 0
RECHECK_LISTEN == 1
LEGACY_LISTEN == 2

Due == {"due", "marked"}          \* check_again <= NOW(), last_updated = '1970-01-01'
Matched == {"match", "marked"}    \* recording_mbid IS NOT NULL

Fail == failures < MaxFailures /\ failures' = failures + 1

-----------------------------------------------------------------------------
(* Where a listen without a row is. *)

Items(jobs) == UNION {job.items : job \in jobs}
Done(job) == job.step = "done"
Uncompleted(job) == ~Done(job)
InHand == Items(pending) \cup Items({job \in {futures[k] : k \in DOMAIN futures} : ~Done(job)})
Loading == IF loader.at \in {"mapped", "put"} THEN loader.msids ELSE {}

\* Where the walk goes on after a restart.
Resumed(date) == IF date = None THEN Now ELSE date
NextIndex == IF index = None THEN Resumed(cached) ELSE index

\* The window has been read, and the index has not moved yet.
WindowRead == loader.at = "mapped" \/ (loader.at = "put" /\ loader.prio = LEGACY_LISTEN)

Ahead == {m \in Msids : Listened[m] <= IF WindowRead THEN index - Window ELSE NextIndex}

-----------------------------------------------------------------------------
(* The consumer. *)

\* The timescale writer stores listens, and announces them but for a failure.
Store(b) ==
    /\ ~(b \subseteq stored)
    /\ stored' = stored \cup b
    /\ \/ /\ unique' = unique \cup {b}
          /\ UNCHANGED <<passed, failures>>
       \/ /\ Fail
          /\ passed' = passed \cup (b \ Ahead)
          /\ UNCHANGED unique
    /\ UNCHANGED <<memory, mapping, cached, dues>>

\* The listens are in memory when the message is acked; an ack that fails has it delivered again.
callback(b) ==
    /\ b \in unique
    /\ pending' = pending \cup {[prio |-> NEW_LISTEN, items |-> b]}
    /\ \/ unique' = unique \ {b} /\ UNCHANGED failures
       \/ Fail /\ UNCHANGED unique
    /\ UNCHANGED <<futures, thread, loader, index, rests, stored, mapping, cached, passed, dues>>

\* The process ends and is started again.  The walk resumes at the index in the cache.
Crash ==
    /\ Fail
    /\ pending' = {} /\ futures' = <<>> /\ thread' = "wait"
    /\ loader' = [at |-> "start"] /\ index' = None /\ rests' = FALSE
    /\ passed' = passed \cup {m \in stored : Listened[m] > Resumed(cached)}
    /\ UNCHANGED <<tables, dues>>

-----------------------------------------------------------------------------
(* The thread that loads rows to recheck and legacy listens. *)

Truncate(date) == date - (date % Day)

\* Past the first listen the walk starts anew, a day later.
LoaderStarts ==
    /\ loader.at = "start"
    /\ IF NextIndex < MinimumDate - Window
       THEN rests' = TRUE /\ index' = Now /\ cached' = Truncate(Now) /\ loader' = [at |-> "ended"]
       ELSE index' = NextIndex /\ loader' = [at |-> "recheck"] /\ UNCHANGED <<rests, cached>>
    /\ UNCHANGED <<pending, futures, thread, stored, unique, mapping, passed, failures, dues>>

Put(prio, msids) == [at |-> "put", prio |-> prio, msids |-> msids]

OnlyLoader == UNCHANGED <<pending, futures, thread, index, rests, tables, passed, failures, dues>>

\* Rows to recheck go before legacy listens: while there are any, the walk stands still.
LoaderRechecks ==
    LET due == {m \in Msids : mapping[m] \in Due} IN
    /\ loader.at = "recheck"
    /\ loader' = IF due = {} THEN [at |-> "listens"] ELSE Put(RECHECK_LISTEN, due)
    /\ OnlyLoader

\* Mutant: the window leaves out the index itself.
InWindow_Open(date) == {m \in stored : date - Window < Listened[m] /\ Listened[m] < date}

InWindow(date) == {m \in stored : date - Window < Listened[m] /\ Listened[m] <= date}

LoaderReads ==
    /\ loader.at = "listens"
    /\ loader' = [at |-> "mapped", msids |-> InWindow(index)]
    /\ OnlyLoader

\* A row without a match is no entry here: its recording is looked up however recently it was.
LoaderFilters ==
    /\ loader.at = "mapped"
    /\ loader' = Put(LEGACY_LISTEN, {m \in loader.msids : mapping[m] \notin Matched})
    /\ OnlyLoader

\* fetch_and_queue_listens
LoaderPuts(m) ==
    /\ loader.at = "put" /\ m \in loader.msids
    /\ pending' = pending \cup {[prio |-> loader.prio, items |-> {m}]}
    /\ loader' = [loader EXCEPT !.msids = @ \ {m}]
    /\ UNCHANGED <<futures, thread, index, rests, tables, passed, failures, dues>>

\* Nothing more to put: after legacy listens the index moves, in memory and then in the cache.
LoaderEnds ==
    /\ loader.at = "put" /\ loader.msids = {}
    /\ loader' = [at |-> "ended"]
    /\ IF loader.prio = RECHECK_LISTEN
       THEN UNCHANGED <<index, cached, failures>>
       ELSE /\ index' = index - Window
            /\ \/ cached' = Truncate(index') /\ UNCHANGED failures
               \/ Fail /\ UNCHANGED cached
    /\ UNCHANGED <<pending, futures, thread, rests, stored, unique, mapping, passed, dues>>

LoaderFails ==
    /\ Fail
    /\ loader.at \notin {"none", "ended"}
    /\ loader' = [at |-> "ended"]
    /\ UNCHANGED <<pending, futures, thread, index, rests, tables, passed, dues>>

-----------------------------------------------------------------------------
(* The thread of the job queue. *)

\* wait(futures, return_when=FIRST_COMPLETED): the jobs that remain keep their order.
Collect ==
    /\ thread = "wait"
    /\ futures = <<>> \/ \E k \in DOMAIN futures : Done(futures[k])
    /\ LET left == {k \in DOMAIN futures : Uncompleted(futures[k])} IN
       \E place \in [1..Cardinality(left) -> left] :
          /\ \A j, k \in DOMAIN place : j < k => place[j] < place[k]
          /\ futures' = [k \in DOMAIN place |-> futures[place[k]]]
    /\ thread' = "fill"
    /\ UNCHANGED <<pending, loader, index, rests, tables, passed, failures, dues>>

\* for i in range(MAX_QUEUED_JOBS - len(uncompleted)): one of the jobs that come first is submitted.
Room == MaxQueued - Len(futures)
Take ==
    /\ thread = "fill" /\ Room > 0
    /\ \E job \in pending :
          /\ \A other \in pending : job.prio <= other.prio
          /\ pending' = pending \ {job}
          /\ futures' = Append(futures, [prio |-> job.prio, items |-> job.items, step |-> "submitted"])
    /\ UNCHANGED <<thread, loader, index, rests, tables, passed, failures, dues>>

\* Mutant: the loader that has ended is never forgotten.
NextLoader_Once == IF loader.at = "none" /\ pending = {} /\ ~rests THEN [at |-> "start"] ELSE loader

\* load_legacy_listens, after a loader that has ended is forgotten
NextLoader ==
    IF loader.at \notin {"none", "ended"} THEN loader
    ELSE IF pending = {} /\ ~rests THEN [at |-> "start"] ELSE [at |-> "none"]

Filled ==
    /\ thread = "fill" /\ (Room = 0 \/ pending = {})
    /\ thread' = "wait"
    /\ loader' = NextLoader
    /\ UNCHANGED <<pending, futures, index, rests, tables, passed, failures, dues>>

\* run() ends at an error: of its first queries, while the loader may be at work already, or of update_metrics before a
\* loader has set the index.  Here it may end wherever it is.
Dies ==
    /\ Fail
    /\ thread # "dead"
    /\ thread' = "dead"
    /\ UNCHANGED <<pending, futures, loader, index, rests, tables, passed, dues>>

-----------------------------------------------------------------------------
(* A job: process_listens. *)

Step(k, step) == k \in DOMAIN futures /\ futures[k].step = step

Executing == {k \in DOMAIN futures : futures[k].step = "lookup"}

\* filter_incoming_listens
ToCheck(job) ==
    IF job.prio = NEW_LISTEN THEN {m \in job.items : mapping[m] \in Due \cup {"absent"}} ELSE job.items

OnlyFutures == UNCHANGED <<pending, thread, loader, index, rests, stored, unique, cached, dues>>

\* A thread of the pool takes the job submitted first; listens that need no lookup are dropped.
JobStarts(k) ==
    LET items == ToCheck(futures[k]) IN
    /\ Step(k, "submitted") /\ \A j \in 1..(k - 1) : ~Step(j, "submitted")
    /\ Cardinality(Executing) < MaxThreads
    /\ futures' = [futures EXCEPT ![k].items = items, ![k].step = IF items = {} THEN "done" ELSE "lookup"]
    /\ OnlyFutures /\ UNCHANGED <<mapping, passed, failures>>

\* Mutant: only matches get a row.
RowsOf_Matches(job, found, m) == IF m \in found THEN "match" ELSE mapping[m]

\* A recording that is not found gets a row as well, to be checked again later.
RowsOf(job, found, m) == IF m \in found THEN "match" ELSE IF m \in job.items THEN "nomatch" ELSE mapping[m]

\* The lookups find some of the recordings, and the rows of a job are written in one transaction.
JobCommits(k) ==
    /\ Step(k, "lookup")
    /\ \E found \in SUBSET futures[k].items : mapping' = [m \in Msids |-> RowsOf(futures[k], found, m)]
    /\ futures' = [futures EXCEPT ![k].step = "done"]
    /\ OnlyFutures /\ UNCHANGED <<passed, failures>>

\* An error in a lookup or in a statement: the transaction is rolled back, for all listens of the job.
JobFails(k) ==
    /\ Fail
    /\ Step(k, "lookup")
    /\ futures' = [futures EXCEPT ![k].step = "done"]
    /\ passed' = passed \cup (futures[k].items \ Ahead)
    /\ OnlyFutures /\ UNCHANGED mapping

-----------------------------------------------------------------------------
(* Time, and what others do. *)

\* A row is due at check_again, or is marked by hand.
FallsDue(m) ==
    /\ dues < MaxDue /\ dues' = dues + 1
    /\ mapping[m] \in {"match", "nomatch"}
    /\ mapping' = [mapping EXCEPT ![m] = IF @ = "match" THEN "marked" ELSE "due"]
    /\ UNCHANGED <<memory, stored, unique, cached, passed, failures>>

\* UNMATCHED_LISTENS_COMPLETED_TIMEOUT
DayPasses ==
    /\ rests /\ rests' = FALSE
    /\ UNCHANGED <<pending, futures, thread, loader, index, tables, passed, failures, dues>>

-----------------------------------------------------------------------------
Init ==
    /\ stored = Legacy /\ unique = {}
    /\ mapping = [m \in Msids |-> "absent"]
    /\ pending = {} /\ futures = <<>> /\ thread = "wait"
    /\ loader = [at |-> "start"] /\ index = None /\ rests = FALSE
    /\ cached = None
    /\ passed = {} /\ failures = 0 /\ dues = 0

Load ==
    \/ LoaderStarts \/ LoaderRechecks \/ LoaderReads \/ LoaderFilters
    \/ \E m \in Msids : LoaderPuts(m)
    \/ LoaderEnds

Loop == Collect \/ Take \/ Filled

Work == \E k \in 1..MaxQueued : JobStarts(k) \/ JobCommits(k)

Next ==
    \/ \E b \in Batches : Store(b) \/ callback(b)
    \/ Load \/ Loop \/ Work \/ DayPasses
    \/ LoaderFails \/ Dies \/ Crash
    \/ \E k \in 1..MaxQueued : JobFails(k)
    \/ \E m \in Msids : FallsDue(m)

Spec == Init /\ [][Next]_vars

\* Threads run, messages are delivered, and days pass.
FairSpec ==
    /\ Spec
    /\ \A b \in Batches : WF_vars(callback(b))
    /\ WF_vars(Load) /\ WF_vars(Loop) /\ WF_vars(Work) /\ WF_vars(DayPasses)

-----------------------------------------------------------------------------
(* Properties. *)

Jobs == [prio : {NEW_LISTEN, RECHECK_LISTEN, LEGACY_LISTEN}, items : SUBSET Msids]

\* The pool never has more jobs or busy threads than it may, and nothing is known of recordings that
\* nobody has listened to.
TypeOK ==
    /\ stored \subseteq Msids /\ unique \subseteq Batches
    /\ \A m \in Msids : mapping[m] \in {"absent", "match", "nomatch"} \cup Due
    /\ \A m \in Msids : mapping[m] # "absent" => m \in stored
    /\ pending \subseteq Jobs /\ thread \in {"wait", "fill", "dead"}
    /\ Len(futures) <= MaxQueued /\ Cardinality(Executing) <= MaxThreads

\* A listen without a row in the mapping is on its way to get one: in the queue of messages, in a job,
\* or where the walk has yet to come, unless the walk was past it when it was lost.
NoneForgotten ==
    \A m \in stored \ passed : mapping[m] = "absent" =>
        m \in (UNION unique) \cup InHand \cup Loading \cup Ahead

\* Every listen gets a row in the end, whatever was lost on the way, unless the thread of the job
\* queue has died.
ListensMapped == \A m \in Msids : m \in stored ~> mapping[m] # "absent" \/ thread = "dead"

\* Rows to be checked again are.
RowsRechecked == \A m \in Msids : mapping[m] \in Due ~> mapping[m] \notin Due \/ thread = "dead"

\* "check for old legacy listens that have no entry in the mapping yet"
LegacyHasNoEntry ==
    [][loader.at = "mapped" /\ loader'.at = "put" => \A m \in loader'.msids : mapping[m] = "absent"]_vars

\* The same without the exception: what is acked is processed.
MappedWhateverDies == \A m \in Msids : m \in stored ~> mapping[m] # "absent"

=============================================================================
