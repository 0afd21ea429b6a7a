----------------------------- MODULE StatsResults -----------------------------
(***************************************************************************)
(* The statistics of users: the Spark cluster calculates them in runs and  *)
(* publishes them as messages, the Spark reader stores them in CouchDB, in *)
(* a new database for every full run, the web server reads them, and the   *)
(* dump copies the oldest database.                                        *)
(*                                                                         *)
(* Modelled is one kind of statistics.  A document is the number of the    *)
(* run that it comes from, which is also the day in a database's name.     *)
(***************************************************************************)
EXTENDS Integers, Sequences, FiniteSets

CONSTANTS
    Users,
    Readers,        \* the users who read their statistics
    FullRuns,       \* what a full run may have: its messages, each a set of users
    MaxRuns,        \* bound: runs
    MaxErrors,      \* bound: errors, lost connections, restarts
    Absent,         \* no such database
    None            \* no statistics

ASSUME RunsAssumption == MaxRuns \in Nat
ASSUME NoneAssumption == None \notin Nat
ASSUME AbsentAssumption == Absent \notin [Users -> {None} \cup Nat]
ASSUME ReadersAssumption == Readers \subseteq Users
ASSUME FullRunsAssumption == FullRuns \subseteq Seq(SUBSET Users)

VARIABLES
    runs,           \* runs so far
    unpublished,    \* the messages that the run in progress has still to publish
    messages,       \* the messages that are not acked
    delivered,      \* how many of them the reader has put on its internal queue
    finished,       \* how many of those it has handled and put on its ack queue
    thread,         \* whether the reader's background thread runs
    executors,      \* whether its thread pools accept work
    handling,       \* how far the thread is with a message: the databases that an end has still to delete
    databases,      \* of CouchDB, by day
    locked,         \* databases that hold a LOCK
    read,           \* a request for a user's statistics, and what it has still to ask
    dump,           \* the dump: the database it copies, and where it is
    errors,         \* failures so far
    counted,        \* history variable: the users that each full run has statistics of
    missed,         \* history variable: runs and users whose statistics were not stored
    again,          \* history variable: how many of the messages were handled before they were delivered again
    lost,           \* history variable: data that were not stored, although their database is there
    late            \* history variable: databases locked after the look for a LOCK

cluster == <<runs, unpublished, counted>>
reader == <<messages, delivered, finished, thread, executors, handling>>
couch == <<databases, locked>>
faults == <<errors, missed, again, lost>>
statsVars == <<cluster, reader, couch, read, dump, faults, late>>

Days == 1..MaxRuns
AtRest == [at |-> "idle"]

-----------------------------------------------------------------------------
(* CouchDB. *)

list_databases == {d \in Days : databases[d] # Absent}

Newest(days) == CHOOSE d \in days : \A e \in days : e <= d
Oldest(days) == CHOOSE d \in days : \A e \in days : d <= e

Empty == [u \in Users |-> None]

\* The databases that hold a document of a user, and the newest of the documents.
holders(u) == {d \in list_databases : databases[d][u] # None}
latest(u) == IF holders(u) = {} THEN None ELSE databases[Newest(holders(u))][u]

\* Mutant: the names come in the order of creation.
Outdated_Ascending(days) == days \ {Oldest(days)}

\* All but the latest.
Outdated(days) == days \ {Newest(days)}

-----------------------------------------------------------------------------
(* The Spark cluster.  A full run announces a database, fills it with the  *)
(* statistics of those who have listens in its range and says that it is   *)
(* complete; an incremental run has the users who have listened since, for *)
(* whichever database is the newest.                                       *)

full_run(n, batches) ==
    <<[type |-> "start", day |-> n]>>
    \o [i \in DOMAIN batches |-> [type |-> "data", day |-> n, users |-> batches[i], run |-> n]]
    \o <<[type |-> "end", day |-> n]>>

StartRun ==
    /\ unpublished = <<>> /\ runs < MaxRuns
    /\ runs' = runs + 1
    /\ \E batches \in FullRuns :
          \/ /\ unpublished' = full_run(runs', batches)
             /\ counted' = [counted EXCEPT ![runs'] = UNION {batches[i] : i \in DOMAIN batches}]
          \/ \E i \in DOMAIN batches :
                /\ unpublished' = <<[type |-> "data", day |-> 0, users |-> batches[i], run |-> runs']>>
                /\ UNCHANGED counted
    /\ UNCHANGED <<reader, couch, read, dump, faults, late>>

Publish ==
    /\ unpublished # <<>>
    /\ messages' = Append(messages, Head(unpublished))
    /\ unpublished' = Tail(unpublished)
    /\ UNCHANGED <<runs, counted, delivered, finished, thread, executors, handling, couch, read, dump, faults, late>>

\* A run that fails half way leaves its database without an end message.
RunFails ==
    /\ unpublished # <<>> /\ errors < MaxErrors
    /\ errors' = errors + 1
    /\ unpublished' = <<>>
    /\ UNCHANGED <<runs, counted, reader, couch, read, dump, missed, again, lost, late>>

-----------------------------------------------------------------------------
(* The Spark reader: the main thread takes messages and acks them, the     *)
(* background thread handles them in order.                                *)

SparkReader_callback ==
    /\ delivered < Len(messages)
    /\ delivered' = delivered + 1
    /\ UNCHANGED <<cluster, messages, finished, thread, executors, handling, couch, read, dump, faults, late>>

on_iteration ==
    /\ finished > 0
    /\ messages' = Tail(messages)
    /\ finished' = finished - 1
    /\ delivered' = delivered - 1
    /\ again' = IF again = 0 THEN 0 ELSE again - 1
    /\ UNCHANGED <<cluster, thread, executors, handling, couch, read, dump, errors, missed, lost, late>>

Message == messages[finished + 1]
HasMessage(type) == thread /\ finished < delivered /\ handling = AtRest /\ Message.type = type

\* The handler has returned or raised; the two database sessions are still to be rolled back.
Done == [at |-> "done"]

\* A step of the thread that fails.  Whatever a handler raises is logged.
Fails == errors < MaxErrors /\ errors' = errors + 1

CouchDbDataset_handle_start ==
    /\ HasMessage("start")
    /\ \/ /\ databases' = [databases EXCEPT ![Message.day] = IF @ = Absent THEN Empty ELSE @]
          /\ UNCHANGED errors
       \/ Fails /\ UNCHANGED databases
    /\ handling' = Done
    /\ UNCHANGED <<cluster, messages, delivered, finished, thread, executors, locked, read, dump, missed, again, lost,
                   late>>

\* Without a day the data are for the newest database, 0 if there is none.
Target(m) ==
    IF m.day # 0 THEN m.day ELSE IF list_databases = {} THEN 0 ELSE Newest(list_databases)

\* The data are split in two for the two threads of the pool: the data of one user in chunks of none.
Stored(m) ==
    /\ executors
    /\ Cardinality(m.users) >= 2
    /\ Target(m) \in list_databases

\* The message that is handled was handled before, and then delivered again.
Repeated == finished < again

Crossed == IF read.at = "ask" THEN [read EXCEPT !.crossed = TRUE] ELSE read

\* Documents are stored one by one.  An error is logged, and the message acked like any other.
StatsDataset_handle_insert ==
    /\ HasMessage("data")
    /\ \E some \in SUBSET Message.users :
          /\ \/ Stored(Message) /\ some = Message.users /\ UNCHANGED <<errors, lost>>
             \/ Stored(Message) /\ some # Message.users /\ Fails /\ UNCHANGED lost
             \/ /\ ~Stored(Message) /\ some = {} /\ UNCHANGED errors
                /\ lost' = IF Target(Message) \in list_databases THEN lost \cup {Message} ELSE lost
          /\ databases' = IF some = {} THEN databases
                          ELSE [databases EXCEPT ![Target(Message)] =
                                   [u \in Users |-> IF u \in some THEN Message.run ELSE @[u]]]
          /\ missed' = missed \cup ({Message.run} \X (Message.users \ some))
    /\ read' = IF Repeated THEN Crossed ELSE read
    /\ handling' = Done
    /\ UNCHANGED <<cluster, messages, delivered, finished, thread, executors, locked, dump, again, late>>

\* The names are listed once, then each is checked for a LOCK and deleted.
CouchDbDataset_handle_end ==
    /\ HasMessage("end")
    /\ \/ /\ handling' = IF list_databases = {} THEN Done
                         ELSE [at |-> "sweep", left |-> Outdated(list_databases), next |-> 0]
          /\ UNCHANGED errors
       \/ Fails /\ handling' = Done
    /\ UNCHANGED <<cluster, messages, delivered, finished, thread, executors, couch, read, dump, missed, again, lost,
                   late>>

\* Mutant: the LOCK is not looked for.
check_database_lock_Skipped ==
    /\ handling.at = "sweep" /\ handling.next = 0
    /\ \E d \in handling.left : handling' = [at |-> "sweep", left |-> handling.left \ {d}, next |-> d]
    /\ UNCHANGED <<cluster, messages, delivered, finished, thread, executors, couch, read, dump, faults, late>>

check_database_lock ==
    /\ handling.at = "sweep" /\ handling.next = 0
    /\ \E d \in handling.left :
          handling' = [at |-> "sweep", left |-> handling.left \ {d}, next |-> IF d \in locked THEN 0 ELSE d]
    /\ UNCHANGED <<cluster, messages, delivered, finished, thread, executors, couch, read, dump, faults, late>>

delete_database ==
    /\ handling.at = "sweep" /\ handling.next # 0
    /\ databases' = [databases EXCEPT ![handling.next] = Absent]
    /\ locked' = locked \ {handling.next}
    /\ read' = IF read.at = "ask" /\ read.holder = handling.next THEN Crossed ELSE read
    /\ handling' = [handling EXCEPT !.next = 0]
    /\ UNCHANGED <<cluster, messages, delivered, finished, thread, executors, dump, faults, late>>

\* A request that fails ends the sweep.
SweepEnds ==
    /\ handling.at = "sweep"
    /\ \/ handling.next = 0 /\ handling.left = {} /\ UNCHANGED errors
       \/ Fails
    /\ handling' = Done
    /\ UNCHANGED <<cluster, messages, delivered, finished, thread, executors, couch, read, dump, missed, again, lost,
                   late>>

\* Mutant: the message is not put on the ack queue.
process_message_Unacked ==
    /\ handling.at = "done"
    /\ handling' = AtRest
    /\ UNCHANGED <<cluster, messages, delivered, finished, thread, executors, couch, read, dump, faults, late>>

\* The sessions are rolled back, and the message is put on the ack queue.
process_message ==
    /\ handling.at = "done"
    /\ handling' = AtRest
    /\ finished' = finished + 1
    /\ UNCHANGED <<cluster, messages, delivered, thread, executors, couch, read, dump, faults, late>>

\* The messages that were handled so far, the one in hand included once its handler is done.
HandledOnce ==
    LET n == IF handling.at = "done" THEN finished + 1 ELSE finished
    IN  IF n < again THEN again ELSE n

\* A rollback raises: run() stops the pools and calls terminate(), in which the thread joins itself.  That raises, and
\* the thread ends, the message not on the ack queue; the main thread goes on taking messages.
ThreadDies ==
    /\ handling.at = "done" /\ Fails
    /\ handling' = AtRest
    /\ thread' = FALSE /\ executors' = FALSE
    /\ again' = HandledOnce
    /\ UNCHANGED <<cluster, messages, delivered, finished, couch, read, dump, missed, lost, late>>

\* What was delivered and not acked is delivered again, to a new background thread.  If the old one is dead this is
\* not counted: it happens no more often than threads die.
Redelivered ==
    /\ IF thread THEN Fails ELSE UNCHANGED errors
    /\ delivered' = 0 /\ finished' = 0 /\ handling' = AtRest /\ thread' = TRUE
    /\ again' = HandledOnce
    /\ UNCHANGED <<cluster, messages, couch, read, dump, missed, lost, late>>

\* An error leaves run(): terminate() ends the thread after the message it is working on, and its end
\* stops the thread pools.  start() connects again, with a new processor for the same datasets.
\* (A lost connection that kombu takes up again by itself is not modelled.)
RunRaises == handling = AtRest /\ Redelivered /\ executors' = FALSE

\* A new process has thread pools of its own.
Restart == Redelivered /\ executors' = TRUE

-----------------------------------------------------------------------------
(* A user's statistics are read: the databases are listed, and then asked  *)
(* one by one until one has a document of the user.                        *)

fetch_data(u) ==
    /\ read.at # "ask"
    /\ read' = [at |-> "ask", user |-> u, left |-> list_databases, crossed |-> FALSE, had |-> latest(u),
                holder |-> IF holders(u) = {} THEN 0 ELSE Newest(holders(u))]
    /\ UNCHANGED <<cluster, reader, couch, dump, faults, late>>

Answered(document) ==
    read' = [at |-> "answered", answer |-> document]

\* Mutant: the databases are asked in the order of their creation.
get_document_Ascending ==
    /\ read.at = "ask" /\ read.left # {}
    /\ LET d == Oldest(read.left)
           document == IF databases[d] = Absent THEN None ELSE databases[d][read.user]
       IN  IF document = None THEN read' = [read EXCEPT !.left = @ \ {d}] ELSE Answered(document)
    /\ UNCHANGED <<cluster, reader, couch, dump, faults, late>>

\* A database that is no longer there answers 404 like one that has no document.
get_document ==
    /\ read.at = "ask" /\ read.left # {}
    /\ LET d == Newest(read.left)
           document == IF databases[d] = Absent THEN None ELSE databases[d][read.user]
       IN  IF document = None THEN read' = [read EXCEPT !.left = @ \ {d}] ELSE Answered(document)
    /\ UNCHANGED <<cluster, reader, couch, dump, faults, late>>

nothing_found ==
    /\ read.at = "ask" /\ read.left = {}
    /\ Answered(None)
    /\ UNCHANGED <<cluster, reader, couch, dump, faults, late>>

-----------------------------------------------------------------------------
(* The dump of the statistics.  An error ends it, and its file stays short.*)

dump_database ==
    /\ dump = AtRest /\ list_databases # {}
    /\ dump' = [at |-> "lock", day |-> Oldest(list_databases)]
    /\ UNCHANGED <<cluster, reader, couch, read, faults, late>>

lock_database ==
    /\ dump.at = "lock"
    /\ IF databases[dump.day] = Absent
       THEN dump' = AtRest /\ UNCHANGED <<locked, late>>
       ELSE /\ dump' = [dump EXCEPT !.at = "read"]
            /\ locked' = locked \cup {dump.day}
            /\ late' = IF handling.at = "sweep" /\ handling.next = dump.day THEN late \cup {dump.day} ELSE late
    /\ UNCHANGED <<cluster, reader, databases, read, faults>>

unlock_database ==
    /\ dump.at = "read"
    /\ dump' = AtRest
    /\ locked' = locked \ {dump.day}
    /\ UNCHANGED <<cluster, reader, databases, read, faults, late>>

\* A dump that is killed leaves the LOCK behind, for the next dump to remove.
DumpKilled ==
    /\ dump # AtRest /\ Fails
    /\ dump' = AtRest
    /\ UNCHANGED <<cluster, reader, couch, read, missed, again, lost, late>>

-----------------------------------------------------------------------------
StatsInit ==
    /\ runs = 0 /\ unpublished = <<>> /\ counted = [d \in Days |-> {}]
    /\ messages = <<>> /\ delivered = 0 /\ finished = 0
    /\ thread = TRUE /\ executors = TRUE /\ handling = AtRest
    /\ databases = [d \in Days |-> Absent] /\ locked = {}
    /\ read = AtRest /\ dump = AtRest
    /\ errors = 0 /\ missed = {} /\ again = 0 /\ lost = {} /\ late = {}

Cluster ==
    \/ StartRun
    \/ Publish
    \/ RunFails

Handle ==
    \/ CouchDbDataset_handle_start
    \/ StatsDataset_handle_insert
    \/ CouchDbDataset_handle_end
    \/ check_database_lock
    \/ delete_database
    \/ SweepEnds
    \/ process_message

Reader ==
    \/ SparkReader_callback
    \/ on_iteration
    \/ Handle

Faults ==
    \/ ThreadDies
    \/ RunRaises
    \/ Restart

Read ==
    \/ \E u \in Readers : fetch_data(u)
    \/ get_document
    \/ nothing_found

Dump ==
    \/ dump_database
    \/ lock_database
    \/ unlock_database
    \/ DumpKilled

StatsNext == Cluster \/ Reader \/ Faults \/ Read \/ Dump

StatsSpec == StatsInit /\ [][StatsNext]_statsVars

\* The main thread of the reader goes on, and so do its background thread, unless it has died, and a run that
\* has begun.
StatsFairSpec ==
    /\ StatsSpec
    /\ WF_statsVars(Publish)
    /\ WF_statsVars(SparkReader_callback)
    /\ WF_statsVars(on_iteration)
    /\ WF_statsVars(Handle)

-----------------------------------------------------------------------------
(* Properties. *)

\* The reader's lists are parts of the queue, and a database holds one document of each user at most.
StatsTypeOK ==
    /\ runs \in 0..MaxRuns
    /\ 0 <= finished /\ finished <= delivered /\ delivered <= Len(messages)
    /\ again <= Len(messages)
    /\ \A d \in Days : databases[d] = Absent \/ databases[d] \in [Users -> {None} \cup 1..runs]
    /\ locked \subseteq list_databases
    /\ dump.at = "lock" => dump.day \in Days

Older(a, b) == a # b /\ (a = None \/ (b # None /\ a < b))

\* The run that ends has no statistics of the user, or they were not stored.
NotInRun(u) == u \notin counted[Message.day] \/ <<Message.day, u>> \in missed

\* The stored statistics of a user neither vanish nor grow older: through runs that fail half way, requests that fail,
\* dumps, dead threads and the deletion of databases.  Excepted are the deletions after a complete run that has none
\* of the user or whose statistics of the user were not stored, and messages that are handled a second time.
StatsStay ==
    [][\A u \in Users : Older(latest(u)', latest(u)) =>
          Repeated \/ (handling.at = "sweep" /\ NotInRun(u))]_statsVars

\* Who reads is not answered with older statistics than there were when it began, and not with none: although the
\* databases are asked one by one while the reader fills the newest and deletes the others.  Excepted is a read
\* whose document is deleted with its database before that is asked, or that meets data that are stored again.
AnswersNotOlder ==
    [][read.at = "ask" /\ read'.at = "answered" => read.crossed \/ ~Older(read'.answer, read.had)]_statsVars

\* A database that the dump reads is deleted only if it was locked between the check and the deletion.
LockedKept == [][\A d \in locked : d \notin list_databases' => d \in late]_statsVars

\* Every message is acked in the end, unless the background thread has died.
MessagesSettled == []<>(messages = <<>> \/ ~thread)

\* A message that is handled a second time takes no statistics away either.
StayWhenRepeated ==
    [][\A u \in Users : Older(latest(u)', latest(u)) => handling.at = "sweep" /\ NotInRun(u)]_statsVars

\* Who has statistics keeps them: fetch_data() asks all databases "until user data is found", since the latest may be
\* incomplete.
StayWhoeverListens ==
    [][\A u \in Users : Older(latest(u)', latest(u)) => Repeated]_statsVars

\* So a read finds statistics at least as new as those that there were when it began.
AnswersNeverOlder ==
    [][read.at = "ask" /\ read'.at = "answered" => ~Older(read'.answer, read.had)]_statsVars

\* An error that stops the background thread does not stop the acks.
AlwaysSettled == []<>(messages = <<>>)

\* Data that are acked have been stored, if CouchDB has their database and no request to it failed: run()
\* "puts them on ack queue if successfully processed".
HandledAreStored == lost = {}

=============================================================================
