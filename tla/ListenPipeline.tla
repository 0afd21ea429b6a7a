--------------------------- MODULE ListenPipeline ---------------------------
(***************************************************************************)
(* How listens get from the API to the databases: insert_payload() sends a *)
(* batch to the incoming queue in chunks, a timescale writer takes one     *)
(* message at a time, looks its recordings up in MessyBrainz, writes it to *)
(* Timescale and to the listens database, and sends the rows that were new *)
(* down the unique queue.  A message whose processing raises goes to the   *)
(* rejection queue; a database error or a crash restarts the writer, and   *)
(* RabbitMQ delivers its message again.                                    *)
(***************************************************************************)
EXTENDS Integers, Sequences, FiniteSets, SequencesExt

CONSTANTS
    Clients,        \* requests to the submit-listens endpoint
    Batch,          \* the listens each request submits
    Writers,        \* timescale writer processes
    MessageSize,    \* MAX_LISTENS_PER_RMQ_MESSAGE
    RecentMax,      \* RECENT_LISTENS_MAX
    MaxFailures,    \* bound: crashes, errors and lost confirmations
    MaxMessages,    \* bound: messages ever published to the incoming queue
    None            \* no message

\* A listen as submitted: its user, its timestamp and the metadata MessyBrainz keys on.
Listens == UNION {ToSet(Batch[c]) : c \in Clients}

Strip(x) == [user |-> x.user, at |-> x.at, rec |-> x.rec]

ASSUME BatchAssumption == \A c \in Clients : Batch[c] \in Seq(Listens) \ {<<>>}
ASSUME ListensAssumption == \A l \in Listens : l = Strip(l) /\ l.at \in Int
ASSUME SizesAssumption == MessageSize \in Nat \ {0} /\ RecentMax \in Nat \ {0}

Recordings == {l.rec : l \in Listens}

VARIABLES
    api,        \* each request: idle, sending, accepted (200) or refused (503)
    left,       \* the listens of the request still to be published
    incoming,   \* messages of the incoming queue: body and state, in order of publication
    msids,      \* messybrainz.submissions: how many rows each recording has
    earliest,   \* the earliest submitted of them
    ts,         \* the listen table of Timescale
    ldb,        \* the listen table of the listens database
    recent,     \* the recent listens of Redis
    daily,      \* the listen count of the day in Redis
    unique,     \* messages sent to the unique exchange
    rejection,  \* messages sent to the rejection exchange
    pc,         \* progress of each writer
    msg,        \* the message it is processing
    found,      \* the MSIDs of the recordings that its lookup found
    data,       \* its listens, augmented with MSIDs
    inserted,   \* the rows its insert reported as new
    count,      \* how many recent listens it has counted
    failures,   \* crashes, errors and lost confirmations so far
    skipped,    \* history variable: rows whose Timescale copy was skipped
    unreported, \* history variable: new rows of attempts that failed after their commit
    pushed,     \* history variable: rows ever added to the recent listens
    stale,      \* history variable: writers since whose count another writer has popped recent listens
    lapsed      \* history variable: the listens that were popped by a stale count

queues == <<incoming, unique, rejection>>
stores == <<msids, earliest, ts, ldb, recent, daily>>
request == <<api, left>>
writer == <<pc, msg, found, data, inserted, count>>
pops == <<pushed, stale, lapsed>>
tracked == <<skipped, unreported, pops>>
vars == <<request, queues, stores, writer, failures, tracked>>

-----------------------------------------------------------------------------
Init ==
    /\ api = [c \in Clients |-> "idle"]
    /\ left = [c \in Clients |-> <<>>]
    /\ incoming = <<>> /\ unique = <<>> /\ rejection = <<>>
    /\ msids = [r \in Recordings |-> 0]
    /\ earliest = [r \in Recordings |-> 0]
    /\ ts = {} /\ ldb = {} /\ recent = {} /\ daily = 0
    /\ pc = [w \in Writers |-> "idle"]
    /\ msg = [w \in Writers |-> None]
    /\ found = [w \in Writers |-> <<>>]
    /\ data = [w \in Writers |-> <<>>]
    /\ inserted = [w \in Writers |-> {}]
    /\ count = [w \in Writers |-> 0]
    /\ failures = 0
    /\ skipped = {} /\ unreported = {} /\ pushed = {} /\ stale = {} /\ lapsed = {}

MayFail == failures < MaxFailures

-----------------------------------------------------------------------------
(* insert_payload(): the request is published chunk by chunk *)

Submit(c) ==
    /\ api[c] \in {"idle", "refused"}
    /\ api' = [api EXCEPT ![c] = "sending"]
    /\ left' = [left EXCEPT ![c] = Batch[c]]
    /\ UNCHANGED <<queues, stores, writer, failures, tracked>>

NextChunk(c) == SubSeq(left[c], 1, IF Len(left[c]) < MessageSize THEN Len(left[c]) ELSE MessageSize)

\* n copies of the next chunk reach the queue: one, or two when a confirmation was lost and
\* the publication retried.
Enqueue(c, n) ==
    /\ api[c] = "sending" /\ Len(incoming) + n <= MaxMessages
    /\ incoming' = incoming \o [i \in 1..n |-> [body |-> NextChunk(c), state |-> "queued"]]

PublishChunk(c) ==
    /\ \/ Enqueue(c, 1) /\ UNCHANGED failures
       \/ Enqueue(c, 2) /\ MayFail /\ failures' = failures + 1
    /\ left' = [left EXCEPT ![c] = SubSeq(@, MessageSize + 1, Len(@))]
    /\ api' = [api EXCEPT ![c] = IF Len(left[c]) <= MessageSize THEN "accepted" ELSE @]
    /\ UNCHANGED <<unique, rejection, stores, writer, tracked>>

\* The retries are exhausted: the request is refused, its earlier chunks stay queued, and the
\* last one may have been queued without a confirmation.
PublishFails(c) ==
    /\ MayFail /\ failures' = failures + 1
    /\ Enqueue(c, 0) \/ Enqueue(c, 1)
    /\ api' = [api EXCEPT ![c] = "refused"]
    /\ left' = [left EXCEPT ![c] = <<>>]
    /\ UNCHANGED <<unique, rejection, stores, writer, tracked>>

-----------------------------------------------------------------------------
(* TimescaleWriterSubscriber.callback() *)

Body(w) == incoming[msg[w]].body

Goto(w, p) == pc' = [pc EXCEPT ![w] = p]

\* A message becomes available again when its consumer is gone.
Deliver(w) ==
    /\ pc[w] = "idle"
    /\ \E m \in DOMAIN incoming :
          /\ incoming[m].state = "queued"
          /\ incoming' = [incoming EXCEPT ![m].state = "unacked"]
          /\ msg' = [msg EXCEPT ![w] = m]
    /\ Goto(w, "lookup")
    /\ UNCHANGED <<request, unique, rejection, stores, found, data, inserted, count, failures, tracked>>

\* The earliest submitted MSID of every recording of the message that has one.
Lookup(w) ==
    /\ pc[w] = "lookup"
    /\ found' = [found EXCEPT ![w] =
                    [r \in {l.rec : l \in ToSet(Body(w))} |-> earliest[r]]]
    /\ Goto(w, "register")
    /\ UNCHANGED <<request, queues, stores, msg, data, inserted, count, failures, tracked>>

Missing(w) == {r \in DOMAIN found[w] : found[w][r] = 0}

Msid(w, r) == IF r \in Missing(w) THEN msids'[r] ELSE found[w][r]

\* Each recording not found gets a new MSID.  submitted is the time its transaction started:
\* the row may be earlier than one that another writer committed since the lookup.
Register(w) ==
    /\ pc[w] = "register"
    /\ msids' = [r \in Recordings |-> IF r \in Missing(w) THEN msids[r] + 1 ELSE msids[r]]
    /\ \E E \in SUBSET {r \in Missing(w) : earliest[r] # 0} :
          earliest' = [r \in Recordings |->
                          IF r \in E \/ (r \in Missing(w) /\ earliest[r] = 0)
                          THEN msids'[r] ELSE earliest[r]]
    /\ data' = [data EXCEPT ![w] =
                   [i \in DOMAIN Body(w) |->
                      LET l == Body(w)[i] IN
                      [user |-> l.user, at |-> l.at, rec |-> l.rec,
                       msid |-> Msid(w, l.rec)]]]
    /\ Goto(w, "timescale")
    /\ UNCHANGED <<request, queues, ts, ldb, recent, daily, msg, found, inserted, count, failures,
                   tracked>>

\* Characters that Timescale cannot store are the one error that only skips its copy.
InsertTimescale(w) ==
    /\ pc[w] = "timescale"
    /\ \/ ts' = ts \cup ToSet(data[w]) /\ UNCHANGED <<skipped, failures>>
       \/ /\ MayFail /\ failures' = failures + 1
          /\ skipped' = skipped \cup ToSet(data[w])
          /\ UNCHANGED ts
    /\ Goto(w, "store")
    /\ UNCHANGED <<request, queues, msids, earliest, ldb, recent, daily, msg, found, data,
                   inserted, count, unreported, pops>>

\* Mutations: the rows that are new to Timescale are reported; all rows are.
New_ToTimescale(w) == ToSet(data[w]) \ ts

New_All(w) == ToSet(data[w])

\* The rows RETURNING reports.
New(w) == ToSet(data[w]) \ ldb

InsertListens(w) ==
    /\ pc[w] = "store"
    /\ inserted' = [inserted EXCEPT ![w] = New(w)]
    /\ ldb' = ldb \cup ToSet(data[w])
    /\ Goto(w, IF New(w) = {} THEN "ack" ELSE "account")
    /\ UNCHANGED <<request, queues, msids, earliest, ts, recent, daily, msg, found, data,
                   count, failures, tracked>>

\* The count of the day and the invalidation of caches: errors are logged and swallowed.
Account(w) ==
    /\ pc[w] = "account"
    /\ \/ daily' = daily + Cardinality(inserted[w]) /\ UNCHANGED failures
       \/ MayFail /\ failures' = failures + 1 /\ UNCHANGED daily
    /\ Goto(w, "recent")
    /\ UNCHANGED <<request, queues, msids, earliest, ts, ldb, recent, msg, found, data, inserted,
                   count, tracked>>

\* Mutation: one listen too many is popped, twice.
Popped_TwoMore(R, n) ==
    {S \in SUBSET R : /\ Cardinality(S) = Cardinality(R) - n - 2
                      /\ \A x \in S, y \in R \ S : y.at <= x.at}

\* What remains of R when the n listens with the lowest timestamps are popped.
Popped(R, n) ==
    {S \in SUBSET R : /\ Cardinality(S) = Cardinality(R) - n
                      /\ \A x \in S, y \in R \ S : y.at <= x.at}

\* update_recent_listens() is three requests to Redis: ZADD ...
AddRecent(w) ==
    /\ pc[w] = "recent"
    /\ recent' = recent \cup inserted[w]
    /\ pushed' = pushed \cup inserted[w]
    /\ Goto(w, "count")
    /\ UNCHANGED <<request, queues, msids, earliest, ts, ldb, daily, msg, found, data, inserted,
                   count, failures, skipped, unreported, stale, lapsed>>

\* ... ZCARD, since the set is pruned only at twice its size ...
CountRecent(w) ==
    /\ pc[w] = "count"
    /\ count' = [count EXCEPT ![w] = Cardinality(recent)]
    /\ Goto(w, IF count'[w] > 2 * RecentMax THEN "prune" ELSE "publish")
    /\ stale' = stale \ {w}
    /\ UNCHANGED <<request, queues, stores, msg, found, data, inserted, failures, skipped, unreported,
                   pushed, lapsed>>

\* ... and ZPOPMIN, to one more than its size by the count of before, however many there are by now.
PruneRecent(w) ==
    /\ pc[w] = "prune"
    /\ LET n == count[w] - RecentMax - 1 IN
       recent' \in Popped(recent, IF n < Cardinality(recent) THEN n ELSE Cardinality(recent))
    /\ stale' = {v \in Writers \ {w} : pc[v] = "prune"}
    /\ lapsed' = IF w \in stale THEN lapsed \cup (recent \ recent') ELSE lapsed
    /\ Goto(w, "publish")
    /\ UNCHANGED <<request, queues, msids, earliest, ts, ldb, daily, msg, found, data, inserted,
                   count, failures, skipped, unreported, pushed>>

UpdateRecent(w) == AddRecent(w) \/ CountRecent(w) \/ PruneRecent(w)

\* Mutation: the whole batch is announced.
PublishUnique_All(w) ==
    /\ pc[w] = "publish"
    /\ unique' = Append(unique, data[w])
    /\ inserted' = [inserted EXCEPT ![w] = {}]
    /\ Goto(w, "ack")
    /\ UNCHANGED <<request, incoming, rejection, stores, msg, found, data, count, failures, tracked>>

\* The listens of the batch whose keys are among the inserted rows, by their places in the batch.
PublishUnique(w) ==
    /\ pc[w] = "publish"
    /\ unique' = Append(unique, Restrict(data[w], {i \in DOMAIN data[w] : data[w][i] \in inserted[w]}))
    /\ inserted' = [inserted EXCEPT ![w] = {}]
    /\ Goto(w, "ack")
    /\ UNCHANGED <<request, incoming, rejection, stores, msg, found, data, count, failures, tracked>>

\* Any error but a database's operational error.
Fail(w) ==
    /\ pc[w] \in {"lookup", "register", "timescale", "store", "recent", "count", "prune", "publish"}
    /\ MayFail /\ failures' = failures + 1
    /\ unreported' = unreported \cup inserted[w]
    /\ inserted' = [inserted EXCEPT ![w] = {}]
    /\ Goto(w, "reject")
    /\ UNCHANGED <<request, queues, stores, msg, found, data, count, skipped, pops>>

\* Mutation: a message that fails is only logged.
PublishRejection_LogOnly(w) ==
    /\ pc[w] = "reject"
    /\ Goto(w, "ack")
    /\ UNCHANGED <<request, queues, stores, msg, found, data, inserted, count, failures, tracked>>

PublishRejection(w) ==
    /\ pc[w] = "reject"
    /\ rejection' = Append(rejection, Body(w))
    /\ Goto(w, "ack")
    /\ UNCHANGED <<request, incoming, unique, stores, msg, found, data, inserted, count, failures,
                   tracked>>

Forget(w) ==
    /\ Goto(w, "idle")
    /\ msg' = [msg EXCEPT ![w] = None]
    /\ found' = [found EXCEPT ![w] = <<>>]
    /\ data' = [data EXCEPT ![w] = <<>>]
    /\ inserted' = [inserted EXCEPT ![w] = {}]
    /\ count' = [count EXCEPT ![w] = 0]

Ack(w) ==
    /\ pc[w] = "ack"
    /\ incoming' = [incoming EXCEPT ![msg[w]].state = "acked"]
    /\ Forget(w)
    /\ UNCHANGED <<request, unique, rejection, stores, failures, tracked>>

\* Mutation: the message of a dead writer stays with the dead consumer.
Crash_Keeps(w) ==
    /\ pc[w] # "idle" /\ MayFail
    /\ failures' = failures + 1
    /\ unreported' = unreported \cup inserted[w]
    /\ Forget(w)
    /\ UNCHANGED <<request, queues, stores, skipped, pops>>

\* The process dies, or exits after an operational error or a failure to publish the
\* rejection; it is started again and its message is delivered again.
Crash(w) ==
    /\ pc[w] # "idle" /\ MayFail
    /\ failures' = failures + 1
    /\ incoming' = [incoming EXCEPT ![msg[w]].state = "queued"]
    /\ unreported' = unreported \cup inserted[w]
    /\ Forget(w)
    /\ UNCHANGED <<request, unique, rejection, stores, skipped, pops>>

WriterStep(w) ==
    \/ Deliver(w) \/ Lookup(w) \/ Register(w) \/ InsertTimescale(w) \/ InsertListens(w)
    \/ Account(w) \/ UpdateRecent(w) \/ PublishUnique(w) \/ PublishRejection(w) \/ Ack(w)

Next ==
    \/ \E c \in Clients : Submit(c) \/ PublishChunk(c) \/ PublishFails(c)
    \/ \E w \in Writers : WriterStep(w) \/ Fail(w) \/ Crash(w)

Spec == Init /\ [][Next]_vars

\* A writer that runs carries on with its work, and one that died is started again.
FairSpec == Spec /\ \A w \in Writers : WF_vars(WriterStep(w))

-----------------------------------------------------------------------------
(* Properties *)

Rows == [user : {l.user : l \in Listens}, at : {l.at : l \in Listens}, rec : Recordings, msid : Nat]

Pcs == {"idle", "lookup", "register", "timescale", "store", "account", "recent", "count", "prune",
        "publish", "reject", "ack"}

\* The steps of a writer that has the rows of its message, and those after its insert found new ones.
Writing == {"timescale", "store", "account", "recent", "count", "prune", "publish"}
Reporting == {"account", "recent", "count", "prune", "publish"}

Messages == [body : Seq(Listens) \ {<<>>}, state : {"queued", "unacked", "acked"}]

RequestsOK ==
    /\ api \in [Clients -> {"idle", "sending", "accepted", "refused"}]
    /\ left \in [Clients -> Seq(Listens)]
    /\ \A c \in Clients : api[c] = "sending" => left[c] # <<>>

StoresOK ==
    /\ incoming \in Seq(Messages) /\ rejection \in Seq(Seq(Listens))
    /\ msids \in [Recordings -> Nat] /\ earliest \in [Recordings -> Nat]
    /\ ts \subseteq Rows /\ ldb \subseteq Rows /\ recent \subseteq Rows /\ daily \in Nat

\* A writer that works holds a message of its own.
DeliveriesOK ==
    /\ pc \in [Writers -> Pcs]
    /\ DOMAIN msg = Writers /\ DOMAIN found = Writers /\ DOMAIN data = Writers /\ DOMAIN inserted = Writers
    /\ \A w \in Writers : pc[w] # "idle" => msg[w] \in DOMAIN incoming /\ incoming[msg[w]].state = "unacked"
    /\ \A v, w \in Writers : v # w /\ pc[v] # "idle" /\ pc[w] # "idle" => msg[v] # msg[w]

\* Its batch consists of the listens of that message, in their places.
BatchOK(w) ==
    /\ data[w] \in Seq(Rows) /\ DOMAIN data[w] = DOMAIN Body(w)
    /\ \A i \in DOMAIN data[w] : Strip(data[w][i]) = Body(w)[i]

WorkOK(w) ==
    /\ pc[w] = "register" => found[w] \in [{l.rec : l \in ToSet(Body(w))} -> Nat]
    /\ pc[w] \in Writing => BatchOK(w)
    /\ inserted[w] # {} <=> pc[w] \in Reporting
    /\ pc[w] \in Reporting => inserted[w] \subseteq ToSet(data[w])

PartsOK == RequestsOK /\ StoresOK /\ DeliveriesOK /\ \A w \in Writers : WorkOK(w)

\* What it pops is more than nothing.
CountsOK ==
    /\ IsFiniteSet(recent) /\ count \in [Writers -> Nat]
    /\ \A w \in Writers : pc[w] = "prune" => count[w] > 2 * RecentMax

TypeOK == PartsOK /\ CountsOK

Stored == {Strip(x) : x \in ldb}

Rejected == UNION {ToSet(rejection[i]) : i \in DOMAIN rejection}

Open == UNION {ToSet(incoming[m].body) : m \in {n \in DOMAIN incoming : incoming[n].state # "acked"}}

Announced == UNION {Range(unique[m]) : m \in DOMAIN unique}

\* A listen of a request that was answered with 200 is never lost: it waits in a message that
\* is not acked, or it is stored, or it is in the rejection queue.
AcceptedNotLost ==
    \A c \in Clients : api[c] = "accepted" => ToSet(Batch[c]) \subseteq Open \cup Stored \cup Rejected

\* "If the listens DB write fails the retry still reports its new listens": a stored row has
\* been announced, or its writer is about to, unless that attempt failed after its commit.
FailedWriteStillReported ==
    \A x \in ldb \ unreported :
        x \in Announced \/ \E w \in Writers : x \in inserted[w]

\* Redeliveries, retries and other writers do not make a row be announced again.
AnnouncedOnce ==
    /\ Announced \subseteq ldb
    /\ \A m, n \in DOMAIN unique :
          \A i \in DOMAIN unique[m], j \in DOMAIN unique[n] :
              unique[m][i] = unique[n][j] => m = n /\ i = j

\* Timescale is written before the listens database: no order of failures leaves a row that
\* only the listens database has, but for the batches Timescale could not store.
TimescaleHasAll == ldb \ skipped \subseteq ts

\* With one writer a recording never gets a second MSID, so that a listen submitted again is
\* recognised as a duplicate.
OneMsid == \A r \in Recordings : msids[r] <= 1

\* Pruning keeps the RECENT_LISTENS_MAX most recent of all the listens ever pushed, also when several writers add,
\* count and prune at once, but for those that a writer popped by a count from before another writer had popped: a
\* listen that is missing was popped when there were as many of the same age or younger, those that have lapsed since
\* included.
RecentKeepsNewest ==
    \A x \in pushed \ (recent \cup lapsed) :
        Cardinality({y \in recent \cup lapsed : y.at >= x.at}) >= RecentMax

\* The RECENT_LISTENS_MAX most recent of all the listens ever pushed are there.  Two writers can prune below that.
NewestAreThere == \A x \in pushed \ recent : Cardinality({y \in recent : y.at >= x.at}) >= RecentMax

\* Every message is acked in the end, in spite of the restarts of its writers.
MessagesSettled ==
    \A m \in 1..MaxMessages :
        [](m \in DOMAIN incoming => <>(m \in DOMAIN incoming /\ incoming[m].state = "acked"))

\* The messages of the unique queue, whose consumers tell listens by what was submitted.
AnnouncedListens == [m \in DOMAIN unique |-> [i \in DOMAIN unique[m] |-> Strip(unique[m][i])]]

\* The pipeline implements the promise of ListenDelivery.
Delivery ==
    INSTANCE ListenDelivery WITH
        open <- Open, stored <- Stored, rejected <- Rejected, announced <- AnnouncedListens

DeliverySpec == Delivery!Spec

\* callback(): "If a listen inserts successfully, send it to the unique queue. Ack the
\* incoming message."
InsertedAreAnnounced ==
    \A m \in DOMAIN incoming :
        incoming[m].state = "acked" =>
            \A x \in ldb : Strip(x) \in ToSet(incoming[m].body) =>
                x \in Announced \/ \E w \in Writers : x \in inserted[w]

\* callback(): "If a listen fails to insert, send it to the rejection queue": a message on
\* its way to the rejection queue has inserted nothing.
RejectedFailedToInsert == [][\A w \in Writers : Fail(w) => inserted[w] = {}]_vars

\* insert_to_listenstore(): "Timescale will report back as to which rows were actually
\* inserted into the DB, allowing us to send those down the unique queue", and no other.
OnlyInsertedAnnounced ==
    Cardinality(UNION {{m} \X DOMAIN unique[m] : m \in DOMAIN unique}) <= Cardinality(ldb)
=============================================================================
