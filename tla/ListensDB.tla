------------------------------ MODULE ListensDB ------------------------------
(***************************************************************************)
(* The user-partitioned listens database of listenbrainz/db/listens.py:    *)
(* the listen table, the listen_user_metadata rows that hold each user's   *)
(* listen count and timestamp bounds, the queued deletion requests of      *)
(* listen_delete_metadata and the deletion records of                      *)
(* deleted_user_listen_history.                                            *)
(*                                                                         *)
(* Every call of the module is a transaction run by a database session.    *)
(* Sessions interleave statement by statement and, inside a statement, row *)
(* lock by row lock, under PostgreSQL's READ COMMITTED rules: a statement  *)
(* takes its snapshot when it starts, a row locked by another transaction  *)
(* is waited for and then read in its latest committed version, and        *)
(* nothing a transaction wrote is visible to others before its commit.     *)
(***************************************************************************)
EXTENDS Integers, Sequences, FiniteSets, SequencesExt

CONSTANTS
    Users,                  \* user ids, ordered as integers
    Times,                  \* listened_at timestamps
    Msids,                  \* recording MSIDs
    Sessions,               \* database connections that may run a call at once
    Ops,                    \* the calls a configuration lets the sessions make
    Batches,                \* the batches of listens submitted to insert()
    InitListens,            \* listens stored when the behaviour starts
    InsertBatchSize,        \* INSERT_BATCH_SIZE
    RecalculateBatchSize,   \* RECALCULATE_BATCH_SIZE
    MaxNow,                 \* bound: calls of insert()
    MaxRequests,            \* bound: queued deletion requests
    MaxFailures,            \* bound: rollbacks other than those of deadlock victims
    Null                    \* SQL NULL, no row, no lock holder

Listen == [user : Users, at : Times, msid : Msids]
Row == [user : Users, at : Times, msid : Msids, created : Nat]

ASSUME UsersAssumption == Users \subseteq Nat
ASSUME TimesAssumption == Times \subseteq Nat
ASSUME OpsAssumption ==
    Ops \subseteq {"insert", "deletePending", "deleteUser", "deleteAccount", "addMissing",
                   "recalculate"}
ASSUME BatchesAssumption == Batches \subseteq Seq(Listen)
ASSUME InitListensAssumption == InitListens \subseteq Listen /\ IsFiniteSet(InitListens)
ASSUME BatchSizesAssumption ==
    InsertBatchSize \in Nat \ {0} /\ RecalculateBatchSize \in Nat \ {0}
ASSUME BoundsAssumption == MaxNow \in Nat /\ MaxRequests \in Nat /\ MaxFailures \in Nat
ASSUME NullAssumption == Null \notin Int /\ Null \notin Sessions /\ Null \notin [count : Int, min : Times \cup {Null}, max : Times \cup {Null}]

VARIABLES
    live,       \* the committed rows of listen
    meta,       \* the committed rows of listen_user_metadata, Null where there is none
    request,    \* listen_delete_metadata, in the order of its serial id
    history,    \* deleted_user_listen_history
    advisory,   \* holder of DELETE_PENDING_LISTENS_ADVISORY_LOCK
    mlock,      \* holder of the row lock of each user's metadata row
    mnew,       \* the metadata row as its lock holder has written it, not committed
    op,         \* the call each session is making
    pc,         \* its progress: idle, compare, running, ready
    rows,       \* rows its first statement has still to insert or delete, in plan order
    ins,        \* rows it has inserted and not committed
    del,        \* rows it has deleted and not committed
    arg,        \* what the call remembers besides
    now,        \* a clock that every insert() reads once
    failures,   \* rollbacks so far
    erased,     \* history variable: users whose account deletion has committed
    synced,     \* history variable: users whose metadata has been right since some point
    targets     \* history variable: the rows each request named when it was queued

committed == <<live, meta, request, history>>
locks == <<advisory, mlock, mnew>>
session == <<op, pc, rows, ins, del, arg>>
tracked == <<erased, synced, targets>>
vars == <<committed, locks, session, now, failures, tracked>>

-----------------------------------------------------------------------------
(* Rows, counts and bounds *)

Key(r) == <<r.user, r.at, r.msid>>

SameKey(r, x) == Key(r) = Key(x)

Of(S, u) == {r \in S : r.user = u}

Lowest(S) ==
    IF \E x \in S : \A y \in S : x <= y
    THEN CHOOSE x \in S : \A y \in S : x <= y
    ELSE Null

Highest(S) ==
    IF \E x \in S : \A y \in S : x >= y
    THEN CHOOSE x \in S : \A y \in S : x >= y
    ELSE Null

\* LEAST and GREATEST of PostgreSQL ignore NULL arguments.
Least(a, b) == IF a = Null THEN b ELSE IF b = Null \/ a <= b THEN a ELSE b

Greatest(a, b) == IF a = Null THEN b ELSE IF b = Null \/ a >= b THEN a ELSE b

MetaRow == [count : Int, min : Times \cup {Null}, max : Times \cup {Null}]

EmptyMeta == [count |-> 0, min |-> Null, max |-> Null]

\* What count(*), min(listened_at) and max(listened_at) return over the rows S.
Actual(S) ==
    [count |-> Cardinality(S),
     min |-> Lowest({r.at : r \in S}),
     max |-> Highest({r.at : r \in S})]

-----------------------------------------------------------------------------
(* Sessions *)

Idle(s) == pc[s] = "idle"

\* The users whose metadata rows s has locked, and those its statement still has to lock.
Locked(s) == {u \in Users : mlock[u] = s}

ToLock(s) ==
    CASE op[s] = "insert" -> {r.user : r \in ins[s]} \ Locked(s)
      [] op[s] = "deletePending" -> {r.user : r \in del[s]} \ Locked(s)
      [] op[s] = "deleteUser" -> {arg[s].user} \ Locked(s)
      [] op[s] = "recalculate" -> arg[s].stale \ Locked(s)
      [] op[s] = "addMissing" -> arg[s].todo
      [] OTHER -> {}

\* Metadata rows are locked in user_id order.
NextToLock(s, u) == u \in ToLock(s) /\ \A v \in ToLock(s) : u <= v

\* The first statement of the transaction has inserted or deleted all its rows.
RowsDone(s) == pc[s] = "running" /\ rows[s] = <<>>

MetaLocked(s) == RowsDone(s) /\ ToLock(s) = {}

\* What s sees of the listen table: the committed rows and its own writes.
View(s) == (live \ del[s]) \cup ins[s]

\* The key of r is held by t, which has inserted or deleted it and is in progress.
KeyHeldBy(t, r) == \E x \in ins[t] \cup del[t] : SameKey(x, r)

Free(s, u) == mlock[u] \in {Null, s}

Stored(u) == IF meta[u] = Null THEN EmptyMeta ELSE meta[u]

\* s starts a transaction of call o at p, with the rows rs ahead of it.
Start(s, o, p, rs, a) ==
    /\ op' = [op EXCEPT ![s] = o]
    /\ pc' = [pc EXCEPT ![s] = p]
    /\ rows' = [rows EXCEPT ![s] = rs]
    /\ ins' = [ins EXCEPT ![s] = {}]
    /\ del' = [del EXCEPT ![s] = {}]
    /\ arg' = [arg EXCEPT ![s] = a]

Finish(s) == Start(s, "none", "idle", <<>>, Null)

ReleaseLocks(s) ==
    /\ advisory' = IF advisory = s THEN Null ELSE advisory
    /\ mlock' = [u \in Users |-> IF mlock[u] = s THEN Null ELSE mlock[u]]
    /\ mnew' = [u \in Users |-> IF mlock[u] = s THEN Null ELSE mnew[u]]

\* What s wrote becomes visible and its locks are released.
Publish(s) ==
    /\ live' = View(s)
    /\ meta' = [u \in Users |-> IF mlock[u] = s THEN mnew[u] ELSE meta[u]]
    /\ ReleaseLocks(s)

\* The row s waits for, or its metadata row, is held by t.
WaitsFor(s, t) ==
    /\ s # t
    /\ pc[s] = "running"
    /\ \/ rows[s] # <<>> /\ op[s] = "insert" /\ KeyHeldBy(t, Head(rows[s]))
       \/ rows[s] # <<>> /\ op[s] # "insert" /\ Head(rows[s]) \in del[t]
       \/ RowsDone(s) /\ \E u \in Users : NextToLock(s, u) /\ mlock[u] = t
       \/ /\ RowsDone(s) /\ op[s] = "deleteAccount"
          /\ meta[arg[s].user] # Null /\ mlock[arg[s].user] = t

\* A cycle of waiting sessions: PostgreSQL aborts one of them.
Stuck(C) == C # {} /\ \A s \in C : \E t \in C : WaitsFor(s, t)

Deadlock(C) == Stuck(C) /\ \A D \in SUBSET C : Stuck(D) => D = C

-----------------------------------------------------------------------------
Init ==
    /\ live = {[user |-> l.user, at |-> l.at, msid |-> l.msid, created |-> 0] : l \in InitListens}
    /\ meta \in [Users -> {Null, EmptyMeta} \cup {Actual(Of(live, u)) : u \in Users}]
    /\ \A u \in Users : meta[u] \in {Null, EmptyMeta, Actual(Of(live, u))}
    /\ request = <<>>
    /\ history = {}
    /\ advisory = Null
    /\ mlock = [u \in Users |-> Null]
    /\ mnew = [u \in Users |-> Null]
    /\ op = [s \in Sessions |-> "none"]
    /\ pc = [s \in Sessions |-> "idle"]
    /\ rows = [s \in Sessions |-> <<>>]
    /\ ins = [s \in Sessions |-> {}]
    /\ del = [s \in Sessions |-> {}]
    /\ arg = [s \in Sessions |-> Null]
    /\ now = 0
    /\ failures = 0
    /\ erased = {}
    /\ synced = {u \in Users : Stored(u) = Actual(Of(live, u))}
    /\ targets = <<>>

\* A metadata row is locked by s and rewritten to m, visible to others after the commit.
WriteMeta(s, u, m) ==
    /\ mlock' = [mlock EXCEPT ![u] = s]
    /\ mnew' = [mnew EXCEPT ![u] = m]

-----------------------------------------------------------------------------
(* insert(): one statement and one transaction per chunk of the batch *)

Chunk(q) == SubSeq(q, 1, IF Len(q) < InsertBatchSize THEN Len(q) ELSE InsertBatchSize)

AfterChunk(q) == SubSeq(q, InsertBatchSize + 1, Len(q))

\* The rows of a batch carry the time insert() was called as created.
Submitted(b, t) ==
    [i \in DOMAIN b |-> [user |-> b[i].user, at |-> b[i].at, msid |-> b[i].msid, created |-> t]]

BeginInsert(s) ==
    /\ "insert" \in Ops /\ Idle(s) /\ now < MaxNow
    /\ now' = now + 1
    /\ \E b \in Batches :
          /\ b # <<>>
          /\ Start(s, "insert", "running", Chunk(Submitted(b, now + 1)),
                   [rest |-> AfterChunk(Submitted(b, now + 1))])
    /\ UNCHANGED <<committed, locks, failures, tracked>>

\* ON CONFLICT DO NOTHING waits for a transaction in progress on the same key first.
InsertRow(s) ==
    /\ op[s] = "insert" /\ pc[s] = "running" /\ rows[s] # <<>>
    /\ \A t \in Sessions \ {s} : ~KeyHeldBy(t, Head(rows[s]))
    /\ ins' = [ins EXCEPT ![s] =
                  IF \E x \in View(s) : SameKey(x, Head(rows[s])) THEN @
                  ELSE @ \cup {Head(rows[s])}]
    /\ rows' = [rows EXCEPT ![s] = Tail(@)]
    /\ UNCHANGED <<committed, locks, op, pc, del, arg, now, failures, tracked>>

\* Mutation: the delta does not extend the upper bound.
WidenedMeta_KeepsMax(s, u) ==
    LET delta == Actual(Of(ins[s], u)) IN
    [Stored(u) EXCEPT !.count = @ + delta.count, !.min = Least(@, delta.min)]

\* The delta of the rows that were inserted is added to the latest committed metadata row.
WidenedMeta(s, u) ==
    LET delta == Actual(Of(ins[s], u)) IN
    [count |-> Stored(u).count + delta.count,
     min |-> Least(Stored(u).min, delta.min),
     max |-> Greatest(Stored(u).max, delta.max)]

\* Mutation: counts are added listen by listen.
AddCount_Early(s) ==
    /\ op[s] = "insert" /\ pc[s] = "running"
    /\ \E u \in Users : NextToLock(s, u) /\ Free(s, u) /\ WriteMeta(s, u, WidenedMeta(s, u))
    /\ UNCHANGED <<committed, advisory, session, now, failures, tracked>>

AddCount(s) ==
    /\ op[s] = "insert" /\ RowsDone(s)
    /\ \E u \in Users : NextToLock(s, u) /\ Free(s, u) /\ WriteMeta(s, u, WidenedMeta(s, u))
    /\ UNCHANGED <<committed, advisory, session, now, failures, tracked>>

CommitInsert(s) ==
    /\ op[s] = "insert" /\ MetaLocked(s)
    /\ Publish(s)
    /\ IF arg[s].rest = <<>> THEN Finish(s)
       ELSE Start(s, "insert", "running", Chunk(arg[s].rest), [rest |-> AfterChunk(arg[s].rest)])
    /\ UNCHANGED <<request, history, now, failures, tracked>>

-----------------------------------------------------------------------------
(* TimescaleListenStore.delete_listen() and delete_pending_listens() *)

QueueDeletion ==
    /\ "deletePending" \in Ops /\ Len(request) < MaxRequests
    /\ \E l \in Listen :
          /\ request' = Append(request, [user |-> l.user, at |-> l.at, msid |-> l.msid,
                                         status |-> "pending"])
          /\ targets' = Append(targets, {r \in live : SameKey(l, r)})
    /\ UNCHANGED <<live, meta, history, locks, session, now, failures, erased, synced>>

Pending == {i \in DOMAIN request : request[i].status = "pending"}

\* The requests and the listens they name are those of the statement's snapshot; a session
\* that finds the advisory lock taken returns at once.
BeginDeletePending(s) ==
    /\ "deletePending" \in Ops /\ Idle(s) /\ advisory = Null
    /\ advisory' = s
    /\ \E q \in SetToSeqs({r \in live : \E i \in Pending : SameKey(request[i], r)}) :
          Start(s, "deletePending", "running", q, [pending |-> Pending])
    /\ UNCHANGED <<committed, mlock, mnew, now, failures, tracked>>

\* DELETE waits for the transaction that is deleting the row and skips it if that committed.
DeleteRow(s) ==
    /\ op[s] \in {"deletePending", "deleteUser", "deleteAccount"}
    /\ pc[s] = "running" /\ rows[s] # <<>>
    /\ \A t \in Sessions \ {s} : Head(rows[s]) \notin del[t]
    /\ del' = [del EXCEPT ![s] = IF Head(rows[s]) \in live THEN @ \cup {Head(rows[s])} ELSE @]
    /\ rows' = [rows EXCEPT ![s] = Tail(@)]
    /\ UNCHANGED <<committed, locks, op, pc, ins, arg, now, failures, tracked>>

\* Mutation: the count is reduced by the requests, not by the rows they deleted.
ReducedMeta_ByRequests(s, u) ==
    [Stored(u) EXCEPT !.count = @ - Cardinality({i \in arg[s].pending : request[i].user = u})]

\* A negative delta, also for a user without a metadata row.
ReducedMeta(s, u) == [Stored(u) EXCEPT !.count = @ - Cardinality(Of(del[s], u))]

SubtractCount(s) ==
    /\ op[s] = "deletePending" /\ RowsDone(s)
    /\ \E u \in Users : NextToLock(s, u) /\ Free(s, u) /\ WriteMeta(s, u, ReducedMeta(s, u))
    /\ UNCHANGED <<committed, advisory, session, now, failures, tracked>>

\* Mutation: the bounds are read in the snapshot of the deletion.
RefreshBounds_OldSnapshot(s) ==
    /\ op[s] = "deletePending" /\ MetaLocked(s) /\ del[s] # {}
    /\ mnew' = [u \in Users |->
                   IF mlock[u] = s THEN [mnew[u] EXCEPT !.min = Actual(Of(live, u)).min,
                                                        !.max = Actual(Of(live, u)).max]
                   ELSE mnew[u]]
    /\ pc' = [pc EXCEPT ![s] = "ready"]
    /\ UNCHANGED <<committed, advisory, mlock, op, rows, ins, del, arg, now, failures, tracked>>

\* A second statement, with a snapshot taken while the metadata rows are locked.
RefreshBounds(s) ==
    /\ op[s] = "deletePending" /\ MetaLocked(s) /\ del[s] # {}
    /\ mnew' = [u \in Users |->
                   IF mlock[u] = s
                   THEN [mnew[u] EXCEPT !.min = Actual(Of(View(s), u)).min,
                                        !.max = Actual(Of(View(s), u)).max]
                   ELSE mnew[u]]
    /\ pc' = [pc EXCEPT ![s] = "ready"]
    /\ UNCHANGED <<committed, advisory, mlock, op, rows, ins, del, arg, now, failures, tracked>>

\* Mutations: requests queued since the snapshot are resolved too; a status that the table's
\* enum does not have; a request is kept when its listen was not there.
Resolved_AllPending(s) ==
    [i \in DOMAIN request |->
        IF request[i].status # "pending" THEN request[i]
        ELSE [request[i] EXCEPT !.status =
                 IF \E r \in del[s] : SameKey(request[i], r) THEN "complete" ELSE "invalid"]]

Resolved_KeepsMissing(s) ==
    [i \in DOMAIN request |->
        IF i \in arg[s].pending /\ \E r \in del[s] : SameKey(request[i], r)
        THEN [request[i] EXCEPT !.status = "complete"]
        ELSE request[i]]

\* Every request of the snapshot is resolved, whether or not its listen was there to delete.
Resolved(s) ==
    [i \in DOMAIN request |->
        IF i \notin arg[s].pending THEN request[i]
        ELSE [request[i] EXCEPT !.status =
                 IF \E r \in del[s] : SameKey(request[i], r) THEN "complete" ELSE "invalid"]]

CommitDeletePending(s) ==
    /\ op[s] = "deletePending"
    /\ pc[s] = "ready" \/ (MetaLocked(s) /\ del[s] = {})
    /\ Publish(s)
    /\ request' = Resolved(s)
    /\ Finish(s)
    /\ UNCHANGED <<history, now, failures, tracked>>

-----------------------------------------------------------------------------
(* delete_user(), of a history ("deleteUser") or of an account ("deleteAccount") *)

BeginDeleteUser(s) ==
    /\ Idle(s)
    /\ \E o \in Ops \cap {"deleteUser", "deleteAccount"}, u \in Users, cutoff \in 0..now :
          \E q \in SetToSeqs({r \in Of(live, u) : r.created <= cutoff}) :
             Start(s, o, "running", q, [user |-> u, cutoff |-> cutoff])
    /\ UNCHANGED <<committed, locks, now, failures, tracked>>

\* The locking upsert creates a missing metadata row and changes nothing in an existing one.
LockMeta(s) ==
    /\ op[s] \in {"deleteUser", "recalculate"} /\ RowsDone(s)
    /\ \E u \in Users : NextToLock(s, u) /\ Free(s, u) /\ WriteMeta(s, u, Stored(u))
    /\ UNCHANGED <<committed, advisory, session, now, failures, tracked>>

\* Mutation: the recount does not see the transaction's own deletion.
RefreshMeta_OldSnapshot(s) ==
    /\ op[s] \in {"deleteUser", "recalculate"} /\ MetaLocked(s) /\ Locked(s) # {}
    /\ mnew' = [u \in Users |-> IF mlock[u] = s THEN Actual(Of(live, u)) ELSE mnew[u]]
    /\ pc' = [pc EXCEPT ![s] = "ready"]
    /\ UNCHANGED <<committed, advisory, mlock, op, rows, ins, del, arg, now, failures, tracked>>

\* The recount: a second statement, so its snapshot follows the wait for the locks.
RefreshMeta(s) ==
    /\ op[s] \in {"deleteUser", "recalculate"} /\ MetaLocked(s)
    /\ Locked(s) # {}
    /\ mnew' = [u \in Users |-> IF mlock[u] = s THEN Actual(Of(View(s), u)) ELSE mnew[u]]
    /\ pc' = [pc EXCEPT ![s] = "ready"]
    /\ UNCHANGED <<committed, advisory, mlock, op, rows, ins, del, arg, now, failures, tracked>>

\* DELETE finds no row, or waits for the one in its snapshot.
DropMeta(s) ==
    /\ op[s] = "deleteAccount" /\ RowsDone(s)
    /\ \/ meta[arg[s].user] = Null /\ UNCHANGED <<mlock, mnew>>
       \/ /\ meta[arg[s].user] # Null /\ Free(s, arg[s].user)
          /\ WriteMeta(s, arg[s].user, Null)
    /\ pc' = [pc EXCEPT ![s] = "ready"]
    /\ UNCHANGED <<committed, advisory, op, rows, ins, del, arg, now, failures, tracked>>

CommitDeleteUser(s) ==
    /\ op[s] \in {"deleteUser", "deleteAccount"} /\ pc[s] = "ready"
    /\ Publish(s)
    /\ history' = history \cup {[user |-> arg[s].user, max_created |-> arg[s].cutoff]}
    /\ erased' = IF op[s] = "deleteAccount" THEN erased \cup {arg[s].user} ELSE erased
    /\ synced' = (synced \cup {arg[s].user}) \ erased'
    /\ Finish(s)
    /\ UNCHANGED <<request, now, failures, targets>>

-----------------------------------------------------------------------------
(* add_missing_to_listen_user_metadata() *)

BeginAddMissing(s) ==
    /\ "addMissing" \in Ops /\ Idle(s)
    /\ \E U \in SUBSET Users : U # {} /\ Start(s, "addMissing", "running", <<>>, [todo |-> U])
    /\ UNCHANGED <<committed, locks, now, failures, tracked>>

AddMissingRow(s) ==
    /\ op[s] = "addMissing" /\ RowsDone(s)
    /\ \E u \in Users :
          /\ NextToLock(s, u) /\ Free(s, u)
          /\ IF meta[u] = Null THEN WriteMeta(s, u, EmptyMeta) ELSE UNCHANGED <<mlock, mnew>>
          /\ arg' = [arg EXCEPT ![s].todo = @ \ {u}]
    /\ UNCHANGED <<committed, advisory, op, pc, rows, ins, del, now, failures, tracked>>

CommitAddMissing(s) ==
    /\ op[s] = "addMissing" /\ MetaLocked(s)
    /\ Publish(s)
    /\ Finish(s)
    /\ UNCHANGED <<request, history, now, failures, tracked>>

-----------------------------------------------------------------------------
(* recalculate_listen_counts(): one transaction per batch of users *)

\* The lowest RECALCULATE_BATCH_SIZE users of U.
FirstUsers(U) ==
    {u \in U : Cardinality({v \in U : v < u}) < RecalculateBatchSize}

StartBatch(s, U) ==
    Start(s, "recalculate", "compare", <<>>,
          [batch |-> FirstUsers(U), todo |-> U \ FirstUsers(U), stale |-> {}])

BeginRecalculate(s) ==
    /\ "recalculate" \in Ops /\ Idle(s)
    /\ \E U \in SUBSET Users : U # {} /\ StartBatch(s, U)
    /\ UNCHANGED <<committed, locks, now, failures, tracked>>

\* Mutation: a user without a metadata row is not a candidate.
Compare_RowsOnly(s) ==
    /\ op[s] = "recalculate" /\ pc[s] = "compare"
    /\ LET stale == {u \in arg[s].batch : meta[u] # Null /\ meta[u] # Actual(Of(live, u))} IN
          /\ arg' = [arg EXCEPT ![s].stale = stale]
          /\ synced' = (synced \cup (arg[s].batch \ stale)) \ erased
    /\ pc' = [pc EXCEPT ![s] = "running"]
    /\ UNCHANGED <<committed, locks, op, rows, ins, del, now, failures, erased, targets>>

\* One snapshot and no locks: a list of candidates for repair.
Compare(s) ==
    /\ op[s] = "recalculate" /\ pc[s] = "compare"
    /\ LET stale == {u \in arg[s].batch : meta[u] = Null \/ meta[u] # Actual(Of(live, u))} IN
          /\ arg' = [arg EXCEPT ![s].stale = stale]
          /\ synced' = (synced \cup (arg[s].batch \ stale)) \ erased
    /\ pc' = [pc EXCEPT ![s] = "running"]
    /\ UNCHANGED <<committed, locks, op, rows, ins, del, now, failures, erased, targets>>

CommitRecalculate(s) ==
    /\ op[s] = "recalculate"
    /\ pc[s] = "ready" \/ (MetaLocked(s) /\ arg[s].stale = {})
    /\ Publish(s)
    /\ synced' = (synced \cup arg[s].stale) \ erased
    /\ IF arg[s].todo = {} THEN Finish(s) ELSE StartBatch(s, arg[s].todo)
    /\ UNCHANGED <<request, history, now, failures, erased, targets>>

-----------------------------------------------------------------------------
(* Failures: connection.rollback() and raise, or a lost connection *)

Abort(s) ==
    /\ Finish(s)
    /\ ReleaseLocks(s)
    /\ UNCHANGED <<committed, now, tracked>>

Rollback(s) ==
    /\ ~Idle(s) /\ failures < MaxFailures
    /\ failures' = failures + 1
    /\ Abort(s)

DeadlockVictim(s) ==
    /\ \E C \in SUBSET Sessions : s \in C /\ Deadlock(C)
    /\ Abort(s)
    /\ UNCHANGED failures

Step(s) ==
    \/ InsertRow(s) \/ AddCount(s) \/ CommitInsert(s)
    \/ DeleteRow(s) \/ SubtractCount(s) \/ RefreshBounds(s) \/ CommitDeletePending(s)
    \/ LockMeta(s) \/ RefreshMeta(s) \/ DropMeta(s) \/ CommitDeleteUser(s)
    \/ AddMissingRow(s) \/ CommitAddMissing(s)
    \/ Compare(s) \/ CommitRecalculate(s)

Begin(s) ==
    \/ BeginInsert(s) \/ BeginDeletePending(s) \/ BeginDeleteUser(s) \/ BeginAddMissing(s)
    \/ BeginRecalculate(s)

Next ==
    \/ QueueDeletion
    \/ \E s \in Sessions : Begin(s) \/ Step(s) \/ Rollback(s) \/ DeadlockVictim(s)

Spec == Init /\ [][Next]_vars

\* A session that has started a transaction carries on, and the cron container starts
\* delete_listens every hour in some session.
FairSpec ==
    /\ Spec
    /\ \A s \in Sessions : WF_vars(Step(s)) /\ WF_vars(DeadlockVictim(s))
    /\ WF_vars(\E s \in Sessions : BeginDeletePending(s))

-----------------------------------------------------------------------------
(* Properties *)

Requests == [user : Users, at : Times, msid : Msids, status : {"pending", "complete", "invalid"}]

Args(o) ==
    CASE o = "none" -> {Null}
      [] o = "insert" -> [rest : Seq(Row)]
      [] o = "deletePending" -> [pending : SUBSET Nat]
      [] o \in {"deleteUser", "deleteAccount"} -> [user : Users, cutoff : Nat]
      [] o = "addMissing" -> [todo : SUBSET Users]
      [] o = "recalculate" -> [batch : SUBSET Users, todo : SUBSET Users, stale : SUBSET Users]

\* The variables have the types of the tables and of the module's local state.
TypeOK ==
    /\ live \in SUBSET Row
    /\ meta \in [Users -> MetaRow \cup {Null}]
    /\ request \in Seq(Requests)
    /\ history \in SUBSET [user : Users, max_created : Nat]
    /\ advisory \in Sessions \cup {Null}
    /\ mlock \in [Users -> Sessions \cup {Null}]
    /\ mnew \in [Users -> MetaRow \cup {Null}]
    /\ op \in [Sessions -> {"none", "insert", "deletePending", "deleteUser", "deleteAccount",
                            "addMissing", "recalculate"}]
    /\ pc \in [Sessions -> {"idle", "compare", "running", "ready"}]
    /\ rows \in [Sessions -> Seq(Row)]
    /\ ins \in [Sessions -> SUBSET Row]
    /\ del \in [Sessions -> SUBSET Row]
    /\ \A s \in Sessions : arg[s] \in Args(op[s])
    /\ now \in Nat /\ failures \in Nat
    /\ erased \in SUBSET Users /\ synced \in SUBSET Users

\* insert() updates counts atomically with the listens, and deletions and recalculation leave
\* the count of a user equal to the number of committed listens: once right, it stays right
\* through every interleaving, until the account is deleted.
CountsRight == \A u \in synced : Stored(u).count = Cardinality(Of(live, u))

\* The same of the timestamp bounds that reads use to page through a history.
BoundsRight ==
    \A u \in synced :
        /\ Stored(u).min = Lowest({r.at : r \in Of(live, u)})
        /\ Stored(u).max = Highest({r.at : r \in Of(live, u)})

\* A listen that was stored when its deletion was requested is gone once the request is
\* resolved, as complete or as invalid: delete_pending_listens resolves the requests of the
\* snapshot it deleted for, and no others.
ResolvedListensGone ==
    \A i \in DOMAIN request : request[i].status # "pending" => targets[i] \cap live = {}

\* Ingestion inserts all rows of a transaction before it locks any metadata row, so no cycle
\* of waiting transactions contains both an ingestion and a deletion.
NoInsertDeleteDeadlock ==
    \A C \in SUBSET Sessions :
        Deadlock(C) => ~ \E s, t \in C : op[s] = "insert" /\ op[t] # "insert"

\* delete_user() takes its locks in the order of delete_pending_listens(), "which avoids
\* deadlocks between the two".
NoDeletionDeadlock ==
    \A C \in SUBSET Sessions :
        Deadlock(C) => ~ \E s, t \in C : op[s] = "deletePending" /\ op[t] = "deleteUser"

\* delete_user(): "Only listens created after the cutoff remain" when it recounts them.
OnlyAfterCutoffRemain ==
    [][\A s \in Sessions : RefreshMeta(s) /\ op[s] = "deleteUser"
          => \A r \in Of(View(s), arg[s].user) : r.created > arg[s].cutoff]_vars

\* delete_listens runs every hour: a deletion request does not stay pending for ever.
RequestsResolved ==
    \A i \in 1..MaxRequests :
        (i \in DOMAIN request /\ request[i].status = "pending")
            ~> (i \in DOMAIN request /\ request[i].status # "pending")

-----------------------------------------------------------------------------
(* The inductive invariant behind CountsRight: what is known of the locks and of the *)
(* uncommitted rows and metadata of a transaction in progress.                      *)

Deletes == {"deletePending", "deleteUser", "deleteAccount"}

\* Only finitely many rows are stored, inserted or deleted: counts are numbers.
FiniteRows ==
    /\ IsFiniteSet(live)
    /\ \A s \in Sessions : IsFiniteSet(ins[s]) /\ IsFiniteSet(del[s])

\* Uncommitted rows belong to one transaction each: inserted rows are not stored yet and
\* deleted rows still are.
RowsOwned ==
    /\ \A s \in Sessions :
          /\ ins[s] # {} => op[s] = "insert"
          /\ del[s] # {} => op[s] \in Deletes
          /\ ins[s] \cap live = {}
          /\ del[s] \subseteq live
    /\ \A s, t \in Sessions : s # t => ins[s] \cap ins[t] = {} /\ del[s] \cap del[t] = {}

\* A history or account deletion deletes the rows of its own user only.
OwnUserOnly ==
    \A s \in Sessions : op[s] \in {"deleteUser", "deleteAccount"} =>
        /\ \A i \in DOMAIN rows[s] : rows[s][i].user = arg[s].user
        /\ \A r \in del[s] : r.user = arg[s].user

\* A session that makes no call is idle.
IdleCalls == \A s \in Sessions : pc[s] = "idle" <=> op[s] = "none"

\* A metadata row is locked only by a call that is past its row statement and that concerns
\* the user, and the value its holder wrote differs from the committed one by exactly what
\* the commit will publish.
HoldsMeta(s, u) ==
    /\ op[s] # "none" /\ pc[s] # "compare"
    /\ rows[s] = <<>>
    /\ op[s] = "deleteAccount" => u = arg[s].user
    /\ op[s] # "deleteAccount" => mnew[u] # Null
    /\ op[s] = "insert" => mnew[u].count = Stored(u).count + Cardinality(Of(ins[s], u))
    /\ op[s] = "deletePending" => mnew[u].count = Stored(u).count - Cardinality(Of(del[s], u))
    /\ op[s] = "addMissing" => meta[u] = Null /\ mnew[u].count = 0
    /\ op[s] = "recalculate" => u \in arg[s].stale
    /\ op[s] \in {"deleteUser", "recalculate"} /\ pc[s] = "ready" /\ u \notin erased =>
          mnew[u].count = Cardinality(Of(View(s), u))

LockedMeta == \A s \in Sessions, u \in Users : mlock[u] = s => HoldsMeta(s, u)

\* A transaction that is ready to commit holds the metadata rows of all users it concerns.
ReadyLocked ==
    \A s \in Sessions : pc[s] = "ready" =>
        /\ rows[s] = <<>>
        /\ op[s] = "deletePending" => \A r \in del[s] : mlock[r.user] = s
        /\ op[s] = "deleteUser" => mlock[arg[s].user] = s
        /\ op[s] = "recalculate" => \A u \in arg[s].stale : mlock[u] = s

CountsInductive ==
    /\ FiniteRows /\ RowsOwned /\ OwnUserOnly /\ IdleCalls /\ LockedMeta /\ ReadyLocked
    /\ synced \cap erased = {}
    /\ CountsRight
=============================================================================
