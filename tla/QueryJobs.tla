------------------------------- MODULE QueryJobs -------------------------------
(***************************************************************************)
(* The ClickHouse query jobs: a table of jobs, workers that claim a job,   *)
(* run its query and publish the results one by one, and the consumer that *)
(* hands the results to their handlers in the order of the queue.          *)
(*                                                                         *)
(* A statement on the table and its commit are one step.  A claim is told  *)
(* from any other by claimed_at: here the number of the claim.  Which      *)
(* results a query has is a constant: the table of queries is empty so far.*)
(***************************************************************************)
EXTENDS Integers, Sequences, FiniteSets

CONSTANTS
    Workers,
    Results,        \* a sequence: the number of results of each job
    MaxFailures     \* bound: errors, lost connections, signals, crashes, jobs slower than their claim

ASSUME ResultsAssumption == Results \in Seq(Nat)
ASSUME FailuresAssumption == MaxFailures \in Nat

VARIABLES
    added,      \* jobs added so far, which are 1..added
    rows,       \* rows of clickhouse_query_jobs; claim is claimed_at, 0 for NULL, and old once it has expired
    claims,     \* claims so far
    worker,     \* worker[w]: where it is, the job it has claimed, and the result it is to publish next
    queue,      \* results that are not acked, <<job, n>> for the n-th
    consumer,   \* whether it is to handle the first of them or to ack it
    handled,    \* history variable: results that were handled
    dropped,    \* history variable: results that the broker or their handler rejected
    failures    \* failures so far

vars == <<added, rows, claims, worker, queue, consumer, handled, dropped, failures>>
results == <<queue, consumer, handled, dropped>>

Jobs == 1..Len(Results)

Row(state, claim, old) == [state |-> state, claim |-> claim, old |-> old]
At(at, j, claim, next) == [at |-> at, job |-> j, claim |-> claim, next |-> next]

Idle == At("idle", 0, 0, 0)
Down == At("down", 0, 0, 0)

Fault == failures < MaxFailures /\ failures' = failures + 1

-----------------------------------------------------------------------------
(* The table. *)

add_job ==
    /\ added < Len(Results)
    /\ added' = added + 1
    /\ rows' = [rows EXCEPT ![added + 1] = Row("open", 0, FALSE)]
    /\ UNCHANGED <<claims, worker, results, failures>>

\* Mutant: a claim does not expire.
Claimable_Unclaimed(j) == rows[j].state = "open" /\ rows[j].claim = 0

Claimable(j) == rows[j].state = "open" /\ (rows[j].claim = 0 \/ rows[j].old)

\* The oldest job that can be claimed.
claim_job(w) ==
    /\ worker[w].at = "idle"
    /\ \E j \in Jobs :
          /\ Claimable(j)
          /\ \A i \in 1..(j - 1) : ~Claimable(i)
          /\ claims' = claims + 1
          /\ rows' = [rows EXCEPT ![j] = Row("open", claims', FALSE)]
          /\ worker' = [worker EXCEPT ![w] = At("claimed", j, claims', 1)]
    /\ UNCHANGED <<added, results, failures>>

\* The row of w's job becomes row, if w's claim is the last.
Conclude(w, row) ==
    LET j == worker[w].job IN
    rows' = IF rows[j].claim = worker[w].claim THEN [rows EXCEPT ![j] = row] ELSE rows

-----------------------------------------------------------------------------
(* A worker. *)

Holds(w) == worker[w].at \in {"claimed", "run", "failing"}

\* From here on a signal releases the job.
process_job(w) ==
    /\ worker[w].at = "claimed"
    /\ worker' = [worker EXCEPT ![w].at = "run"]
    /\ UNCHANGED <<added, rows, claims, results, failures>>

Unpublished(w) == worker[w].at = "run" /\ worker[w].next <= Results[worker[w].job]
Current(w) == <<worker[w].job, worker[w].next>>

Proceed(w) == worker' = [worker EXCEPT ![w].next = @ + 1]

\* Mutant: a result that could not be published is passed over.
publish_Swallows(w) ==
    /\ Unpublished(w)
    /\ \/ Proceed(w) /\ queue' = Append(queue, Current(w)) /\ UNCHANGED <<dropped, failures>>
       \/ Proceed(w) /\ Fault /\ UNCHANGED <<queue, dropped>>
    /\ UNCHANGED <<added, rows, claims, consumer, handled>>

\* The broker confirms the result; it takes it, but the confirmation is lost, so that it is published
\* again; or it rejects the result, as orjson may, and the worker drops it.
publish(w) ==
    /\ Unpublished(w)
    /\ \/ Proceed(w) /\ queue' = Append(queue, Current(w)) /\ UNCHANGED <<dropped, failures>>
       \/ Fault /\ queue' = Append(queue, Current(w)) /\ UNCHANGED <<worker, dropped>>
       \/ Fault /\ Proceed(w) /\ dropped' = dropped \cup {Current(w)} /\ UNCHANGED queue
    /\ UNCHANGED <<added, rows, claims, consumer, handled>>

\* Mutant: the job is removed as soon as its query has run.
remove_job_First(w) ==
    /\ worker[w].at = "run"
    /\ Conclude(w, Row("removed", 0, FALSE))
    /\ worker' = [worker EXCEPT ![w] = Idle]
    /\ UNCHANGED <<added, claims, results, failures>>

remove_job(w) ==
    /\ worker[w].at = "run" /\ worker[w].next > Results[worker[w].job]
    /\ Conclude(w, Row("removed", 0, FALSE))
    /\ worker' = [worker EXCEPT ![w] = Idle]
    /\ UNCHANGED <<added, claims, results, failures>>

\* The query, a publication that was retried too often, or the removal of the job.
Raises(w) ==
    /\ worker[w].at = "run"
    /\ Fault
    /\ worker' = [worker EXCEPT ![w].at = "failing"]
    /\ UNCHANGED <<added, rows, claims, results>>

\* claimed_at stays.
fail_job(w) ==
    /\ worker[w].at = "failing"
    /\ Conclude(w, [rows[worker[w].job] EXCEPT !.state = "failed"])
    /\ worker' = [worker EXCEPT ![w] = Idle]
    /\ UNCHANGED <<added, claims, results, failures>>

\* Mutant: the claim is released whoever holds it by now, and whatever has become of the job.
release_on_shutdown_Any(w) ==
    /\ worker[w].at # "down"
    /\ Fault
    /\ rows' = IF worker[w].at \in {"run", "failing"}
               THEN [rows EXCEPT ![worker[w].job] = Row("open", 0, FALSE)] ELSE rows
    /\ worker' = [worker EXCEPT ![w] = Down]
    /\ UNCHANGED <<added, claims, results>>

\* SIGTERM.  Between the commit of a claim and process_job the claim stays.
release_on_shutdown(w) ==
    /\ worker[w].at # "down"
    /\ Fault
    /\ IF worker[w].at \in {"run", "failing"}
       THEN Conclude(w, [rows[worker[w].job] EXCEPT !.claim = 0, !.old = FALSE])
       ELSE UNCHANGED rows
    /\ worker' = [worker EXCEPT ![w] = Down]
    /\ UNCHANGED <<added, claims, results>>

\* The end of the process, or an error of the database outside of a job or in fail_job.
Crash(w) ==
    /\ worker[w].at # "down"
    /\ Fault
    /\ worker' = [worker EXCEPT ![w] = Down]
    /\ UNCHANGED <<added, rows, claims, results>>

start(w) ==
    /\ worker[w].at = "down"
    /\ worker' = [worker EXCEPT ![w] = Idle]
    /\ UNCHANGED <<added, rows, claims, results, failures>>

-----------------------------------------------------------------------------
(* Six hours after a claim.  A worker that still works on the job goes on. *)

InHand(j) == \E w \in Workers : Holds(w) /\ worker[w].job = j /\ worker[w].claim = rows[j].claim

ClaimExpires(j) ==
    /\ rows[j].state = "open" /\ rows[j].claim # 0 /\ ~rows[j].old
    /\ rows' = [rows EXCEPT ![j].old = TRUE]
    /\ IF InHand(j) THEN Fault ELSE UNCHANGED failures
    /\ UNCHANGED <<added, claims, worker, results>>

-----------------------------------------------------------------------------
(* The consumer.  A handler that raises is logged, and the result acked.   *)

callback ==
    /\ consumer = "handling" /\ queue # <<>>
    /\ consumer' = "acking"
    /\ \/ handled' = handled \cup {Head(queue)} /\ UNCHANGED <<dropped, failures>>
       \/ Fault /\ dropped' = dropped \cup {Head(queue)} /\ UNCHANGED handled
    /\ UNCHANGED <<added, rows, claims, worker, queue>>

ack ==
    /\ consumer = "acking"
    /\ consumer' = "handling"
    /\ queue' = Tail(queue)
    /\ UNCHANGED <<added, rows, claims, worker, handled, dropped, failures>>

\* The broker delivers what is not acked again, in the same order.
ConsumerRestarts ==
    /\ Fault
    /\ consumer' = "handling"
    /\ UNCHANGED <<added, rows, claims, worker, queue, handled, dropped>>

-----------------------------------------------------------------------------
Init ==
    /\ added = 0
    /\ rows = [j \in Jobs |-> Row("none", 0, FALSE)]
    /\ claims = 0
    /\ worker = [w \in Workers |-> Idle]
    /\ queue = <<>> /\ consumer = "handling"
    /\ handled = {} /\ dropped = {}
    /\ failures = 0

do_run(w) ==
    \/ claim_job(w)
    \/ process_job(w)
    \/ publish(w)
    \/ remove_job(w)
    \/ fail_job(w)

Consume == callback \/ ack

Next ==
    \/ add_job
    \/ \E w \in Workers : do_run(w) \/ Raises(w) \/ release_on_shutdown(w) \/ Crash(w) \/ start(w)
    \/ \E j \in Jobs : ClaimExpires(j)
    \/ Consume
    \/ ConsumerRestarts

Spec == Init /\ [][Next]_vars

\* Workers go on and are restarted, the consumer too, and time passes.
FairSpec ==
    /\ Spec
    /\ \A w \in Workers : WF_vars(do_run(w)) /\ WF_vars(start(w))
    /\ \A j \in Jobs : WF_vars(~InHand(j) /\ ClaimExpires(j))
    /\ WF_vars(Consume)

-----------------------------------------------------------------------------
(* Properties. *)

RowsOK ==
    /\ added \in 0..Len(Results)
    /\ claims \in Nat
    /\ rows \in [Jobs -> [state : {"none", "open", "failed", "removed"}, claim : 0..claims, old : BOOLEAN]]
    /\ \A j \in Jobs : rows[j].state = "none" <=> j > added

WorkersOK ==
    /\ worker \in [Workers -> [at : {"idle", "down", "claimed", "run", "failing"},
                               job : {0} \cup Jobs, claim : 0..claims, next : Nat]]
    /\ \A w \in Workers : Holds(w) => worker[w].job \in 1..added /\ worker[w].claim > 0

ResultIds == Jobs \X Nat

QueueOK ==
    /\ queue \in Seq(ResultIds) /\ consumer \in {"handling", "acking"}
    /\ consumer = "acking" => queue # <<>>
    /\ handled \subseteq ResultIds /\ dropped \subseteq ResultIds
    /\ failures \in 0..MaxFailures

\* Rows, claims and results are what the tables and queues can hold, and workers hold jobs that exist.
TypeOK == RowsOK /\ WorkersOK /\ QueueOK

InQueue == {queue[i] : i \in 1..Len(queue)}
Reached == handled \cup dropped \cup InQueue

\* A job is removed only when all its results have reached the consumer, its queue, or were rejected:
\* whatever crashes, signals, expired claims and other workers do in the meantime.
ResultsNotLost ==
    \A j \in Jobs : rows[j].state = "removed" => \A n \in 1..Results[j] : <<j, n>> \in Reached

\* Results are handled in the order of their job, for those that come for the first time: "stats
\* handlers depend on earlier results".
HandledInOrder ==
    \A r \in handled : \A m \in 1..(r[2] - 1) : <<r[1], m>> \in handled \cup dropped

\* A job that has ended stays as it is, although workers whose claim was taken over may still release
\* it, fail it or remove it: "even an expired or released claim must not resurrect a failed job".
EndedStays ==
    [][\A j \in Jobs : rows[j].state \in {"failed", "removed"} => rows'[j].state = rows[j].state]_vars

Failed(j) == rows[j].state = "failed"
Finished(j) == rows[j].state = "removed" /\ \A n \in 1..Results[j] : <<j, n>> \in handled \cup dropped

\* Every job ends, for good: it fails, and is never tried again, or all its results are handled.
JobsSettle == \A j \in Jobs : added >= j ~> ([]Failed(j) \/ []Finished(j))

=============================================================================
