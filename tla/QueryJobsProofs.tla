---------------------------- MODULE QueryJobsProofs ----------------------------
(***************************************************************************)
(* Proofs about QueryJobs.tla, for any workers, any jobs with any number   *)
(* of results, and any number of failures, and, at the end, about          *)
(* StatsResults.tla, the results of Spark's jobs.                          *)
(***************************************************************************)
EXTENDS QueryJobs, StatsResults, SequenceTheorems, WellFoundedInduction, TLAPS

LEMMA JobsAreNumbers == Len(Results) \in Nat /\ Jobs \in SUBSET (Nat \ {0})
  BY ResultsAssumption DEF Jobs

-----------------------------------------------------------------------------
(* Type correctness, one lemma per part of the state. *)

LEMMA RowsInit == Init => RowsOK
  BY JobsAreNumbers DEF Init, RowsOK, Jobs, Row

\* What a worker may write into the row of a job that exists.
Written == [state : {"open", "failed", "removed"}, claim : 0..claims, old : BOOLEAN]

LEMMA HeldRow ==
  ASSUME RowsOK, NEW j \in 1..added
  PROVE  j \in Jobs /\ rows[j] \in Written
  BY JobsAreNumbers DEF RowsOK, Jobs, Written

\* Only the table's own statements touch it.
LEMMA ConcludeRows ==
  ASSUME RowsOK, NEW w \in Workers, worker[w].job \in 1..added, NEW row \in Written,
         Conclude(w, row)
  PROVE  /\ rows' \in [Jobs -> [state : {"none", "open", "failed", "removed"}, claim : 0..claims, old : BOOLEAN]]
         /\ \A j \in Jobs : rows'[j].state = "none" <=> j > added
  BY JobsAreNumbers, HeldRow DEF RowsOK, Conclude, Written

LEMMA RowsStep == ASSUME RowsOK, WorkersOK, Next PROVE RowsOK'
<1>1. CASE add_job
  BY <1>1, JobsAreNumbers DEF add_job, RowsOK, Row, Jobs
<1>2. ASSUME NEW w \in Workers, do_run(w)
      PROVE  RowsOK'
  <2>1. CASE claim_job(w)
    BY <2>1, JobsAreNumbers DEF claim_job, RowsOK, Row, Claimable, Jobs
  <2>2. CASE process_job(w)
    BY <2>2 DEF process_job, RowsOK
  <2>3. CASE publish(w)
    BY <2>3 DEF publish, RowsOK
  <2>4. CASE remove_job(w)
    <3>1. worker[w].job \in 1..added
      BY <2>4 DEF remove_job, WorkersOK, Holds
    <3>2. Row("removed", 0, FALSE) \in Written
      BY DEF RowsOK, Row, Written
    <3> QED
      BY <2>4, <3>1, <3>2, ConcludeRows DEF remove_job, RowsOK
  <2>5. CASE fail_job(w)
    <3>1. worker[w].job \in 1..added
      BY <2>5 DEF fail_job, WorkersOK, Holds
    <3>2. [rows[worker[w].job] EXCEPT !.state = "failed"] \in Written
      BY <3>1, HeldRow DEF Written
    <3> QED
      BY <2>5, <3>1, <3>2, ConcludeRows DEF fail_job, RowsOK
  <2> QED
    BY <1>2, <2>1, <2>2, <2>3, <2>4, <2>5 DEF do_run
<1>3. ASSUME NEW w \in Workers, Raises(w) \/ Crash(w) \/ start(w)
      PROVE  RowsOK'
  BY <1>3 DEF Raises, Crash, start, RowsOK
<1>4. ASSUME NEW w \in Workers, release_on_shutdown(w)
      PROVE  RowsOK'
  <2>1. CASE worker[w].at \in {"run", "failing"}
    <3>1. worker[w].job \in 1..added
      BY <2>1 DEF WorkersOK, Holds
    <3>2. [rows[worker[w].job] EXCEPT !.claim = 0, !.old = FALSE] \in Written
      <4>1. rows[worker[w].job] \in Written /\ 0 \in 0..claims
        BY <3>1, HeldRow DEF RowsOK
      <4> QED
        BY <4>1 DEF Written
    <3> QED
      BY <1>4, <2>1, <3>1, <3>2, ConcludeRows DEF release_on_shutdown, RowsOK
  <2>2. CASE worker[w].at \notin {"run", "failing"}
    BY <1>4, <2>2 DEF release_on_shutdown, RowsOK
  <2> QED
    BY <2>1, <2>2
<1>5. ASSUME NEW j \in Jobs, ClaimExpires(j)
      PROVE  RowsOK'
  BY <1>5 DEF ClaimExpires, RowsOK
<1>6. CASE Consume \/ ConsumerRestarts
  BY <1>6 DEF Consume, callback, ack, ConsumerRestarts, RowsOK
<1> QED
  BY <1>1, <1>2, <1>3, <1>4, <1>5, <1>6 DEF Next

-----------------------------------------------------------------------------
LEMMA WorkersInit == Init => WorkersOK
  BY DEF Init, WorkersOK, At, Idle, Holds

\* A job that exists still exists after a step, and claims are not taken back.
LEMMA Growth ==
  ASSUME RowsOK, Next
  PROVE  added \in 0..added' /\ claims \in 0..claims' /\ added' \in Nat /\ claims' \in Nat
<1> USE JobsAreNumbers DEF RowsOK
<1>1. CASE add_job
  BY <1>1 DEF add_job
<1>2. ASSUME NEW w \in Workers, do_run(w)
      PROVE  added' = added /\ claims' \in {claims, claims + 1}
  BY <1>2 DEF do_run, claim_job, process_job, publish, remove_job, fail_job
<1>3. ASSUME NEW w \in Workers, Raises(w) \/ release_on_shutdown(w) \/ Crash(w) \/ start(w)
      PROVE  added' = added /\ claims' = claims
  BY <1>3 DEF Raises, release_on_shutdown, Crash, start
<1>4. ASSUME NEW j \in Jobs, ClaimExpires(j)
      PROVE  added' = added /\ claims' = claims
  BY <1>4 DEF ClaimExpires
<1>5. CASE Consume \/ ConsumerRestarts
  BY <1>5 DEF Consume, callback, ack, ConsumerRestarts
<1> QED
  BY <1>1, <1>2, <1>3, <1>4, <1>5 DEF Next

\* The state of one worker.
WorkerOK(v, a, c) ==
    /\ v \in [at : {"idle", "down", "claimed", "run", "failing"},
             job : {0} \cup Jobs, claim : 0..c, next : Nat]
    /\ v.at \in {"claimed", "run", "failing"} => v.job \in 1..a /\ v.claim > 0

\* A step of one worker, or of none, when its new state is one a worker can be in.
LEMMA WorkerMoves ==
  ASSUME WorkersOK, RowsOK, Next, NEW w \in Workers, NEW v, WorkerOK(v, added', claims'),
         worker' = [worker EXCEPT ![w] = v]
  PROVE  WorkersOK'
<1>1. \A u \in Workers : WorkerOK(worker[u], added, claims)
  BY DEF WorkersOK, WorkerOK, Holds
<1>2. \A u \in Workers : WorkerOK(worker[u], added', claims')
  BY <1>1, Growth DEF WorkerOK, RowsOK
<1>3. \A u \in Workers : WorkerOK(worker'[u], added', claims')
  BY <1>2 DEF WorkersOK
<1>4. worker' = [u \in Workers |-> worker'[u]]
  BY DEF WorkersOK
<1> QED
  BY <1>3, <1>4 DEF WorkersOK, WorkerOK, Holds

LEMMA NoWorkerMoves ==
  ASSUME WorkersOK, RowsOK, Next, UNCHANGED worker
  PROVE  WorkersOK'
<1>1. \A u \in Workers : WorkerOK(worker[u], added, claims)
  BY DEF WorkersOK, WorkerOK, Holds
<1>2. \A u \in Workers : WorkerOK(worker[u], added', claims')
  BY <1>1, Growth DEF WorkerOK, RowsOK
<1> QED
  BY <1>2 DEF WorkersOK, WorkerOK, Holds

LEMMA WorkersStep == ASSUME RowsOK, WorkersOK, Next PROVE WorkersOK'
<1>1. ASSUME NEW w \in Workers, claim_job(w)
      PROVE  WorkersOK'
  <2>1. PICK j \in Jobs : /\ Claimable(j) /\ claims' = claims + 1
                          /\ worker' = [worker EXCEPT ![w] = At("claimed", j, claims', 1)]
    BY <1>1 DEF claim_job
  <2>2. j \in 1..added /\ added' = added
    BY <1>1, <2>1, JobsAreNumbers DEF Claimable, RowsOK, claim_job
  <2>3. WorkerOK(At("claimed", j, claims', 1), added', claims')
    BY <2>1, <2>2 DEF WorkerOK, At, RowsOK
  <2> QED
    BY <2>1, <2>3, WorkerMoves
<1>2. ASSUME NEW w \in Workers, NEW at \in {"run", "failing"}, NEW next \in Nat, Holds(w), UNCHANGED <<added, claims>>,
             worker' = [worker EXCEPT ![w].at = at, ![w].next = next]
      PROVE  WorkersOK'
  <2>1. WorkerOK([worker[w] EXCEPT !.at = at, !.next = next], added', claims')
    BY <1>2 DEF WorkerOK, WorkersOK, Holds
  <2>2. worker' = [worker EXCEPT ![w] = [worker[w] EXCEPT !.at = at, !.next = next]]
    BY <1>2 DEF WorkersOK
  <2> QED
    BY <2>1, <2>2, WorkerMoves
<1>3. ASSUME NEW w \in Workers, worker' \in {[worker EXCEPT ![w] = Idle], [worker EXCEPT ![w] = Down]}
      PROVE  WorkersOK'
  <2>1. WorkerOK(Idle, added', claims') /\ WorkerOK(Down, added', claims')
    BY Growth, JobsAreNumbers DEF WorkerOK, Idle, Down, At, RowsOK
  <2> QED
    BY <1>3, <2>1, WorkerMoves
<1>4. ASSUME NEW w \in Workers, do_run(w)
      PROVE  WorkersOK'
  <2>1. CASE process_job(w)
    <3>1. /\ UNCHANGED <<added, claims>> /\ Holds(w) /\ worker[w].next \in Nat
          /\ worker' = [worker EXCEPT ![w].at = "run", ![w].next = worker[w].next]
      BY <2>1 DEF process_job, Holds, WorkersOK
    <3> QED
      BY <3>1, <1>2
  <2>2. CASE publish(w)
    <3>1. CASE UNCHANGED worker
      BY <3>1, NoWorkerMoves
    <3>2. CASE Proceed(w)
      <4>1. WorkerOK([worker[w] EXCEPT !.next = @ + 1], added', claims')
        BY <2>2 DEF publish, Unpublished, WorkerOK, WorkersOK, Holds
      <4>2. worker' = [worker EXCEPT ![w] = [worker[w] EXCEPT !.next = @ + 1]]
        BY <3>2 DEF Proceed, WorkersOK
      <4> QED
        BY <4>1, <4>2, WorkerMoves
    <3> QED
      BY <2>2, <3>1, <3>2 DEF publish
  <2>3. CASE remove_job(w) \/ fail_job(w)
    BY <2>3, <1>3 DEF remove_job, fail_job
  <2> QED
    BY <1>1, <1>4, <2>1, <2>2, <2>3 DEF do_run
<1>5. ASSUME NEW w \in Workers, Raises(w)
      PROVE  WorkersOK'
  <2>1. /\ UNCHANGED <<added, claims>> /\ Holds(w) /\ worker[w].next \in Nat
        /\ worker' = [worker EXCEPT ![w].at = "failing", ![w].next = worker[w].next]
    BY <1>5 DEF Raises, Holds, WorkersOK
  <2> QED
    BY <2>1, <1>2
<1>6. ASSUME NEW w \in Workers, release_on_shutdown(w) \/ Crash(w) \/ start(w)
      PROVE  WorkersOK'
  BY <1>3, <1>6 DEF release_on_shutdown, Crash, start
<1>7. CASE add_job \/ (\E j \in Jobs : ClaimExpires(j)) \/ Consume \/ ConsumerRestarts
  BY <1>7, NoWorkerMoves DEF add_job, ClaimExpires, Consume, callback, ack, ConsumerRestarts
<1> QED
  BY <1>4, <1>5, <1>6, <1>7 DEF Next

-----------------------------------------------------------------------------
LEMMA QueueInit == Init => QueueOK
  BY FailuresAssumption DEF Init, QueueOK

LEMMA QueueStep == ASSUME WorkersOK, QueueOK, Next PROVE QueueOK'
<1> USE FailuresAssumption DEF QueueOK, Fault, results
<1>1. ASSUME NEW w \in Workers, publish(w)
      PROVE  QueueOK'
  <2>1. Current(w) \in ResultIds
    BY <1>1 DEF ResultIds, publish, Unpublished, Current, WorkersOK, Holds, Jobs
  <2> QED
    BY <1>1, <2>1 DEF publish
<1>2. CASE UNCHANGED <<results, failures>>
  BY <1>2
<1>3. CASE UNCHANGED results /\ Fault
  BY <1>3
<1>4. CASE callback
  BY <1>4 DEF callback
<1>5. CASE ack
  BY <1>5 DEF ack
<1>6. CASE ConsumerRestarts
  BY <1>6 DEF ConsumerRestarts
<1>7. ASSUME NEW w \in Workers,
             \/ claim_job(w) \/ process_job(w) \/ remove_job(w) \/ fail_job(w)
             \/ Raises(w) \/ release_on_shutdown(w) \/ Crash(w) \/ start(w)
      PROVE  UNCHANGED results /\ (UNCHANGED failures \/ Fault)
  BY <1>7 DEF claim_job, process_job, remove_job, fail_job, Raises, release_on_shutdown, Crash, start
<1>8. CASE add_job \/ \E j \in Jobs : ClaimExpires(j)
  BY <1>8, <1>2, <1>3 DEF add_job, ClaimExpires
<1> QED
  BY <1>1, <1>2, <1>3, <1>4, <1>5, <1>6, <1>7, <1>8 DEF Next, do_run, Consume

\* Every reachable state is well typed, whatever fails: the tables, the workers and the queue of
\* clickhouse/jobs.py, worker.py and consumer.py.
THEOREM TypeCorrect == Spec => []TypeOK
<1>1. Init => TypeOK
  BY RowsInit, WorkersInit, QueueInit DEF TypeOK
<1>2. TypeOK /\ [Next]_vars => TypeOK'
  <2>1. CASE Next
    BY <2>1, RowsStep, WorkersStep, QueueStep DEF TypeOK
  <2>2. CASE UNCHANGED vars
    BY <2>2 DEF TypeOK, RowsOK, WorkersOK, QueueOK, vars, Holds
  <2> QED
    BY <2>1, <2>2
<1> QED
  BY <1>1, <1>2, PTL DEF Spec

-----------------------------------------------------------------------------
(* Results on their way: what a worker has passed over has reached the     *)
(* queue, what stands in the queue has the earlier results of its job      *)
(* before it, and what is acked has been handled.                          *)

Settled == handled \cup dropped

PublishedInOrder ==
  \A w \in Workers : Holds(w) =>
      \A m \in 1..(worker[w].next - 1) : <<worker[w].job, m>> \in Reached

QueueInOrder ==
  \A i \in 1..Len(queue) : \A m \in 1..(queue[i][2] - 1) :
      <<queue[i][1], m>> \in Settled \cup {queue[k] : k \in 1..(i - 1)}

AckedHandled == consumer = "acking" => queue[1] \in Settled

OnTheWay ==
  /\ TypeOK
  /\ PublishedInOrder
  /\ QueueInOrder
  /\ AckedHandled
  /\ HandledInOrder
  /\ ResultsNotLost

LEMMA OnTheWayInit == Init => OnTheWay
<1>1. Init => TypeOK
  BY RowsInit, WorkersInit, QueueInit DEF TypeOK
<1>2. Init => PublishedInOrder /\ QueueInOrder /\ AckedHandled /\ HandledInOrder /\ ResultsNotLost
  BY DEF Init, PublishedInOrder, QueueInOrder, AckedHandled, HandledInOrder, ResultsNotLost, Idle, At, Row, Holds
<1> QED
  BY <1>1, <1>2 DEF OnTheWay

\* A queue of results, before and after Append and Tail.
LEMMA QueueGrows ==
  ASSUME queue \in Seq(ResultIds), NEW r \in ResultIds, queue' = Append(queue, r)
  PROVE  /\ Len(queue') = Len(queue) + 1
         /\ \A i \in 1..Len(queue) : queue'[i] = queue[i]
         /\ queue'[Len(queue) + 1] = r
  OBVIOUS

LEMMA QueueShrinks ==
  ASSUME queue \in Seq(ResultIds), queue # <<>>, queue' = Tail(queue)
  PROVE  /\ Len(queue') = Len(queue) - 1 /\ Len(queue) \in Nat /\ Len(queue) > 0
         /\ \A i \in 1..Len(queue') : queue'[i] = queue[i + 1]
  OBVIOUS

\* The four things a step can do to results.
LEMMA ResultSteps ==
  ASSUME Next
  PROVE  \/ UNCHANGED <<queue, handled, dropped>> /\ consumer' \in {consumer, "handling"}
         \/ \E w \in Workers : publish(w)
         \/ callback
         \/ ack
<1>1. ASSUME NEW w \in Workers,
             \/ claim_job(w) \/ process_job(w) \/ remove_job(w) \/ fail_job(w)
             \/ Raises(w) \/ release_on_shutdown(w) \/ Crash(w) \/ start(w)
      PROVE  UNCHANGED results
  BY <1>1 DEF claim_job, process_job, remove_job, fail_job, Raises, release_on_shutdown, Crash, start
<1>2. CASE add_job \/ \E j \in Jobs : ClaimExpires(j)
  BY <1>2 DEF add_job, ClaimExpires, results
<1>3. CASE ConsumerRestarts
  BY <1>3 DEF ConsumerRestarts
<1> QED
  BY <1>1, <1>2, <1>3 DEF Next, do_run, Consume, results

\* Where a publication goes.
LEMMA PublishSteps ==
  ASSUME TypeOK, NEW w \in Workers, publish(w)
  PROVE  /\ Current(w) \in ResultIds
         /\ UNCHANGED <<handled, consumer>>
         /\ \/ queue' = Append(queue, Current(w)) /\ dropped' = dropped
            \/ queue' = queue /\ dropped' = dropped \cup {Current(w)}
<1>1. Current(w) \in ResultIds
  BY DEF TypeOK, ResultIds, publish, Unpublished, Current, WorkersOK, Holds, Jobs
<1> QED
  BY <1>1 DEF publish

LEMMA ReachedGrows ==
  ASSUME TypeOK, AckedHandled, Next
  PROVE  Reached \subseteq Reached' /\ Settled \subseteq Settled'
<1> USE DEF Settled, Reached, InQueue
<1>1. CASE UNCHANGED <<queue, handled, dropped>>
  BY <1>1
<1>2. ASSUME NEW w \in Workers, publish(w)
      PROVE  Reached \subseteq Reached' /\ Settled \subseteq Settled'
  BY <1>2, PublishSteps, QueueGrows DEF TypeOK, QueueOK
<1>3. CASE callback
  BY <1>3 DEF callback
<1>4. CASE ack
  <2>1. consumer = "acking" /\ queue # <<>> /\ queue' = Tail(queue) /\ UNCHANGED <<handled, dropped>>
    BY <1>4 DEF ack, TypeOK, QueueOK
  <2>2. ASSUME NEW i \in 1..Len(queue), i # 1
        PROVE  i - 1 \in 1..Len(queue') /\ queue[i] = queue'[i - 1]
    BY <2>1, <2>2, QueueShrinks DEF TypeOK, QueueOK
  <2>3. ASSUME NEW i \in 1..Len(queue)
        PROVE  queue[i] \in InQueue' \cup Settled
    BY <2>1, <2>2 DEF AckedHandled
  <2> QED
    BY <2>1, <2>3
<1> QED
  BY <1>1, <1>2, <1>3, <1>4, ResultSteps

LEMMA PublishedInOrderStep ==
  ASSUME OnTheWay, Next
  PROVE  PublishedInOrder'
<1>1. Reached \subseteq Reached'
  BY ReachedGrows DEF OnTheWay
<1>2. SUFFICES ASSUME NEW u \in Workers, Holds(u)', NEW m \in 1..(worker'[u].next - 1)
               PROVE  <<worker'[u].job, m>> \in Reached'
  BY DEF PublishedInOrder
<1>3. CASE Holds(u) /\ worker'[u].job = worker[u].job /\ worker'[u].next = worker[u].next
  BY <1>1, <1>3 DEF OnTheWay, PublishedInOrder
<1>4. ASSUME NEW w \in Workers, publish(w)
      PROVE  <<worker'[u].job, m>> \in Reached'
  <2>1. CASE UNCHANGED worker
    BY <1>2, <1>3, <2>1 DEF Holds
  <2>2. CASE Proceed(w) /\ u # w
    BY <1>2, <1>3, <2>2 DEF Proceed, Holds, OnTheWay, TypeOK, WorkersOK
  <2>3. CASE Proceed(w) /\ u = w
    <3>1. worker[w].next \in Nat /\ Holds(w)
          /\ worker'[w].job = worker[w].job /\ worker'[w].next = worker[w].next + 1
      BY <1>4, <2>3 DEF Proceed, publish, Unpublished, Holds, OnTheWay, TypeOK, WorkersOK
    <3>2. CASE m \in 1..(worker[w].next - 1)
      BY <1>1, <2>3, <3>1, <3>2 DEF OnTheWay, PublishedInOrder
    <3>3. CASE m = worker[w].next
      <4>1. Current(w) \in Reached'
        <5>1. TypeOK
          BY DEF OnTheWay
        <5>2. CASE dropped' = dropped \cup {Current(w)}
          BY <5>2 DEF Reached
        <5>3. CASE queue' = Append(queue, Current(w))
          <6>1. queue'[Len(queue) + 1] = Current(w) /\ Len(queue') = Len(queue) + 1 /\ Len(queue) \in Nat
            BY <1>4, <5>1, <5>3, PublishSteps, QueueGrows DEF TypeOK, QueueOK
          <6> QED
            BY <6>1 DEF Reached, InQueue
        <5> QED
          BY <1>4, <5>1, <5>2, <5>3, PublishSteps
      <4> QED
        BY <2>3, <3>1, <3>3, <4>1 DEF Current
    <3> QED
      BY <2>3, <3>1, <3>2, <3>3
  <2> QED
    BY <1>4, <2>1, <2>2, <2>3 DEF publish
<1>5. ASSUME NEW w \in Workers, claim_job(w)
      PROVE  <<worker'[u].job, m>> \in Reached'
  <2>1. CASE u # w
    BY <1>2, <1>3, <1>5, <2>1 DEF claim_job, Holds, OnTheWay, TypeOK, WorkersOK
  <2>2. CASE u = w
    <3>1. worker'[w].next = 1
      BY <1>5 DEF claim_job, At, OnTheWay, TypeOK, WorkersOK
    <3> QED
      BY <2>2, <3>1
  <2> QED
    BY <2>1, <2>2
<1>6. ASSUME NEW w \in Workers, process_job(w) \/ Raises(w)
      PROVE  <<worker'[u].job, m>> \in Reached'
  BY <1>2, <1>3, <1>6 DEF process_job, Raises, Holds, OnTheWay, TypeOK, WorkersOK
<1>7. ASSUME NEW w \in Workers, remove_job(w) \/ fail_job(w) \/ release_on_shutdown(w) \/ Crash(w) \/ start(w)
      PROVE  <<worker'[u].job, m>> \in Reached'
  <2>1. worker' \in {[worker EXCEPT ![w] = Idle], [worker EXCEPT ![w] = Down]}
    BY <1>7 DEF remove_job, fail_job, release_on_shutdown, Crash, start
  <2>2. worker \in [Workers -> [at : {"idle", "down", "claimed", "run", "failing"},
                               job : {0} \cup Jobs, claim : 0..claims, next : Nat]]
    BY DEF OnTheWay, TypeOK, WorkersOK
  <2>3. u # w /\ worker'[u] = worker[u]
    BY <1>2, <2>1, <2>2 DEF Idle, Down, At, Holds
  <2> QED
    BY <1>2, <1>3, <2>3 DEF Holds
<1>8. CASE add_job \/ (\E j \in Jobs : ClaimExpires(j)) \/ Consume \/ ConsumerRestarts
  <2>1. UNCHANGED worker
    BY <1>8 DEF add_job, ClaimExpires, Consume, callback, ack, ConsumerRestarts
  <2> QED
    BY <1>2, <1>3, <2>1 DEF Holds
<1> QED
  BY <1>4, <1>5, <1>6, <1>7, <1>8 DEF Next, do_run

LEMMA QueueInOrderStep ==
  ASSUME OnTheWay, Next
  PROVE  QueueInOrder'
<1>1. Settled \subseteq Settled'
  BY ReachedGrows DEF OnTheWay
<1>2. CASE UNCHANGED queue
  BY <1>1, <1>2 DEF OnTheWay, QueueInOrder
<1>3. ASSUME NEW w \in Workers, publish(w), queue' = Append(queue, Current(w))
      PROVE  QueueInOrder'
  <2>1. /\ Len(queue) \in Nat /\ Len(queue') = Len(queue) + 1
        /\ \A i \in 1..Len(queue) : queue'[i] = queue[i]
        /\ queue'[Len(queue) + 1] = Current(w)
    BY <1>3, PublishSteps, QueueGrows DEF OnTheWay, TypeOK, QueueOK
  <2>2. SUFFICES ASSUME NEW i \in 1..Len(queue'), NEW m \in 1..(queue'[i][2] - 1)
                 PROVE  <<queue'[i][1], m>> \in Settled' \cup {queue'[k] : k \in 1..(i - 1)}
    BY DEF QueueInOrder
  <2>3. CASE i \in 1..Len(queue)
    <3>1. <<queue[i][1], m>> \in Settled \cup {queue[k] : k \in 1..(i - 1)}
      BY <2>1, <2>3 DEF OnTheWay, QueueInOrder
    <3>2. \A k \in 1..(i - 1) : queue'[k] = queue[k]
      BY <2>1, <2>3
    <3> QED
      BY <1>1, <2>1, <2>3, <3>1, <3>2
  <2>4. CASE i = Len(queue) + 1
    <3>1. m \in 1..(worker[w].next - 1) /\ queue'[i][1] = worker[w].job /\ Holds(w)
      BY <1>3, <2>1, <2>4 DEF Current, publish, Unpublished, Holds
    <3>2. <<worker[w].job, m>> \in Settled \cup InQueue
      BY <3>1 DEF OnTheWay, PublishedInOrder, Reached, Settled
    <3> QED
      BY <1>1, <2>1, <2>4, <3>1, <3>2 DEF InQueue
  <2> QED
    BY <2>1, <2>3, <2>4
<1>4. CASE ack
  <2>1. /\ consumer = "acking" /\ queue # <<>> /\ queue' = Tail(queue)
        /\ Len(queue') = Len(queue) - 1 /\ Len(queue) \in Nat
        /\ \A i \in 1..Len(queue') : queue'[i] = queue[i + 1]
    BY <1>4, QueueShrinks DEF ack, OnTheWay, TypeOK, QueueOK
  <2>2. SUFFICES ASSUME NEW i \in 1..Len(queue'), NEW m \in 1..(queue'[i][2] - 1)
                 PROVE  <<queue'[i][1], m>> \in Settled' \cup {queue'[k] : k \in 1..(i - 1)}
    BY DEF QueueInOrder
  <2>3. <<queue'[i][1], m>> \in Settled \cup {queue[k] : k \in 1..i}
    <3>1. i + 1 \in 1..Len(queue) /\ queue'[i] = queue[i + 1] /\ (i + 1) - 1 = i
      BY <2>1
    <3>2. <<queue[i + 1][1], m>> \in Settled \cup {queue[k] : k \in 1..((i + 1) - 1)}
      BY <3>1 DEF OnTheWay, QueueInOrder
    <3> QED
      BY <3>1, <3>2
  <2>4. ASSUME NEW k \in 1..i
        PROVE  queue[k] \in Settled \/ (k - 1 \in 1..(i - 1) /\ queue[k] = queue'[k - 1])
    BY <2>1 DEF OnTheWay, AckedHandled
  <2> QED
    BY <1>1, <2>3, <2>4
<1> QED
  <2>1. TypeOK
    BY DEF OnTheWay
  <2> QED
    BY <1>2, <1>3, <1>4, <2>1, ResultSteps, PublishSteps DEF callback

LEMMA SettledStep ==
  ASSUME OnTheWay, Next
  PROVE  AckedHandled' /\ HandledInOrder' /\ ResultsNotLost'
<1>1. Settled \subseteq Settled' /\ Reached \subseteq Reached'
  BY ReachedGrows DEF OnTheWay
<1>2. AckedHandled'
  <2>1. CASE UNCHANGED queue /\ consumer' \in {consumer, "handling"}
    BY <1>1, <2>1 DEF OnTheWay, AckedHandled
  <2>2. ASSUME NEW w \in Workers, publish(w), queue' = Append(queue, Current(w)), consumer' = "acking"
        PROVE  AckedHandled'
    <3>1. queue # <<>> /\ queue'[1] = queue[1] /\ consumer = "acking"
      BY <2>2, PublishSteps, QueueGrows DEF OnTheWay, TypeOK, QueueOK
    <3> QED
      BY <1>1, <3>1 DEF OnTheWay, AckedHandled
  <2>3. CASE callback
    BY <2>3 DEF callback, AckedHandled, Settled
  <2>4. CASE ack
    BY <2>4 DEF ack, AckedHandled
  <2>5. TypeOK
    BY DEF OnTheWay
  <2> QED
    BY <2>1, <2>2, <2>3, <2>4, <2>5, ResultSteps, PublishSteps DEF AckedHandled
<1>3. HandledInOrder'
  <2>1. CASE UNCHANGED handled
    BY <1>1, <2>1 DEF OnTheWay, HandledInOrder, Settled
  <2>2. CASE callback /\ handled' = handled \cup {queue[1]}
    <3>1. 1 \in 1..Len(queue)
      BY <2>2 DEF callback, OnTheWay, TypeOK, QueueOK
    <3>2. \A m \in 1..(queue[1][2] - 1) : <<queue[1][1], m>> \in Settled
      BY <3>1 DEF OnTheWay, QueueInOrder
    <3> QED
      BY <1>1, <2>2, <3>2 DEF OnTheWay, HandledInOrder, Settled
  <2>3. TypeOK
    BY DEF OnTheWay
  <2> QED
    BY <2>1, <2>2, <2>3, ResultSteps, PublishSteps DEF callback, ack
<1>4. ResultsNotLost'
  <2>1. CASE \A j \in Jobs : rows'[j].state = "removed" => rows[j].state = "removed"
    BY <1>1, <2>1 DEF OnTheWay, ResultsNotLost
  <2>2. ASSUME NEW w \in Workers, remove_job(w)
        PROVE  ResultsNotLost'
    <3>1. /\ worker[w].job \in Jobs /\ Results[worker[w].job] \in Nat
          /\ \A n \in 1..Results[worker[w].job] : <<worker[w].job, n>> \in Reached
      BY <2>2, ResultsAssumption DEF remove_job, OnTheWay, TypeOK, RowsOK, WorkersOK, PublishedInOrder, Holds, Jobs
    <3>2. \A j \in Jobs : rows'[j].state = "removed" => rows[j].state = "removed" \/ j = worker[w].job
      BY <2>2 DEF remove_job, Conclude, OnTheWay, TypeOK, RowsOK
    <3> QED
      BY <1>1, <3>1, <3>2 DEF OnTheWay, ResultsNotLost
  <2>3. ASSUME NEW w \in Workers, claim_job(w) \/ fail_job(w) \/ release_on_shutdown(w), NEW j \in Jobs,
               rows'[j].state = "removed"
        PROVE  rows[j].state = "removed"
    <3>1. rows \in [Jobs -> [state : {"none", "open", "failed", "removed"}, claim : 0..claims, old : BOOLEAN]]
      BY DEF OnTheWay, TypeOK, RowsOK
    <3>2. CASE claim_job(w)
      BY <2>3, <3>1, <3>2 DEF claim_job, Row
    <3>3. ASSUME NEW row \in [state : {"open", "failed", "none", "removed"}, claim : 0..claims, old : BOOLEAN],
                 rows[worker[w].job].state # "removed" => row.state # "removed",
                 Conclude(w, row)
          PROVE  rows[j].state = "removed"
      BY <2>3, <3>1, <3>3 DEF Conclude
    <3>4. CASE fail_job(w)
      <4>1. worker[w].job \in Jobs
        BY <3>4, JobsAreNumbers DEF fail_job, Holds, OnTheWay, TypeOK, RowsOK, WorkersOK, Jobs
      <4> QED
        BY <3>1, <3>3, <3>4, <4>1 DEF fail_job
    <3>5. CASE release_on_shutdown(w)
      <4>1. CASE worker[w].at \in {"run", "failing"}
        <5>1. worker[w].job \in Jobs /\ claims \in Nat
          BY <4>1, JobsAreNumbers DEF Holds, OnTheWay, TypeOK, RowsOK, WorkersOK, Jobs
        <5> DEFINE row == [rows[worker[w].job] EXCEPT !.claim = 0, !.old = FALSE]
        <5>2. Conclude(w, row)
          BY <3>5, <4>1 DEF release_on_shutdown
        <5>3. /\ row \in [state : {"open", "failed", "none", "removed"}, claim : 0..claims, old : BOOLEAN]
              /\ row.state = rows[worker[w].job].state
          <6>1. /\ rows[worker[w].job] \in [state : {"none", "open", "failed", "removed"}, claim : 0..claims, old : BOOLEAN]
                /\ 0 \in 0..claims
            BY <3>1, <5>1
          <6> QED
            BY <6>1
        <5> QED
          BY <3>3, <5>2, <5>3
      <4>2. CASE UNCHANGED rows
        BY <2>3, <4>2
      <4> QED
        BY <3>5, <4>1, <4>2 DEF release_on_shutdown
    <3> QED
      BY <2>3, <3>2, <3>4, <3>5
  <2>4. ASSUME NEW j \in Jobs, rows'[j].state = "removed", add_job \/ \E i \in Jobs : ClaimExpires(i)
        PROVE  rows[j].state = "removed"
    <3>1. rows \in [Jobs -> [state : {"none", "open", "failed", "removed"}, claim : 0..claims, old : BOOLEAN]]
      BY DEF OnTheWay, TypeOK, RowsOK
    <3>2. CASE add_job
      BY <2>4, <3>1, <3>2 DEF add_job, Row
    <3>3. ASSUME NEW i \in Jobs, ClaimExpires(i)
          PROVE  rows[j].state = "removed"
      BY <2>4, <3>1, <3>3 DEF ClaimExpires
    <3> QED
      BY <2>4, <3>2, <3>3
  <2>5. ASSUME NEW w \in Workers, process_job(w) \/ publish(w) \/ Raises(w) \/ Crash(w) \/ start(w)
        PROVE  UNCHANGED rows
    BY <2>5 DEF process_job, publish, Raises, Crash, start
  <2>6. CASE Consume \/ ConsumerRestarts
    BY <2>1, <2>6 DEF Consume, callback, ack, ConsumerRestarts
  <2> QED
    BY <2>1, <2>2, <2>3, <2>4, <2>5, <2>6 DEF Next, do_run
<1> QED
  BY <1>2, <1>3, <1>4

LEMMA OnTheWayCorrect == Spec => []OnTheWay
<1>1. OnTheWay /\ [Next]_vars => OnTheWay'
  <2>1. CASE Next
    BY <2>1, RowsStep, WorkersStep, QueueStep, PublishedInOrderStep, QueueInOrderStep, SettledStep
    DEF OnTheWay, TypeOK
  <2>2. CASE UNCHANGED vars
    <3>1. OnTheWay => TypeOK'
      BY <2>2 DEF OnTheWay, TypeOK, RowsOK, WorkersOK, QueueOK, vars, Holds
    <3>2. OnTheWay => PublishedInOrder' /\ ResultsNotLost'
      <4>1. Reached' = Reached
        BY <2>2 DEF vars, Reached, InQueue
      <4> QED
        BY <2>2, <4>1 DEF OnTheWay, vars, Holds, PublishedInOrder, ResultsNotLost
    <3>3. OnTheWay => QueueInOrder' /\ AckedHandled' /\ HandledInOrder'
      <4>1. Settled' = Settled /\ UNCHANGED <<queue, handled, dropped, consumer>>
        BY <2>2 DEF vars, Settled
      <4>2. OnTheWay => QueueInOrder' /\ AckedHandled'
        BY <4>1 DEF OnTheWay, QueueInOrder, AckedHandled
      <4>3. OnTheWay => HandledInOrder'
        BY <4>1 DEF OnTheWay, HandledInOrder
      <4> QED
        BY <4>2, <4>3
    <3> QED
      BY <3>1, <3>2, <3>3 DEF OnTheWay
  <2> QED
    BY <2>1, <2>2
<1> QED
  BY <1>1, OnTheWayInit, PTL DEF Spec

\* do_run removes a job only after its last result has been published or rejected, and the consumer acks
\* a result only after handling it: no result of a removed job is lost, for any number of jobs and workers.
THEOREM ResultsNotLostCorrect == Spec => []ResultsNotLost
  BY OnTheWayCorrect, PTL DEF OnTheWay

\* One queue and one consumer keep the order in which push_to_result_queue publishes, through crashes,
\* repeated publications and redeliveries.
THEOREM HandledInOrderCorrect == Spec => []HandledInOrder
  BY OnTheWayCorrect, PTL DEF OnTheWay

-----------------------------------------------------------------------------
(* Claims: no two workers have the same, and a job whose claim a worker    *)
(* still has is open.                                                      *)

ClaimsDiffer ==
  \A v, w \in Workers : Holds(v) /\ Holds(w) /\ v # w => worker[v].claim # worker[w].claim

ClaimedIsOpen ==
  \A w \in Workers : Holds(w) /\ rows[worker[w].job].claim = worker[w].claim
                        => rows[worker[w].job].state = "open"

Claimed == TypeOK /\ ClaimsDiffer /\ ClaimedIsOpen

\* Rows and workers, the parts of their types that the proof below needs.
LEMMA Shapes ==
  ASSUME TypeOK
  PROVE  /\ claims \in Nat
         /\ rows \in [Jobs -> [state : {"none", "open", "failed", "removed"}, claim : 0..claims, old : BOOLEAN]]
         /\ worker \in [Workers -> [at : {"idle", "down", "claimed", "run", "failing"},
                                    job : {0} \cup Jobs, claim : 0..claims, next : Nat]]
         /\ \A w \in Workers : Holds(w) => worker[w].job \in Jobs /\ worker[w].claim > 0
  BY JobsAreNumbers DEF TypeOK, RowsOK, WorkersOK, Jobs

\* A worker that holds a claim after a step other than claim_job held the same before.
LEMMA HeldBefore ==
  ASSUME TypeOK, Next, NEW v \in Workers, Holds(v)', ~claim_job(v)
  PROVE  Holds(v) /\ worker'[v].job = worker[v].job /\ worker'[v].claim = worker[v].claim
<1>1. worker \in [Workers -> [at : {"idle", "down", "claimed", "run", "failing"},
                             job : {0} \cup Jobs, claim : 0..claims, next : Nat]]
  BY Shapes
<1>2. ASSUME NEW w \in Workers,
             \/ worker' = [worker EXCEPT ![w].at = "run"] /\ Holds(w)
             \/ worker' = [worker EXCEPT ![w].at = "failing"] /\ Holds(w)
             \/ worker' = [worker EXCEPT ![w].next = @ + 1]
             \/ worker' = [worker EXCEPT ![w] = Idle]
             \/ worker' = [worker EXCEPT ![w] = Down]
             \/ UNCHANGED worker
             \/ claim_job(w)
      PROVE  Holds(v) /\ worker'[v].job = worker[v].job /\ worker'[v].claim = worker[v].claim
  <2>1. CASE claim_job(w)
    BY <1>1, <2>1 DEF claim_job, Holds
  <2>2. CASE worker' = [worker EXCEPT ![w] = Idle] \/ worker' = [worker EXCEPT ![w] = Down]
    BY <1>1, <2>2 DEF Holds, Idle, Down, At
  <2>3. CASE \/ worker' = [worker EXCEPT ![w].at = "run"] /\ Holds(w)
             \/ worker' = [worker EXCEPT ![w].at = "failing"] /\ Holds(w)
             \/ worker' = [worker EXCEPT ![w].next = @ + 1]
             \/ UNCHANGED worker
    BY <1>1, <2>3 DEF Holds
  <2> QED
    BY <1>2, <2>1, <2>2, <2>3
<1>3. ASSUME NEW w \in Workers, do_run(w) \/ Raises(w) \/ release_on_shutdown(w) \/ Crash(w) \/ start(w)
      PROVE  Holds(v) /\ worker'[v].job = worker[v].job /\ worker'[v].claim = worker[v].claim
  BY <1>2, <1>3 DEF do_run, process_job, publish, Proceed, remove_job, fail_job, Raises, release_on_shutdown,
                    Crash, start, Holds
<1>4. CASE add_job \/ (\E j \in Jobs : ClaimExpires(j)) \/ Consume \/ ConsumerRestarts
  BY <1>4 DEF add_job, ClaimExpires, Consume, callback, ack, ConsumerRestarts, Holds
<1> QED
  BY <1>3, <1>4 DEF Next

\* What a step does to the row of a job.
LEMMA RowSteps ==
  ASSUME TypeOK, Next, NEW j \in Jobs
  PROVE  \/ rows'[j].state = rows[j].state /\ rows'[j].claim = rows[j].claim
         \/ rows[j].state = "none" /\ rows'[j].claim = 0
         \/ \E w \in Workers : claim_job(w) /\ rows[j].state = "open" /\ rows'[j] = Row("open", claims + 1, FALSE)
                                /\ worker' = [worker EXCEPT ![w] = At("claimed", j, claims + 1, 1)]
         \/ \E w \in Workers : /\ Holds(w) /\ ~Holds(w)' /\ worker[w].job = j /\ rows[j].claim = worker[w].claim
                                /\ rows'[j].claim \in {0, rows[j].claim}
<1> DEFINE Goal == \/ rows'[j].state = rows[j].state /\ rows'[j].claim = rows[j].claim
                   \/ rows[j].state = "none" /\ rows'[j].claim = 0
                   \/ \E w \in Workers : claim_job(w) /\ rows[j].state = "open" /\ rows'[j] = Row("open", claims + 1, FALSE)
                                          /\ worker' = [worker EXCEPT ![w] = At("claimed", j, claims + 1, 1)]
                   \/ \E w \in Workers : /\ Holds(w) /\ ~Holds(w)' /\ worker[w].job = j /\ rows[j].claim = worker[w].claim
                                          /\ rows'[j].claim \in {0, rows[j].claim}
<1>1. /\ rows \in [Jobs -> [state : {"none", "open", "failed", "removed"}, claim : 0..claims, old : BOOLEAN]]
      /\ worker \in [Workers -> [at : {"idle", "down", "claimed", "run", "failing"},
                                 job : {0} \cup Jobs, claim : 0..claims, next : Nat]]
  BY Shapes
<1>2. CASE add_job
  BY <1>1, <1>2, JobsAreNumbers DEF add_job, Row, TypeOK, RowsOK
<1>3. ASSUME NEW w \in Workers, claim_job(w)
      PROVE  Goal
  <2>1. PICK i \in Jobs : /\ Claimable(i) /\ rows' = [rows EXCEPT ![i] = Row("open", claims + 1, FALSE)]
                          /\ worker' = [worker EXCEPT ![w] = At("claimed", i, claims + 1, 1)]
    BY <1>3 DEF claim_job
  <2>2. CASE i = j
    BY <1>1, <1>3, <2>1, <2>2 DEF Claimable
  <2>3. CASE i # j
    BY <1>1, <2>1, <2>3
  <2> QED
    BY <2>2, <2>3
<1>4. ASSUME NEW w \in Workers, NEW row, Conclude(w, row), row.claim \in {0, rows[worker[w].job].claim}, Holds(w),
             worker' = [worker EXCEPT ![w] = Idle] \/ worker' = [worker EXCEPT ![w] = Down]
      PROVE  Goal
  <2>1. ~Holds(w)'
    BY <1>1, <1>4 DEF Idle, Down, At, Holds
  <2>2. CASE UNCHANGED rows
    BY <2>2
  <2>3. CASE rows' = [rows EXCEPT ![worker[w].job] = row] /\ rows[worker[w].job].claim = worker[w].claim
    BY <1>1, <1>4, <2>1, <2>3
  <2> QED
    BY <1>4, <2>2, <2>3 DEF Conclude
<1>5. ASSUME NEW w \in Workers, remove_job(w)
      PROVE  Goal
  <2>1. Row("removed", 0, FALSE).claim = 0
    BY DEF Row
  <2> QED
    BY <1>4, <1>5, <2>1 DEF remove_job, Holds
<1>6. ASSUME NEW w \in Workers, fail_job(w)
      PROVE  Goal
  <2>1. worker[w].job \in Jobs /\ Holds(w)
    BY <1>6, Shapes DEF fail_job, Holds
  <2>2. [rows[worker[w].job] EXCEPT !.state = "failed"].claim = rows[worker[w].job].claim
    BY <1>1, <2>1
  <2> QED
    BY <1>4, <1>6, <2>1, <2>2 DEF fail_job
<1>7. ASSUME NEW w \in Workers, release_on_shutdown(w)
      PROVE  Goal
  <2>1. CASE UNCHANGED rows
    BY <2>1
  <2>2. CASE worker[w].at \in {"run", "failing"}
    <3>1. worker[w].job \in Jobs /\ Holds(w)
      BY <2>2, Shapes DEF Holds
    <3>2. [rows[worker[w].job] EXCEPT !.claim = 0, !.old = FALSE].claim = 0
      BY <1>1, <3>1
    <3> QED
      BY <1>4, <1>7, <2>2, <3>1, <3>2 DEF release_on_shutdown
  <2> QED
    BY <1>7, <2>1, <2>2 DEF release_on_shutdown
<1>8. ASSUME NEW i \in Jobs, ClaimExpires(i)
      PROVE  Goal
  BY <1>1, <1>8 DEF ClaimExpires
<1>9. ASSUME NEW w \in Workers, process_job(w) \/ publish(w) \/ Raises(w) \/ Crash(w) \/ start(w)
      PROVE  Goal
  BY <1>9 DEF process_job, publish, Raises, Crash, start
<1>10. CASE Consume \/ ConsumerRestarts
  BY <1>10 DEF Consume, callback, ack, ConsumerRestarts
<1> QED
  BY <1>2, <1>3, <1>5, <1>6, <1>7, <1>8, <1>9, <1>10 DEF Next, do_run

LEMMA ClaimedStep ==
  ASSUME Claimed, Next
  PROVE  ClaimsDiffer' /\ ClaimedIsOpen'
<1>1. TypeOK /\ claims \in Nat /\ \A w \in Workers : worker[w].claim \in 0..claims
  BY Shapes DEF Claimed
<1>2. ASSUME NEW v \in Workers, claim_job(v)
      PROVE  worker'[v].claim = claims + 1
  BY <1>1, <1>2, Shapes DEF claim_job, At
<1>3. ASSUME NEW v \in Workers, NEW w \in Workers, claim_job(v), claim_job(w)
      PROVE  v = w
  <2>1. worker'[v] # worker[v] /\ worker'[w] # worker[w]
    BY <1>1, <1>2, <1>3
  <2>2. PICK i \in Jobs : worker' = [worker EXCEPT ![w] = At("claimed", i, claims + 1, 1)]
    BY <1>3 DEF claim_job
  <2> QED
    BY <1>1, <2>1, <2>2, Shapes
<1>4. ClaimsDiffer'
  <2>1. SUFFICES ASSUME NEW v \in Workers, NEW w \in Workers, Holds(v)', Holds(w)', v # w
                 PROVE  worker'[v].claim # worker'[w].claim
    BY DEF ClaimsDiffer
  <2>2. CASE ~claim_job(v) /\ ~claim_job(w)
    BY <1>1, <2>1, <2>2, HeldBefore DEF Claimed, ClaimsDiffer
  <2>3. CASE claim_job(v)
    BY <1>1, <1>2, <1>3, <2>1, <2>3, HeldBefore
  <2>4. CASE claim_job(w)
    BY <1>1, <1>2, <1>3, <2>1, <2>4, HeldBefore
  <2> QED
    BY <2>2, <2>3, <2>4
<1>5. ClaimedIsOpen'
  <2>1. SUFFICES ASSUME NEW v \in Workers, Holds(v)', rows'[worker'[v].job].claim = worker'[v].claim
                 PROVE  rows'[worker'[v].job].state = "open"
    BY DEF ClaimedIsOpen
  <2>2. CASE claim_job(v)
    BY <2>2, <1>1, Shapes DEF claim_job, At, Row
  <2>3. CASE ~claim_job(v)
    <3> DEFINE j == worker[v].job
    <3>1. Holds(v) /\ worker'[v].job = j /\ worker'[v].claim = worker[v].claim /\ j \in Jobs
          /\ worker[v].claim > 0 /\ worker[v].claim \in 0..claims
      BY <1>1, <2>1, <2>3, HeldBefore, Shapes
    <3> HIDE DEF j
    <3>2. CASE rows'[j].state = rows[j].state /\ rows'[j].claim = rows[j].claim
      BY <2>1, <3>1, <3>2 DEF Claimed, ClaimedIsOpen, j
    <3>3. CASE rows'[j].claim = 0
      BY <2>1, <3>1, <3>3
    <3>4. ASSUME NEW w \in Workers, rows'[j] = Row("open", claims + 1, FALSE)
          PROVE  rows'[j].state = "open"
      BY <3>4 DEF Row
    <3>5. ASSUME NEW w \in Workers, Holds(w), ~Holds(w)', worker[w].job = j, rows[j].claim = worker[w].claim,
                 rows'[j].claim = rows[j].claim
          PROVE  FALSE
      <4>1. v # w
        BY <2>1, <3>5
      <4>2. worker[v].claim # worker[w].claim
        BY <3>1, <3>5, <4>1 DEF Claimed, ClaimsDiffer
      <4> QED
        BY <2>1, <3>1, <3>5, <4>2
    <3> QED
      BY <1>1, <3>1, <3>2, <3>3, <3>4, <3>5, RowSteps
  <2> QED
    BY <2>2, <2>3
<1> QED
  BY <1>4, <1>5

LEMMA ClaimedCorrect == Spec => []Claimed
<1>1. Init => Claimed
  <2>1. Init => TypeOK
    BY RowsInit, WorkersInit, QueueInit DEF TypeOK
  <2>2. Init => \A w \in Workers : ~Holds(w)
    BY DEF Init, Holds, Idle, At
  <2> QED
    BY <2>1, <2>2 DEF Claimed, ClaimsDiffer, ClaimedIsOpen
<1>2. Claimed /\ [Next]_vars => Claimed'
  <2>1. CASE Next
    BY <2>1, RowsStep, WorkersStep, QueueStep, ClaimedStep DEF Claimed, TypeOK
  <2>2. CASE UNCHANGED vars
    BY <2>2 DEF Claimed, TypeOK, RowsOK, WorkersOK, QueueOK, vars, Holds, ClaimsDiffer, ClaimedIsOpen
  <2> QED
    BY <2>1, <2>2
<1> QED
  BY <1>1, <1>2, PTL DEF Spec

\* A failed or removed job stays so although other workers' claims of it expired: release_job, fail_job
\* and remove_job compare claimed_at, and a claim that is still in the row is one worker's only.
THEOREM EndedStaysCorrect == Spec => EndedStays
<1>1. ASSUME Claimed, [Next]_vars, NEW j \in Jobs, rows[j].state \in {"failed", "removed"}
      PROVE  rows'[j].state = rows[j].state
  <2>1. CASE UNCHANGED vars
    BY <2>1 DEF vars
  <2>2. CASE Next
    <3>1. ASSUME NEW w \in Workers, Holds(w), worker[w].job = j, rows[j].claim = worker[w].claim
          PROVE  FALSE
      BY <1>1, <3>1 DEF Claimed, ClaimedIsOpen
    <3> QED
      BY <1>1, <2>2, <3>1, RowSteps DEF Claimed
  <2> QED
    BY <1>1, <2>1, <2>2
<1>2. Claimed /\ [Next]_vars =>
        [\A j \in Jobs : rows[j].state \in {"failed", "removed"} => rows'[j].state = rows[j].state]_vars
  BY <1>1
<1> QED
  BY <1>2, ClaimedCorrect, PTL DEF Spec, EndedStays

-----------------------------------------------------------------------------
(* StatsResults: what the runs publish, the reader of the results, the     *)
(* databases that it fills and those who read them, for any users, any     *)
(* full runs, any number of runs and of errors.                            *)

\* What a run publishes, and the run that a message is of.
Published ==
    [type : {"start", "end"}, day : Days]
    \cup {m \in [type : {"data"}, day : {0} \cup Days, users : SUBSET Users, run : Days] : m.day \in {0, m.run}}

Stamp(m) == IF m.type = "data" THEN m.run ELSE m.day

\* The messages, those that the run in progress has still to publish included.
Queue == messages \o unpublished

StreamOK ==
    /\ runs \in 0..MaxRuns
    /\ messages \in Seq(Published) /\ unpublished \in Seq(Published)
    /\ \A i \in 1..Len(Queue) : Stamp(Queue[i]) <= runs
    /\ counted \in [Days -> SUBSET Users]
    /\ finished \in Nat /\ delivered \in Nat /\ again \in Nat
    /\ finished <= delivered /\ delivered <= Len(messages) /\ again <= Len(messages)

\* A database is of a run that there was, and so are its documents.
FilledBy(couchdb, n) ==
    \A d \in Days : couchdb[d] # Absent =>
        d <= n /\ \A u \in Users : couchdb[d][u] # None => couchdb[d][u] <= n

Couch == [Days -> {Absent} \cup [Users -> {None} \cup Days]]

CouchOK ==
    /\ databases \in Couch
    /\ FilledBy(databases, runs)
    /\ locked \subseteq list_databases

\* A message is being handled; a database that is to be deleted now was looked at.
SweepOK ==
    /\ handling \in {AtRest, Done} \cup [at : {"sweep"}, left : SUBSET (1..runs), next : 0..runs]
    /\ handling # AtRest => finished < delivered
    /\ handling.at = "sweep" /\ handling.next \in locked => handling.next \in late
    /\ dump \in {AtRest} \cup [at : {"lock", "read"}, day : Days]

Asking ==
    [at : {"ask"}, user : Users, left : SUBSET Days, crossed : BOOLEAN, had : {None} \cup Days, holder : {0} \cup Days]

ReadOK ==
    read \in {AtRest} \cup Asking
             \cup [at : {"answered"}, answer : {None} \cup Days]

StatsTypes == StreamOK /\ CouchOK /\ SweepOK /\ ReadOK

\* Runs follow each other ...
InOrder(stream) == \A i, j \in 1..Len(stream) : i <= j => Stamp(stream[i]) <= Stamp(stream[j])

\* ... what was not handled yet, the first k messages that were, is not older than what the databases have ...
NotOlder(stream, k, couchdb) == \A i \in 1..Len(stream) : k < i => FilledBy(couchdb, Stamp(stream[i]))

\* ... and by the end of a run its database has the documents of the run, but for those that were not stored, or the
\* data are ahead of the end.
Completed(stream, k, couchdb, users, gone) ==
    \A j \in 1..Len(stream) : k < j /\ stream[j].type = "end" =>
        \A u \in users[stream[j].day] :
            \/ <<stream[j].day, u>> \in gone
            \/ couchdb[stream[j].day] # Absent /\ couchdb[stream[j].day][u] # None
            \/ \E i \in 1..Len(stream) :
                  /\ k < i /\ i < j
                  /\ stream[i].type = "data" /\ stream[i].day = stream[j].day /\ u \in stream[i].users

RunsKept(stream, k, couchdb, users, gone) ==
    InOrder(stream) /\ NotOlder(stream, k, couchdb) /\ Completed(stream, k, couchdb, users, gone)

\* Only databases of runs before the one that has ended are swept, and before those whose messages are still to come.
SweptBehind ==
    handling.at = "sweep" =>
        /\ Message.type = "end"
        /\ \A d \in handling.left \cup {handling.next} :
              \A i \in 1..Len(Queue) : HandledOnce < i => d < Stamp(Queue[i])

\* Who reads has the database of the document that there was still to ask, and finds none older in those before it.
ReadKept ==
    read.at = "ask" /\ ~read.crossed /\ read.had # None =>
        /\ read.holder \in read.left
        /\ databases[read.holder] # Absent /\ databases[read.holder][read.user] # None
        /\ \A d \in read.left : read.holder <= d /\ databases[d] # Absent /\ databases[d][read.user] # None =>
              read.had <= databases[d][read.user]

StatsInv ==
    /\ StatsTypes
    /\ RunsKept(Queue, HandledOnce, databases, counted, missed)
    /\ SweptBehind
    /\ ReadKept

-----------------------------------------------------------------------------
(* The messages. *)

\* A message of a run, by its type.
LEMMA ResultFields ==
  ASSUME NEW m \in Published
  PROVE  /\ m.type \in {"start", "data", "end"} /\ Stamp(m) \in Days
         /\ m.type # "data" => m.day \in Days /\ Stamp(m) = m.day
         /\ m.type = "data" => /\ m.users \in SUBSET Users /\ m.run \in Days /\ Stamp(m) = m.run
                               /\ m.day = 0 \/ (m.day \in Days /\ m.day = m.run)
<1>1. CASE m \in [type : {"start", "end"}, day : Days]
  BY <1>1 DEF Stamp
<1>2. CASE m \in [type : {"data"}, day : {0} \cup Days, users : SUBSET Users, run : Days] /\ m.day \in {0, m.run}
  BY <1>2 DEF Stamp
<1> QED
  BY <1>1, <1>2 DEF Published

LEMMA DaysAreNumbers == Days \subseteq Nat \ {0} /\ 0 \notin Days /\ \A d \in Days, e \in Days : d - e \in Int
  BY RunsAssumption DEF Days

\* Publishing leaves the queue as it is, acking takes its first, a run that fails cuts it, and one that starts
\* appends to it.
LEMMA QueuePublished ==
  ASSUME NEW ms \in Seq(Published), NEW us \in Seq(Published), us # <<>>
  PROVE  /\ Append(ms, Head(us)) \o Tail(us) = ms \o us
         /\ Append(ms, Head(us)) \in Seq(Published) /\ Tail(us) \in Seq(Published)
         /\ Len(Append(ms, Head(us))) = Len(ms) + 1
<1>1. /\ Head(us) \in Published /\ Tail(us) \in Seq(Published) /\ Len(Tail(us)) = Len(us) - 1
      /\ \A i \in 1..Len(Tail(us)) : Tail(us)[i] = us[i + 1]
      /\ Len(us) \in Nat \ {0} /\ Head(us) = us[1]
  BY HeadTailProperties, EmptySeq
<1>2. PICK one : one = <<Head(us)>> /\ one \in Seq(Published) /\ Len(one) = 1 /\ one[1] = us[1]
  <2>1. PICK first \in Published : first = Head(us)
    BY <1>1
  <2>2. <<first>> \in Seq(Published) /\ Len(<<first>>) = 1 /\ <<first>>[1] = first
    OBVIOUS
  <2> QED
    BY <1>1, <2>1, <2>2
<1>3. PICK rest : rest = Tail(us)
  OBVIOUS
<1>4. one \o rest = us
  <2>1. /\ one \o rest \in Seq(Published) /\ Len(one \o rest) = Len(one) + Len(rest)
        /\ \A i \in 1..(Len(one) + Len(rest)) : (one \o rest)[i] = IF i <= Len(one) THEN one[i] ELSE rest[i - Len(one)]
    BY <1>1, <1>2, <1>3, ConcatProperties
  <2>2. ASSUME NEW i \in 1..Len(us) PROVE (one \o rest)[i] = us[i]
    <3>1. CASE i = 1
      BY <1>1, <1>2, <1>3, <2>1, <3>1
    <3>2. CASE i # 1
      <4>1. i - 1 \in 1..Len(rest) /\ i - 1 + 1 = i /\ ~(i <= 1)
        BY <1>1, <1>3, <3>2
      <4>2. rest[i - 1] = us[i]
        BY <1>1, <1>3, <4>1
      <4>3. i \in 1..(Len(one) + Len(rest))
        BY <1>1, <1>2, <1>3
      <4> QED
        BY <1>2, <2>1, <4>1, <4>2, <4>3
    <3> QED
      BY <3>1, <3>2
  <2>3. Len(one \o rest) = Len(us)
    BY <1>1, <1>2, <1>3, <2>1
  <2> QED
    BY <2>1, <2>2, <2>3, SeqEqual
<1>5. Append(ms, Head(us)) = ms \o one
  BY <1>1, <1>2, AppendIsConcat
<1>6. (ms \o one) \o rest = ms \o (one \o rest)
  BY <1>1, <1>2, <1>3, ConcatAssociative
<1>7. Append(ms, Head(us)) \in Seq(Published) /\ Len(Append(ms, Head(us))) = Len(ms) + 1
  BY <1>1, AppendProperties
<1> QED
  BY <1>1, <1>3, <1>4, <1>5, <1>6, <1>7

LEMMA QueueAcked ==
  ASSUME NEW ms \in Seq(Published), NEW us \in Seq(Published), ms # <<>>
  PROVE  /\ Tail(ms) \in Seq(Published) /\ Len(Tail(ms)) = Len(ms) - 1
         /\ Tail(ms) \o us \in Seq(Published) /\ Len(Tail(ms) \o us) = Len(ms \o us) - 1
         /\ \A i \in 1..Len(Tail(ms) \o us) : (Tail(ms) \o us)[i] = (ms \o us)[i + 1]
<1>1. PICK rest : /\ rest = Tail(ms) /\ rest \in Seq(Published) /\ Len(rest) = Len(ms) - 1
                  /\ \A i \in 1..Len(rest) : rest[i] = ms[i + 1]
  BY HeadTailProperties
<1>2. Len(ms) \in Nat \ {0} /\ Len(us) \in Nat
  BY LenProperties, EmptySeq
<1>3. /\ rest \o us \in Seq(Published) /\ Len(rest \o us) = Len(rest) + Len(us)
      /\ \A i \in 1..(Len(rest) + Len(us)) : (rest \o us)[i] = IF i <= Len(rest) THEN rest[i] ELSE us[i - Len(rest)]
  BY <1>1, ConcatProperties
<1>4. /\ Len(ms \o us) = Len(ms) + Len(us)
      /\ \A i \in 1..(Len(ms) + Len(us)) : (ms \o us)[i] = IF i <= Len(ms) THEN ms[i] ELSE us[i - Len(ms)]
  BY ConcatProperties
<1>5. ASSUME NEW i \in 1..(Len(rest) + Len(us)) PROVE (rest \o us)[i] = (ms \o us)[i + 1]
  <2>1. i + 1 \in 1..(Len(ms) + Len(us))
    BY <1>1, <1>2
  <2>2. CASE i <= Len(rest)
    <3>1. i \in 1..Len(rest) /\ i + 1 <= Len(ms)
      BY <1>1, <1>2, <2>2
    <3> QED
      BY <1>1, <1>3, <1>4, <2>1, <2>2, <3>1
  <2>3. CASE ~(i <= Len(rest))
    <3>1. ~(i + 1 <= Len(ms)) /\ i - Len(rest) = i + 1 - Len(ms)
      BY <1>1, <1>2, <2>3
    <3> QED
      BY <1>3, <1>4, <2>1, <2>3, <3>1
  <2> QED
    BY <2>2, <2>3
<1>6. Len(rest \o us) = Len(ms \o us) - 1
  BY <1>1, <1>2, <1>3, <1>4
<1> QED
  BY <1>1, <1>3, <1>5, <1>6

\* A queue is there with both of its parts.
LEMMA QueueIs ==
  ASSUME NEW ms \in Seq(Published), NEW us \in Seq(Published)
  PROVE  /\ ms \o us \in Seq(Published) /\ Len(ms \o us) = Len(ms) + Len(us) /\ Len(ms) \in Nat /\ Len(us) \in Nat
         /\ \A i \in 1..Len(ms) : i \in 1..Len(ms \o us) /\ (ms \o us)[i] = ms[i]
         /\ \A i \in 1..Len(ms \o us) : Len(ms) < i => i - Len(ms) \in 1..Len(us) /\ (ms \o us)[i] = us[i - Len(ms)]
         /\ ms \o <<>> = ms
<1>1. /\ ms \o us \in Seq(Published) /\ Len(ms \o us) = Len(ms) + Len(us) /\ Len(ms) \in Nat /\ Len(us) \in Nat
      /\ \A i \in 1..(Len(ms) + Len(us)) : (ms \o us)[i] = IF i <= Len(ms) THEN ms[i] ELSE us[i - Len(ms)]
  BY ConcatProperties, LenProperties
<1>2. \A i \in 1..Len(ms) : i \in 1..(Len(ms) + Len(us)) /\ i <= Len(ms)
  BY <1>1
<1>3. \A i \in 1..(Len(ms) + Len(us)) : Len(ms) < i => i - Len(ms) \in 1..Len(us) /\ ~(i <= Len(ms))
  BY <1>1
<1>4. ms \o <<>> = ms
  BY ConcatEmptySeq
<1> QED
  BY <1>1, <1>2, <1>3, <1>4

-----------------------------------------------------------------------------
(* What holds of the queue keeps holding. *)

LEMMA ShiftedKept ==
  ASSUME NEW q \in Seq(Published), NEW k \in Nat \ {0}, NEW couchdb, NEW users, NEW gone,
         RunsKept(q, k, couchdb, users, gone),
         NEW rest \in Seq(Published), Len(rest) = Len(q) - 1, \A i \in 1..Len(rest) : rest[i] = q[i + 1]
  PROVE  RunsKept(rest, k - 1, couchdb, users, gone)
<1>1. Len(q) \in Nat /\ \A i \in 1..Len(rest) : i + 1 \in 1..Len(q)
  BY LenProperties
<1>2. InOrder(rest)
  <2> SUFFICES ASSUME NEW i \in 1..Len(rest), NEW j \in 1..Len(rest), i <= j PROVE Stamp(rest[i]) <= Stamp(rest[j])
    BY DEF InOrder
  <2>1. i + 1 \in 1..Len(q) /\ j + 1 \in 1..Len(q) /\ i + 1 <= j + 1
    BY <1>1
  <2>2. Stamp(q[i + 1]) <= Stamp(q[j + 1])
    BY <2>1 DEF RunsKept, InOrder
  <2> QED
    BY <2>2
<1>3. NotOlder(rest, k - 1, couchdb)
  <2> SUFFICES ASSUME NEW i \in 1..Len(rest), k - 1 < i PROVE FilledBy(couchdb, Stamp(rest[i]))
    BY DEF NotOlder
  <2>1. i + 1 \in 1..Len(q) /\ k < i + 1
    BY <1>1
  <2> QED
    BY <2>1 DEF RunsKept, NotOlder
<1>4. Completed(rest, k - 1, couchdb, users, gone)
  <2> SUFFICES ASSUME NEW j \in 1..Len(rest), k - 1 < j, rest[j].type = "end", NEW u \in users[rest[j].day]
               PROVE  \/ <<rest[j].day, u>> \in gone
                      \/ couchdb[rest[j].day] # Absent /\ couchdb[rest[j].day][u] # None
                      \/ \E i \in 1..Len(rest) :
                            /\ k - 1 < i /\ i < j
                            /\ rest[i].type = "data" /\ rest[i].day = rest[j].day /\ u \in rest[i].users
    BY DEF Completed
  <2>1. PICK e : e = j + 1 /\ e \in 1..Len(q) /\ k < e /\ q[e] = rest[j]
    BY <1>1
  <2>2. \/ <<q[e].day, u>> \in gone
        \/ couchdb[q[e].day] # Absent /\ couchdb[q[e].day][u] # None
        \/ \E i \in 1..Len(q) :
              k < i /\ i < e /\ q[i].type = "data" /\ q[i].day = q[e].day /\ u \in q[i].users
    BY <2>1 DEF RunsKept, Completed
  <2>3. ASSUME NEW i \in 1..Len(q), k < i, i < e, q[i].type = "data", q[i].day = q[e].day, u \in q[i].users
        PROVE  \E c \in 1..Len(rest) :
                  /\ k - 1 < c /\ c < j
                  /\ rest[c].type = "data" /\ rest[c].day = rest[j].day /\ u \in rest[c].users
    <3>1. PICK c : c = i - 1 /\ c \in 1..Len(rest) /\ k - 1 < c /\ c < j /\ c + 1 = i
      BY <1>1, <2>1, <2>3
    <3>2. rest[c] = q[i]
      BY <3>1
    <3> QED
      BY <2>1, <2>3, <3>1, <3>2
  <2> QED
    BY <2>1, <2>2, <2>3
<1> QED
  BY <1>2, <1>3, <1>4 DEF RunsKept

LEMMA CutKept ==
  ASSUME NEW q \in Seq(Published), NEW k \in Nat, NEW couchdb, NEW users, NEW gone,
         RunsKept(q, k, couchdb, users, gone),
         NEW cut \in Seq(Published), Len(cut) <= Len(q), \A i \in 1..Len(cut) : cut[i] = q[i]
  PROVE  RunsKept(cut, k, couchdb, users, gone)
<1>1. Len(q) \in Nat /\ Len(cut) \in Nat /\ \A i \in 1..Len(cut) : i \in 1..Len(q)
  BY LenProperties
<1>2. InOrder(cut)
  BY <1>1 DEF RunsKept, InOrder
<1>3. NotOlder(cut, k, couchdb)
  BY <1>1 DEF RunsKept, NotOlder
<1>4. Completed(cut, k, couchdb, users, gone)
  <2> SUFFICES ASSUME NEW j \in 1..Len(cut), k < j, cut[j].type = "end", NEW u \in users[cut[j].day]
               PROVE  \/ <<cut[j].day, u>> \in gone
                      \/ couchdb[cut[j].day] # Absent /\ couchdb[cut[j].day][u] # None
                      \/ \E i \in 1..Len(cut) :
                            /\ k < i /\ i < j
                            /\ cut[i].type = "data" /\ cut[i].day = cut[j].day /\ u \in cut[i].users
    BY DEF Completed
  <2>1. j \in 1..Len(q) /\ q[j] = cut[j] /\ \A i \in 1..Len(q) : i < j => i \in 1..Len(cut) /\ cut[i] = q[i]
    BY <1>1
  <2>2. \/ <<q[j].day, u>> \in gone
        \/ couchdb[q[j].day] # Absent /\ couchdb[q[j].day][u] # None
        \/ \E i \in 1..Len(q) : k < i /\ i < j /\ q[i].type = "data" /\ q[i].day = q[j].day /\ u \in q[i].users
    BY <2>1 DEF RunsKept, Completed
  <2> QED
    BY <2>1, <2>2
<1> QED
  BY <1>2, <1>3, <1>4 DEF RunsKept

\* Runs that have appended messages of a later day, which are complete by the end that they have, if any.
LEMMA AddedKept ==
  ASSUME NEW r \in Nat, r + 1 \in Days,
         NEW q \in Seq(Published), NEW k \in Nat, k <= Len(q), NEW couchdb \in Couch, NEW users, NEW gone,
         \A i \in 1..Len(q) : Stamp(q[i]) <= r, FilledBy(couchdb, r),
         RunsKept(q, k, couchdb, users, gone),
         NEW us \in Seq(Published), \A i \in 1..Len(us) : Stamp(us[i]) = r + 1,
         NEW users2, \A d \in Days : d # r + 1 => users2[d] = users[d],
         \A j \in 1..Len(us) : us[j].type = "end" => \A u \in users2[us[j].day] :
            \E i \in 1..Len(us) : i < j /\ us[i].type = "data" /\ us[i].day = us[j].day /\ u \in us[i].users
  PROVE  RunsKept(q \o us, k, couchdb, users2, gone)
<1>1. PICK new, p : new = q \o us /\ p = Len(q)
  OBVIOUS
<1>2. /\ new \in Seq(Published) /\ Len(new) = p + Len(us) /\ p \in Nat /\ Len(us) \in Nat
      /\ \A i \in 1..p : i \in 1..Len(new) /\ new[i] = q[i]
      /\ \A i \in 1..Len(new) : p < i => i - p \in 1..Len(us) /\ new[i] = us[i - p]
  BY <1>1, QueueIs
<1>3. \A i \in 1..Len(new) : /\ Stamp(new[i]) \in Nat
                             /\ i <= p => Stamp(new[i]) <= r
                             /\ p < i => Stamp(new[i]) = r + 1
  <2> SUFFICES ASSUME NEW i \in 1..Len(new)
               PROVE  Stamp(new[i]) \in Nat /\ (i <= p => Stamp(new[i]) <= r) /\ (p < i => Stamp(new[i]) = r + 1)
    OBVIOUS
  <2>1. Stamp(new[i]) \in Nat
    BY <1>2, ElementOfSeq, ResultFields, DaysAreNumbers
  <2>2. i <= p => i \in 1..p
    BY <1>2
  <2> QED
    BY <1>1, <1>2, <2>1, <2>2
<1>4. InOrder(new)
  <2> SUFFICES ASSUME NEW i \in 1..Len(new), NEW j \in 1..Len(new), i <= j PROVE Stamp(new[i]) <= Stamp(new[j])
    BY DEF InOrder
  <2>1. CASE j <= p
    <3>1. i \in 1..p /\ j \in 1..p
      BY <1>2, <2>1
    <3>2. Stamp(q[i]) <= Stamp(q[j])
      BY <1>1, <3>1 DEF RunsKept, InOrder
    <3> QED
      BY <1>2, <3>1, <3>2
  <2>2. CASE ~(j <= p)
    <3>1. PICK a, b : a = Stamp(new[i]) /\ b = Stamp(new[j]) /\ a \in Nat /\ b = r + 1 /\ (a <= r \/ a = r + 1)
      BY <1>2, <1>3, <2>2
    <3> QED
      BY <3>1
  <2> QED
    BY <2>1, <2>2
<1>5. FilledBy(couchdb, r + 1)
  <2>1. \A d \in Days : d \in Nat
    BY DaysAreNumbers
  <2>2. \A d \in Days, u \in Users : couchdb[d] # Absent /\ couchdb[d][u] # None => couchdb[d][u] \in Nat
    BY DaysAreNumbers DEF Couch
  <2> QED
    BY <2>1, <2>2 DEF FilledBy
<1>6. NotOlder(new, k, couchdb)
  <2> SUFFICES ASSUME NEW i \in 1..Len(new), k < i PROVE FilledBy(couchdb, Stamp(new[i]))
    BY DEF NotOlder
  <2>1. CASE i <= p
    <3>1. i \in 1..p
      BY <1>2, <2>1
    <3> QED
      BY <1>1, <1>2, <3>1 DEF RunsKept, NotOlder
  <2>2. CASE ~(i <= p)
    <3>1. Stamp(new[i]) = r + 1
      BY <1>2, <1>3, <2>2
    <3> QED
      BY <1>5, <3>1
  <2> QED
    BY <2>1, <2>2
<1>7. Completed(new, k, couchdb, users2, gone)
  <2> SUFFICES ASSUME NEW j \in 1..Len(new), k < j, new[j].type = "end", NEW u \in users2[new[j].day]
               PROVE  \/ <<new[j].day, u>> \in gone
                      \/ couchdb[new[j].day] # Absent /\ couchdb[new[j].day][u] # None
                      \/ \E i \in 1..Len(new) :
                            /\ k < i /\ i < j
                            /\ new[i].type = "data" /\ new[i].day = new[j].day /\ u \in new[i].users
    BY DEF Completed
  <2>1. new[j] \in Published /\ new[j].day \in Days /\ Stamp(new[j]) = new[j].day
    BY <1>2, ElementOfSeq, ResultFields
  <2>2. CASE j <= p
    <3>1. j \in 1..p /\ new[j] = q[j] /\ \A i \in 1..p : i \in 1..Len(new) /\ new[i] = q[i]
      BY <1>2, <2>2
    <3>2. PICK d \in Days : d = new[j].day /\ d <= r /\ d # r + 1
      <4>1. PICK d \in Days : d = new[j].day /\ d <= r
        BY <1>3, <2>1, <2>2
      <4> QED
        BY <4>1, DaysAreNumbers
    <3>3. u \in users[q[j].day]
      BY <3>1, <3>2
    <3>4. \/ <<q[j].day, u>> \in gone
          \/ couchdb[q[j].day] # Absent /\ couchdb[q[j].day][u] # None
          \/ \E i \in 1..p : k < i /\ i < j /\ q[i].type = "data" /\ q[i].day = q[j].day /\ u \in q[i].users
      <4>1. j \in 1..Len(q) /\ q[j].type = "end" /\ Completed(q, k, couchdb, users, gone)
        BY <1>1, <3>1 DEF RunsKept
      <4> QED
        BY <1>1, <3>3, <4>1 DEF Completed
    <3> QED
      BY <3>1, <3>4
  <2>3. CASE ~(j <= p)
    <3>1. PICK c : c = j - p /\ c \in 1..Len(us) /\ new[j] = us[c] /\ us[c].type = "end"
      BY <1>2, <2>3
    <3>2. PICK i \in 1..Len(us) : i < c /\ us[i].type = "data" /\ us[i].day = us[c].day /\ u \in us[i].users
      BY <3>1
    <3>3. PICK e : e = i + p /\ e \in 1..Len(new) /\ k < e /\ e < j /\ e - p = i /\ p < e
      BY <1>1, <1>2, <3>1, <3>2
    <3>4. new[e] = us[i]
      BY <1>2, <3>3
    <3> QED
      BY <3>1, <3>2, <3>3, <3>4
  <2> QED
    BY <2>2, <2>3
<1> QED
  BY <1>1, <1>4, <1>6, <1>7 DEF RunsKept

\* Nothing is deleted ...
Grown(couchdb, couchdb2) ==
    \A d \in Days : couchdb[d] # Absent =>
        couchdb2[d] # Absent /\ \A u \in Users : couchdb[d][u] # None => couchdb2[d][u] # None

\* ... and nothing newer than a message is stored ...
FilledUpTo(m, couchdb, couchdb2) == \A n \in Nat : Stamp(m) <= n /\ FilledBy(couchdb, n) => FilledBy(couchdb2, n)

\* ... whose data are stored or known to be missed.
Served(m, couchdb, gone) ==
    m.type = "data" /\ m.day # 0 =>
        \A u \in m.users : <<m.day, u>> \in gone \/ (couchdb[m.day] # Absent /\ couchdb[m.day][u] # None)

\* A message is handled, for the first time or again.
LEMMA HandledKept ==
  ASSUME NEW q \in Seq(Published), NEW k \in Nat, NEW j \in 1..Len(q), j <= k + 1,
         NEW k2 \in {k, k + 1}, k2 # k => j = k + 1,
         NEW couchdb \in Couch, NEW couchdb2 \in Couch, NEW users \in [Days -> SUBSET Users],
         NEW gone, NEW gone2, gone \subseteq gone2,
         RunsKept(q, k, couchdb, users, gone),
         Grown(couchdb, couchdb2), FilledUpTo(q[j], couchdb, couchdb2), k2 # k => Served(q[j], couchdb2, gone2)
  PROVE  RunsKept(q, k2, couchdb2, users, gone2)
<1>1. Len(q) \in Nat /\ \A i \in 1..Len(q) : q[i] \in Published /\ Stamp(q[i]) \in Nat
  BY LenProperties, ElementOfSeq, ResultFields, DaysAreNumbers
<1>2. NotOlder(q, k2, couchdb2)
  <2> SUFFICES ASSUME NEW i \in 1..Len(q), k2 < i PROVE FilledBy(couchdb2, Stamp(q[i]))
    BY DEF NotOlder
  <2>1. k < i /\ j <= i
    BY <1>1
  <2>2. FilledBy(couchdb, Stamp(q[i])) /\ Stamp(q[j]) <= Stamp(q[i])
    BY <2>1 DEF RunsKept, NotOlder, InOrder
  <2> QED
    BY <1>1, <2>2 DEF FilledUpTo
<1>3. Completed(q, k2, couchdb2, users, gone2)
  <2> SUFFICES ASSUME NEW e \in 1..Len(q), k2 < e, q[e].type = "end", NEW u \in users[q[e].day]
               PROVE  \/ <<q[e].day, u>> \in gone2
                      \/ couchdb2[q[e].day] # Absent /\ couchdb2[q[e].day][u] # None
                      \/ \E i \in 1..Len(q) :
                            /\ k2 < i /\ i < e
                            /\ q[i].type = "data" /\ q[i].day = q[e].day /\ u \in q[i].users
    BY DEF Completed
  <2>1. k < e
    BY <1>1
  <2>2. PICK d \in Days : d = q[e].day /\ u \in Users /\ d # 0
    <3>1. q[e].day \in Days
      BY <1>1, ResultFields
    <3> QED
      BY <3>1, DaysAreNumbers
  <2>3. \/ <<d, u>> \in gone
        \/ couchdb[d] # Absent /\ couchdb[d][u] # None
        \/ \E i \in 1..Len(q) : k < i /\ i < e /\ q[i].type = "data" /\ q[i].day = d /\ u \in q[i].users
    BY <2>1, <2>2 DEF RunsKept, Completed
  <2>4. CASE couchdb[d] # Absent /\ couchdb[d][u] # None
    BY <2>2, <2>4 DEF Grown
  <2>5. ASSUME NEW i \in 1..Len(q), k < i, i < e, q[i].type = "data", q[i].day = d, u \in q[i].users, ~(k2 < i)
        PROVE  <<d, u>> \in gone2 \/ (couchdb2[d] # Absent /\ couchdb2[d][u] # None)
    <3>1. k2 # k /\ i = k + 1
      BY <1>1, <2>5
    <3>2. i = j
      BY <3>1
    <3>3. Served(q[i], couchdb2, gone2)
      BY <3>1, <3>2
    <3> QED
      BY <2>2, <2>5, <3>3 DEF Served
  <2> QED
    BY <2>2, <2>3, <2>4, <2>5
<1> QED
  BY <1>2, <1>3 DEF RunsKept

\* What is older than the messages to come, they do not need.
LEMMA DeletedKept ==
  ASSUME NEW q \in Seq(Published), NEW k \in Nat, NEW couchdb \in Couch, NEW users, NEW gone,
         RunsKept(q, k, couchdb, users, gone),
         NEW d \in Days, \A i \in 1..Len(q) : k < i => d < Stamp(q[i]),
         NEW couchdb2, couchdb2[d] = Absent, \A e \in Days : e # d => couchdb2[e] = couchdb[e]
  PROVE  RunsKept(q, k, couchdb2, users, gone)
<1>1. NotOlder(q, k, couchdb2)
  BY DEF RunsKept, NotOlder, FilledBy
<1>2. Completed(q, k, couchdb2, users, gone)
  <2> SUFFICES ASSUME NEW j \in 1..Len(q), k < j, q[j].type = "end", NEW u \in users[q[j].day]
               PROVE  \/ <<q[j].day, u>> \in gone
                      \/ couchdb2[q[j].day] # Absent /\ couchdb2[q[j].day][u] # None
                      \/ \E i \in 1..Len(q) :
                            /\ k < i /\ i < j
                            /\ q[i].type = "data" /\ q[i].day = q[j].day /\ u \in q[i].users
    BY DEF Completed
  <2>1. PICK e \in Days : e = q[j].day /\ d < e
    <3>1. q[j].day \in Days /\ Stamp(q[j]) = q[j].day
      BY ElementOfSeq, ResultFields
    <3> QED
      BY <3>1
  <2>2. e # d
    BY <2>1, DaysAreNumbers
  <2> QED
    BY <2>1, <2>2 DEF RunsKept, Completed
<1> QED
  BY <1>1, <1>2 DEF RunsKept

\* A full run starts, has the data of every batch, and ends.
LEMMA FullRunIs ==
  ASSUME NEW d \in Days, NEW batches \in Seq(SUBSET Users), NEW b, b = Len(batches)
  PROVE  /\ b \in Nat /\ DOMAIN batches = 1..b
         /\ full_run(d, batches) \in Seq(Published) /\ Len(full_run(d, batches)) = b + 2
         /\ full_run(d, batches)[1] = [type |-> "start", day |-> d]
         /\ \A i \in 1..b : full_run(d, batches)[i + 1] = [type |-> "data", day |-> d, users |-> batches[i], run |-> d]
         /\ full_run(d, batches)[b + 2] = [type |-> "end", day |-> d]
<1>1. b \in Nat /\ DOMAIN batches = 1..b /\ \A i \in 1..b : batches[i] \in SUBSET Users
  BY LenProperties, ElementOfSeq
<1>2. PICK opening, closing, data :
         /\ opening = <<[type |-> "start", day |-> d]>> /\ closing = <<[type |-> "end", day |-> d]>>
         /\ data = [i \in 1..b |-> [type |-> "data", day |-> d, users |-> batches[i], run |-> d]]
  OBVIOUS
<1>3. opening \in Seq(Published) /\ Len(opening) = 1 /\ opening[1] = [type |-> "start", day |-> d]
  <2>1. [type |-> "start", day |-> d] \in Published
    BY DEF Published
  <2> QED
    BY <1>2, <2>1
<1>4. closing \in Seq(Published) /\ Len(closing) = 1 /\ closing[1] = [type |-> "end", day |-> d]
  <2>1. [type |-> "end", day |-> d] \in Published
    BY DEF Published
  <2> QED
    BY <1>2, <2>1
<1>5. data \in Seq(Published) /\ Len(data) = b
  <2>1. \A i \in 1..b : [type |-> "data", day |-> d, users |-> batches[i], run |-> d] \in Published
    BY <1>1 DEF Published
  <2>2. data \in [1..b -> Published]
    BY <1>2, <2>1
  <2> QED
    BY <1>1, <2>2
<1>6. full_run(d, batches) = (opening \o data) \o closing
  BY <1>1, <1>2 DEF full_run
<1>7. PICK first : first = opening \o data
  OBVIOUS
<1>8. first \in Seq(Published) /\ Len(first) = 1 + b
      /\ \A i \in 1..(1 + b) : first[i] = IF i <= 1 THEN opening[i] ELSE data[i - 1]
  <2>1. /\ opening \o data \in Seq(Published) /\ Len(opening \o data) = Len(opening) + Len(data)
        /\ \A i \in 1..(Len(opening) + Len(data)) :
              (opening \o data)[i] = IF i <= Len(opening) THEN opening[i] ELSE data[i - Len(opening)]
    BY <1>3, <1>5, ConcatProperties
  <2> QED
    BY <1>3, <1>5, <1>7, <2>1
<1>9. PICK all : all = full_run(d, batches)
  OBVIOUS
<1>10. /\ all \in Seq(Published) /\ Len(all) = (1 + b) + 1
       /\ \A i \in 1..((1 + b) + 1) : all[i] = IF i <= 1 + b THEN first[i] ELSE closing[i - (1 + b)]
  <2>1. all = first \o closing
    BY <1>6, <1>7, <1>9
  <2>2. /\ first \o closing \in Seq(Published) /\ Len(first \o closing) = Len(first) + Len(closing)
        /\ \A i \in 1..(Len(first) + Len(closing)) :
              (first \o closing)[i] = IF i <= Len(first) THEN first[i] ELSE closing[i - Len(first)]
    BY <1>4, <1>8, ConcatProperties
  <2> QED
    BY <1>4, <1>8, <2>1, <2>2
<1>11. all[1] = opening[1] /\ all[b + 2] = closing[1]
  BY <1>1, <1>8, <1>10
<1>12. ASSUME NEW i \in 1..b PROVE all[i + 1] = data[i]
  <2>1. i + 1 \in 1..(1 + b) /\ i + 1 \in 1..((1 + b) + 1) /\ i + 1 <= 1 + b /\ ~(i + 1 <= 1) /\ i + 1 - 1 = i
    BY <1>1
  <2> QED
    BY <1>8, <1>10, <2>1
<1>13. Len(all) = b + 2
  BY <1>1, <1>10
<1>14. \A i \in 1..b : all[i + 1] = [type |-> "data", day |-> d, users |-> batches[i], run |-> d]
  BY <1>2, <1>12
<1> QED
  BY <1>1, <1>3, <1>4, <1>9, <1>10, <1>11, <1>13, <1>14

\* All that it publishes is of the run, and it has the data of everyone that it has statistics of before its end.
LEMMA FullRunHas ==
  ASSUME NEW d \in Days, NEW batches \in Seq(SUBSET Users), NEW us, us = full_run(d, batches)
  PROVE  /\ us \in Seq(Published) /\ \A i \in 1..Len(us) : Stamp(us[i]) = d
         /\ \A j \in 1..Len(us) : us[j].type = "end" =>
               /\ us[j].day = d
               /\ \A u \in UNION {batches[i] : i \in DOMAIN batches} :
                     \E i \in 1..Len(us) : i < j /\ us[i].type = "data" /\ us[i].day = us[j].day /\ u \in us[i].users
<1>1. PICK b : b = Len(batches)
  OBVIOUS
<1>2. /\ b \in Nat /\ DOMAIN batches = 1..b
      /\ us \in Seq(Published) /\ Len(us) = b + 2
      /\ us[1] = [type |-> "start", day |-> d]
      /\ \A i \in 1..b : us[i + 1] = [type |-> "data", day |-> d, users |-> batches[i], run |-> d]
      /\ us[b + 2] = [type |-> "end", day |-> d]
  BY <1>1, FullRunIs
<1>3. ASSUME NEW i \in 1..(b + 2)
      PROVE  \/ us[i].type = "start" /\ us[i].day = d
             \/ i = b + 2 /\ us[i].type = "end" /\ us[i].day = d
             \/ us[i].type = "data" /\ us[i].run = d
  <2>1. CASE i = 1
    BY <1>2, <2>1
  <2>2. CASE i = b + 2
    BY <1>2, <2>2
  <2>3. CASE ~(i = 1 \/ i = b + 2)
    <3>1. PICK e \in 1..b : i = e + 1
      <4>1. i - 1 \in 1..b /\ i = (i - 1) + 1
        BY <1>2, <2>3
      <4> QED
        BY <4>1
    <3>2. us[i] = [type |-> "data", day |-> d, users |-> batches[e], run |-> d]
      BY <1>2, <3>1
    <3> QED
      BY <3>2
  <2> QED
    BY <2>1, <2>2, <2>3
<1>4. \A i \in 1..(b + 2) : Stamp(us[i]) = d
  <2> SUFFICES ASSUME NEW i \in 1..(b + 2) PROVE Stamp(us[i]) = d
    OBVIOUS
  <2>1. \/ us[i].type = "start" /\ us[i].day = d
        \/ us[i].type = "end" /\ us[i].day = d
        \/ us[i].type = "data" /\ us[i].run = d
    BY <1>3
  <2> QED
    BY <2>1 DEF Stamp
<1>5. ASSUME NEW j \in 1..(b + 2), us[j].type = "end"
      PROVE  j = b + 2 /\ us[j].day = d
  <2>1. \/ us[j].type = "start" /\ us[j].day = d
        \/ j = b + 2 /\ us[j].type = "end" /\ us[j].day = d
        \/ us[j].type = "data" /\ us[j].run = d
    BY <1>3
  <2> QED
    BY <1>5, <2>1
<1>6. ASSUME NEW j \in 1..(b + 2), us[j].type = "end", NEW u \in UNION {batches[i] : i \in DOMAIN batches}
      PROVE  \E i \in 1..(b + 2) : i < j /\ us[i].type = "data" /\ us[i].day = us[j].day /\ u \in us[i].users
  <2>1. PICK e \in 1..b : u \in batches[e]
    BY <1>2
  <2>2. PICK i : i = e + 1 /\ i \in 1..(b + 2) /\ i < j
    BY <1>2, <1>5, <1>6
  <2>3. us[i] = [type |-> "data", day |-> d, users |-> batches[e], run |-> d]
    BY <1>2, <2>2
  <2> QED
    BY <1>5, <1>6, <2>1, <2>2, <2>3
<1> QED
  BY <1>2, <1>4, <1>5, <1>6

\* What a run begins with.
LEMMA StartedRun ==
  ASSUME StreamOK, StartRun
  PROVE  /\ runs' = runs + 1 /\ runs \in Nat /\ runs' \in Days /\ Queue = messages /\ messages' = messages
         /\ unpublished' \in Seq(Published) /\ \A i \in 1..Len(unpublished') : Stamp(unpublished'[i]) = runs'
         /\ counted' \in [Days -> SUBSET Users] /\ \A d \in Days : d # runs' => counted'[d] = counted[d]
         /\ \A j \in 1..Len(unpublished') : unpublished'[j].type = "end" =>
               \A u \in counted'[unpublished'[j].day] :
                  \E i \in 1..Len(unpublished') :
                     /\ i < j
                     /\ unpublished'[i].type = "data" /\ unpublished'[i].day = unpublished'[j].day
                     /\ u \in unpublished'[i].users
<1>1. PICK d : d = runs' /\ d = runs + 1 /\ runs \in Nat /\ d \in Days
  BY RunsAssumption DEF StartRun, StreamOK, Days
<1>2. PICK us, users : us = unpublished' /\ users = counted'
  OBVIOUS
<1>3. Queue = messages /\ messages' = messages
  BY QueueIs DEF StartRun, StreamOK, Queue, reader
<1>4. ASSUME NEW batches \in FullRuns, us = full_run(d, batches),
             users = [counted EXCEPT ![d] = UNION {batches[i] : i \in DOMAIN batches}]
      PROVE  /\ us \in Seq(Published) /\ \A i \in 1..Len(us) : Stamp(us[i]) = d
             /\ users \in [Days -> SUBSET Users] /\ \A e \in Days : e # d => users[e] = counted[e]
             /\ \A j \in 1..Len(us) : us[j].type = "end" =>
                   \A u \in users[us[j].day] :
                      \E i \in 1..Len(us) : i < j /\ us[i].type = "data" /\ us[i].day = us[j].day /\ u \in us[i].users
  <2>1. batches \in Seq(SUBSET Users)
    BY FullRunsAssumption
  <2>2. PICK everyone \in SUBSET Users : everyone = UNION {batches[i] : i \in DOMAIN batches}
    <3>1. \A i \in DOMAIN batches : batches[i] \in SUBSET Users
      BY <2>1, LenProperties, ElementOfSeq
    <3> QED
      BY <3>1
  <2>3. /\ users \in [Days -> SUBSET Users] /\ \A e \in Days : e # d => users[e] = counted[e]
        /\ users[d] = everyone
    BY <1>1, <1>4, <2>2 DEF StreamOK
  <2>4. /\ us \in Seq(Published) /\ \A i \in 1..Len(us) : Stamp(us[i]) = d
        /\ \A j \in 1..Len(us) : us[j].type = "end" =>
              /\ us[j].day = d
              /\ \A u \in everyone :
                    \E i \in 1..Len(us) : i < j /\ us[i].type = "data" /\ us[i].day = us[j].day /\ u \in us[i].users
    BY <1>1, <1>4, <2>1, <2>2, FullRunHas
  <2> QED
    BY <2>3, <2>4
<1>5. ASSUME NEW batches \in FullRuns, NEW i \in DOMAIN batches, users = counted,
             us = <<[type |-> "data", day |-> 0, users |-> batches[i], run |-> d]>>
      PROVE  /\ us \in Seq(Published) /\ \A j \in 1..Len(us) : Stamp(us[j]) = d /\ us[j].type # "end"
             /\ users \in [Days -> SUBSET Users]
  <2>1. batches[i] \in SUBSET Users
    <3>1. batches \in Seq(SUBSET Users)
      BY FullRunsAssumption
    <3> QED
      BY <3>1, LenProperties, ElementOfSeq
  <2>2. PICK m : m = [type |-> "data", day |-> 0, users |-> batches[i], run |-> d] /\ m \in Published
    <3>1. PICK some \in SUBSET Users : some = batches[i]
      BY <2>1
    <3>2. [type |-> "data", day |-> 0, users |-> some, run |-> d] \in Published
      BY <1>1 DEF Published
    <3> QED
      BY <3>1, <3>2
  <2>3. us = <<m>> /\ Stamp(m) = d /\ m.type # "end"
    BY <1>5, <2>2 DEF Stamp
  <2> QED
    BY <1>5, <2>2, <2>3 DEF StreamOK
<1>6. \/ \E batches \in FullRuns :
            /\ us = full_run(d, batches)
            /\ users = [counted EXCEPT ![d] = UNION {batches[i] : i \in DOMAIN batches}]
      \/ \E batches \in FullRuns : \E i \in DOMAIN batches :
            /\ users = counted
            /\ us = <<[type |-> "data", day |-> 0, users |-> batches[i], run |-> d]>>
  BY <1>1, <1>2 DEF StartRun
<1>7. /\ us \in Seq(Published) /\ \A i \in 1..Len(us) : Stamp(us[i]) = d
      /\ users \in [Days -> SUBSET Users] /\ \A e \in Days : e # d => users[e] = counted[e]
      /\ \A j \in 1..Len(us) : us[j].type = "end" =>
            \A u \in users[us[j].day] :
               \E i \in 1..Len(us) : i < j /\ us[i].type = "data" /\ us[i].day = us[j].day /\ u \in us[i].users
  <2>1. CASE \E batches \in FullRuns :
                /\ us = full_run(d, batches)
                /\ users = [counted EXCEPT ![d] = UNION {batches[i] : i \in DOMAIN batches}]
    BY <1>4, <2>1
  <2>2. CASE \E batches \in FullRuns : \E i \in DOMAIN batches :
                /\ users = counted
                /\ us = <<[type |-> "data", day |-> 0, users |-> batches[i], run |-> d]>>
    BY <1>5, <2>2
  <2> QED
    BY <1>6, <2>1, <2>2
<1> QED
  BY <1>1, <1>2, <1>3, <1>7
-----------------------------------------------------------------------------
(* CouchDB. *)

LEMMA CouchFields ==
  ASSUME NEW couchdb \in Couch
  PROVE  /\ \A d \in Days : couchdb[d] # Absent =>
               couchdb[d] \in [Users -> {None} \cup Days] /\ \A u \in Users : couchdb[d][u] \in {None} \cup Days
         /\ \A f \in [Users -> {None} \cup Days] : f # Absent
<1>1. \A f \in [Users -> {None} \cup Days] : f \in [Users -> {None} \cup Nat]
  BY DaysAreNumbers
<1> QED
  BY <1>1, AbsentAssumption DEF Couch

\* Users that data may be of.
Shares == SUBSET Users

Creation(couchdb, d) == [couchdb EXCEPT ![d] = IF @ = Absent THEN Empty ELSE @]

Insertion(couchdb, d, users, r) ==
    [couchdb EXCEPT ![d] = [u \in Users |-> IF u \in users THEN r ELSE couchdb[d][u]]]

Deletion(couchdb, d) == [couchdb EXCEPT ![d] = Absent]

\* A database that is created has no document.
LEMMA Created ==
  ASSUME NEW couchdb \in Couch, NEW d \in Days, NEW couchdb2, couchdb2 = Creation(couchdb, d)
  PROVE  /\ couchdb2 \in Couch
         /\ \A e \in Days : couchdb2[e] # Absent <=> e = d \/ couchdb[e] # Absent
         /\ \A e \in Days : couchdb[e] # Absent => couchdb2[e] = couchdb[e]
         /\ couchdb[d] = Absent => \A u \in Users : couchdb2[d][u] = None
<1>1. Empty \in [Users -> {None} \cup Days] /\ \A u \in Users : Empty[u] = None
  BY DEF Empty
<1>2. Empty # Absent
  BY <1>1, CouchFields
<1>3. \A e \in Days : couchdb2[e] = IF e = d THEN (IF couchdb[d] = Absent THEN Empty ELSE couchdb[d]) ELSE couchdb[e]
  BY DEF Couch, Creation
<1>4. couchdb2 \in Couch
  BY <1>1 DEF Couch, Creation
<1> QED
  BY <1>1, <1>2, <1>3, <1>4

\* Data are written over the documents of their users.
LEMMA Inserted ==
  ASSUME NEW couchdb \in Couch, NEW d \in Days, couchdb[d] # Absent, NEW users \in Shares, NEW r \in Days,
         NEW couchdb2, couchdb2 = Insertion(couchdb, d, users, r)
  PROVE  /\ couchdb2 \in Couch
         /\ \A e \in Days : couchdb2[e] # Absent <=> couchdb[e] # Absent
         /\ \A e \in Days : e # d => couchdb2[e] = couchdb[e]
         /\ \A u \in users : couchdb2[d][u] = r
         /\ \A u \in Users \ users : couchdb2[d][u] = couchdb[d][u]
<1>1. PICK f : f = [u \in Users |-> IF u \in users THEN r ELSE couchdb[d][u]]
  OBVIOUS
<1>2. f \in [Users -> {None} \cup Days] /\ \A u \in Users : f[u] = IF u \in users THEN r ELSE couchdb[d][u]
  BY <1>1, CouchFields
<1>3. f # Absent
  BY <1>2, CouchFields
<1>4. couchdb2 \in Couch /\ \A e \in Days : couchdb2[e] = IF e = d THEN f ELSE couchdb[e]
  BY <1>1, <1>2 DEF Couch, Insertion
<1> QED
  BY <1>2, <1>3, <1>4 DEF Shares

LEMMA Deleted ==
  ASSUME NEW couchdb \in Couch, NEW d \in Days, NEW couchdb2, couchdb2 = Deletion(couchdb, d)
  PROVE  /\ couchdb2 \in Couch /\ couchdb2[d] = Absent
         /\ \A e \in Days : e # d => couchdb2[e] = couchdb[e]
  BY DEF Couch, Deletion

\* Whatever is in a set of days has a newest.
LEMMA NewestExists ==
  ASSUME NEW S \in SUBSET Days, S # {}
  PROVE  Newest(S) \in S /\ \A e \in S : e <= Newest(S)
<1>1. \A d \in S : MaxRuns - d \in Nat /\ d \in Nat
  BY RunsAssumption DEF Days
<1> DEFINE T == {MaxRuns - d : d \in S}
<1>2. T \subseteq Nat /\ T # {}
  BY <1>1
<1>3. PICK x \in T : \A y \in T : ~(<<y, x>> \in OpToRel(<, Nat))
  <2> HIDE DEF T
  <2> QED
    BY <1>2, NatLessThanWellFounded, WFMin
<1>4. PICK d \in S : x = MaxRuns - d
  BY <1>3
<1>5. ASSUME NEW e \in S PROVE e <= d
  <2>1. MaxRuns - e \in Nat /\ MaxRuns - d \in Nat /\ ~(MaxRuns - e < MaxRuns - d)
    BY <1>1, <1>3, <1>4 DEF OpToRel
  <2> QED
    BY <1>1, <2>1, RunsAssumption
<1> QED
  BY <1>4, <1>5 DEF Newest

LEMMA NewestIs ==
  ASSUME NEW S \in SUBSET Days, NEW d \in S, \A e \in S : e <= d
  PROVE  Newest(S) = d
<1>1. Newest(S) \in S /\ \A e \in S : e <= Newest(S)
  BY NewestExists
<1>2. PICK n : n = Newest(S) /\ n \in Nat /\ d \in Nat /\ d <= n /\ n <= d
  BY <1>1, DaysAreNumbers
<1> QED
  BY <1>2

LEMMA OldestExists ==
  ASSUME NEW S \in SUBSET Days, S # {}
  PROVE  Oldest(S) \in S /\ \A e \in S : Oldest(S) <= e
<1>1. S \subseteq Nat
  BY DaysAreNumbers
<1>2. PICK d \in S : \A e \in S : ~(<<e, d>> \in OpToRel(<, Nat))
  BY <1>1, NatLessThanWellFounded, WFMin
<1>3. ASSUME NEW e \in S PROVE d <= e
  <2>1. ~(e < d) /\ e \in Nat /\ d \in Nat
    BY <1>1, <1>2 DEF OpToRel
  <2> QED
    BY <2>1
<1> QED
  BY <1>3 DEF Oldest

-----------------------------------------------------------------------------

\* Data without a day are for the newest database.
LEMMA TargetIs ==
  ASSUME CouchOK, NEW m \in Published, m.type = "data", Target(m) \in list_databases
  PROVE  /\ Target(m) \in Days /\ databases[Target(m)] # Absent
         /\ m.day # 0 => Target(m) = m.day
         /\ m.day = 0 => \A d \in Days : databases[d] # Absent => d <= Target(m)
<1>1. Target(m) \in Days /\ databases[Target(m)] # Absent
  BY DEF list_databases
<1>2. CASE m.day # 0
  BY <1>1, <1>2 DEF Target
<1>3. CASE m.day = 0
  <2>1. list_databases \in SUBSET Days /\ list_databases # {}
    BY DEF list_databases
  <2>2. Target(m) = Newest(list_databases)
    BY <1>3, <2>1 DEF Target
  <2>3. \A d \in list_databases : d <= Target(m)
    BY <2>1, <2>2, NewestExists
  <2> QED
    BY <1>1, <1>3, <2>3 DEF list_databases
<1> QED
  BY <1>2, <1>3

LEMMA FilledLater ==
  ASSUME NEW couchdb \in Couch, NEW m \in Nat, NEW n \in Nat, m <= n, FilledBy(couchdb, m)
  PROVE  FilledBy(couchdb, n)
<1> SUFFICES ASSUME NEW d \in Days, couchdb[d] # Absent
             PROVE  d <= n /\ \A u \in Users : couchdb[d][u] # None => couchdb[d][u] <= n
  BY DEF FilledBy
<1>1. d \in Nat /\ d <= m
  BY DaysAreNumbers DEF FilledBy
<1>2. ASSUME NEW u \in Users, couchdb[d][u] # None
      PROVE  couchdb[d][u] <= n
  <2>1. couchdb[d][u] \in Nat
    BY <1>2, DaysAreNumbers DEF Couch
  <2>2. couchdb[d][u] <= m
    BY <1>2 DEF FilledBy
  <2> QED
    BY <2>1, <2>2
<1> QED
  BY <1>1, <1>2

\* What is created or filled by a message is not newer than the message.
LEMMA CreatedFilled ==
  ASSUME NEW couchdb \in Couch, NEW d \in Days, NEW n \in Nat, d <= n, FilledBy(couchdb, n),
         NEW couchdb2, couchdb2 = Creation(couchdb, d)
  PROVE  FilledBy(couchdb2, n)
<1>1. /\ \A e \in Days : couchdb2[e] # Absent <=> e = d \/ couchdb[e] # Absent
      /\ \A e \in Days : couchdb[e] # Absent => couchdb2[e] = couchdb[e]
      /\ couchdb[d] = Absent => \A u \in Users : couchdb2[d][u] = None
  BY Created
<1> QED
  BY <1>1 DEF FilledBy

LEMMA InsertedFilled ==
  ASSUME NEW couchdb \in Couch, NEW d \in Days, couchdb[d] # Absent, NEW users \in Shares, NEW r \in Days,
         NEW n \in Nat, r <= n, FilledBy(couchdb, n), NEW couchdb2, couchdb2 = Insertion(couchdb, d, users, r)
  PROVE  FilledBy(couchdb2, n)
<1>1. /\ \A e \in Days : couchdb2[e] # Absent <=> couchdb[e] # Absent
      /\ \A e \in Days : e # d => couchdb2[e] = couchdb[e]
      /\ \A u \in users : couchdb2[d][u] = r
      /\ \A u \in Users \ users : couchdb2[d][u] = couchdb[d][u]
  BY Inserted
<1>2. ASSUME NEW e \in Days, couchdb2[e] # Absent
      PROVE  e <= n /\ \A u \in Users : couchdb2[e][u] # None => couchdb2[e][u] <= n
  <2>1. CASE e = d
    BY <1>1, <1>2, <2>1 DEF FilledBy, Shares
  <2>2. CASE e # d
    BY <1>1, <1>2, <2>2 DEF FilledBy
  <2> QED
    BY <2>1, <2>2
<1> QED
  BY <1>2 DEF FilledBy
-----------------------------------------------------------------------------
(* What the steps do. *)

\* The message to be handled next.
LEMMA NextMessage ==
  ASSUME StreamOK, finished < delivered
  PROVE  /\ Message \in Published /\ Stamp(Message) <= runs /\ finished < Len(messages)
         /\ finished + 1 \in 1..Len(Queue) /\ Queue[finished + 1] = Message /\ Queue \in Seq(Published)
<1>1. PICK ms, us : ms = messages /\ us = unpublished /\ ms \in Seq(Published) /\ us \in Seq(Published)
  BY DEF StreamOK
<1>2. /\ ms \o us \in Seq(Published)
      /\ \A i \in 1..Len(ms) : i \in 1..Len(ms \o us) /\ (ms \o us)[i] = ms[i]
      /\ Len(ms) \in Nat
  BY <1>1, QueueIs
<1>3. PICK n : n = finished + 1 /\ n \in 1..Len(ms) /\ finished < Len(ms)
  BY <1>1, <1>2 DEF StreamOK
<1>4. n \in 1..Len(Queue) /\ Queue[n] = ms[n] /\ Queue \in Seq(Published) /\ Message = ms[n]
  BY <1>1, <1>2, <1>3 DEF Queue, Message
<1>5. Message \in Published /\ Stamp(Message) <= runs
  BY <1>1, <1>3, <1>4, ElementOfSeq DEF StreamOK
<1> QED
  BY <1>1, <1>3, <1>4, <1>5

\* How many messages were handled.
LEMMA HandledIs ==
  ASSUME StatsTypes
  PROVE  /\ HandledOnce \in Nat /\ HandledOnce <= Len(messages) /\ finished <= HandledOnce
         /\ handling.at # "done" => HandledOnce = (IF Repeated THEN again ELSE finished)
         /\ handling.at = "done" => handling # AtRest
<1>1. /\ Len(messages) \in Nat /\ finished \in Nat /\ again \in Nat /\ finished <= Len(messages) /\ again <= Len(messages)
      /\ handling # AtRest => finished + 1 <= Len(messages)
  BY LenProperties DEF StatsTypes, StreamOK, SweepOK
<1>2. handling.at = "done" => handling # AtRest
  BY DEF AtRest
<1> QED
  BY <1>1, <1>2 DEF HandledOnce, Repeated

\* A handler is done: the message counts as handled, unless it was before.
LEMMA HandlerDone ==
  ASSUME StatsTypes, handling.at # "done", handling'.at = "done", UNCHANGED <<finished, again>>
  PROVE  HandledOnce' = IF Repeated THEN HandledOnce ELSE HandledOnce + 1
<1>1. finished \in Nat /\ again \in Nat
  BY DEF StatsTypes, StreamOK
<1>2. /\ HandledOnce = IF finished < again THEN again ELSE finished
      /\ HandledOnce' = IF finished + 1 < again THEN again ELSE finished + 1
  BY DEF HandledOnce
<1> QED
  BY <1>1, <1>2 DEF Repeated

LEMMA HandlingIs ==
  ASSUME StatsTypes
  PROVE  /\ handling.at \in {"idle", "done", "sweep"}
         /\ handling.at = "idle" <=> handling = AtRest
         /\ handling.at = "sweep" => /\ handling.left \in SUBSET Days /\ handling.next \in {0} \cup Days
                                     /\ handling.left \in SUBSET (1..runs) /\ handling.next \in 0..runs
                                     /\ handling # AtRest /\ finished < delivered
         /\ handling.at = "done" => finished < delivered
<1>1. handling \in {AtRest, Done} \cup [at : {"sweep"}, left : SUBSET (1..runs), next : 0..runs]
  BY DEF StatsTypes, SweepOK
<1>2. 1..runs \subseteq Days /\ 0..runs \subseteq {0} \cup Days
  BY RunsAssumption DEF StatsTypes, StreamOK, Days
<1>3. handling # AtRest => finished < delivered
  BY DEF StatsTypes, SweepOK
<1>4. CASE handling \in {AtRest, Done}
  BY <1>3, <1>4 DEF AtRest, Done
<1>5. CASE handling \in [at : {"sweep"}, left : SUBSET (1..runs), next : 0..runs]
  BY <1>2, <1>3, <1>5 DEF AtRest
<1> QED
  BY <1>1, <1>4, <1>5


\* The steps that touch a database: it is created, filled or deleted.
LEMMA DatabaseEffect ==
  ASSUME StatsTypes, StatsNext
  PROVE  \/ UNCHANGED databases
         \/ HasMessage("start") /\ databases' = Creation(databases, Message.day)
         \/ /\ HasMessage("data") /\ Target(Message) \in list_databases
            /\ \E some \in SUBSET Message.users :
                  databases' = Insertion(databases, Target(Message), some, Message.run)
         \/ /\ handling.at = "sweep" /\ handling.next # 0
            /\ databases' = Deletion(databases, handling.next) /\ locked' = locked \ {handling.next}
<1>1. CASE Cluster \/ SparkReader_callback \/ on_iteration \/ Faults \/ Read \/ Dump
  BY <1>1 DEF Cluster, StartRun, Publish, RunFails, SparkReader_callback, on_iteration, Faults, ThreadDies, RunRaises,
              Restart, Redelivered, Read, fetch_data, get_document, nothing_found, Dump, dump_database, lock_database,
              unlock_database, DumpKilled, couch
<1>2. CASE CouchDbDataset_handle_start
  BY <1>2 DEF CouchDbDataset_handle_start, Creation
<1>3. CASE StatsDataset_handle_insert
  <2>1. PICK some \in SUBSET Message.users :
           /\ some # {} => Stored(Message)
           /\ databases' = IF some = {} THEN databases
                           ELSE [databases EXCEPT ![Target(Message)] =
                                    [u \in Users |-> IF u \in some THEN Message.run ELSE @[u]]]
    BY <1>3 DEF StatsDataset_handle_insert
  <2>2. CASE some = {}
    BY <2>1, <2>2
  <2>3. CASE some # {}
    <3>1. Target(Message) \in list_databases
      BY <2>1, <2>3 DEF Stored
    <3>2. databases' = Insertion(databases, Target(Message), some, Message.run)
      BY <2>1, <2>3, <3>1 DEF Insertion, StatsTypes, CouchOK, Couch, list_databases
    <3> QED
      BY <1>3, <3>1, <3>2 DEF StatsDataset_handle_insert
  <2> QED
    BY <2>2, <2>3
<1>4. CASE CouchDbDataset_handle_end \/ check_database_lock \/ SweepEnds \/ process_message
  BY <1>4 DEF CouchDbDataset_handle_end, check_database_lock, SweepEnds, process_message, couch
<1>5. CASE delete_database
  BY <1>5 DEF delete_database, Deletion
<1> QED
  BY <1>1, <1>2, <1>3, <1>4, <1>5 DEF StatsNext, Reader, Handle

LEMMA CreationFills ==
  ASSUME StatsTypes, finished < delivered, Message.type = "start", databases' = Creation(databases, Message.day)
  PROVE  /\ databases' \in Couch /\ FilledUpTo(Message, databases, databases') /\ Grown(databases, databases')
         /\ Message.day \in Days
<1>1. PICK m, d, db, db2 : /\ m = Message /\ d = m.day /\ db = databases /\ db2 = databases'
                           /\ m \in Published /\ d \in Days /\ Stamp(m) = d /\ db \in Couch /\ db2 = Creation(db, d)
  BY NextMessage, ResultFields DEF StatsTypes, CouchOK
<1>2. /\ db2 \in Couch
      /\ \A e \in Days : db2[e] # Absent <=> e = d \/ db[e] # Absent
      /\ \A e \in Days : db[e] # Absent => db2[e] = db[e]
  BY <1>1, Created
<1>3. FilledUpTo(m, db, db2)
  <2> SUFFICES ASSUME NEW n \in Nat, Stamp(m) <= n, FilledBy(db, n) PROVE FilledBy(db2, n)
    BY DEF FilledUpTo
  <2> QED
    BY <1>1, CreatedFilled
<1>4. Grown(db, db2)
  BY <1>2 DEF Grown
<1> QED
  BY <1>1, <1>2, <1>3, <1>4

LEMMA InsertionFills ==
  ASSUME StatsTypes, finished < delivered, Message.type = "data", Target(Message) \in list_databases,
         NEW some \in SUBSET Message.users, databases' = Insertion(databases, Target(Message), some, Message.run)
  PROVE  /\ databases' \in Couch /\ FilledUpTo(Message, databases, databases') /\ Grown(databases, databases')
         /\ Message.day # 0 => \A u \in some : databases'[Message.day] # Absent /\ databases'[Message.day][u] # None
<1>1. PICK m, d, db, db2 : m = Message /\ d = Target(Message) /\ db = databases /\ db2 = databases'
  OBVIOUS
<1>2. m \in Published /\ m.users \in SUBSET Users /\ m.run \in Days /\ Stamp(m) = m.run /\ m.run # None
  <2>1. m \in Published
    BY <1>1, NextMessage DEF StatsTypes
  <2>2. m.users \in SUBSET Users /\ m.run \in Days /\ Stamp(m) = m.run
    BY <1>1, <2>1, ResultFields
  <2> QED
    BY <2>1, <2>2, NoneAssumption, DaysAreNumbers
<1>3. db \in Couch /\ d \in Days /\ db[d] # Absent /\ (m.day # 0 => d = m.day)
  BY <1>1, <1>2, TargetIs DEF StatsTypes, CouchOK
<1>4. PICK r : r = m.run /\ r \in Days /\ r # None
  BY <1>2
<1>5. some \in Shares /\ db2 = Insertion(db, d, some, r)
  BY <1>1, <1>2, <1>4 DEF Shares
<1>6. /\ db2 \in Couch
      /\ \A e \in Days : db2[e] # Absent <=> db[e] # Absent
      /\ \A e \in Days : e # d => db2[e] = db[e]
      /\ \A u \in some : db2[d][u] = r
      /\ \A u \in Users \ some : db2[d][u] = db[d][u]
  BY <1>3, <1>4, <1>5, Inserted
<1>7. FilledUpTo(m, db, db2)
  <2> SUFFICES ASSUME NEW n \in Nat, Stamp(m) <= n, FilledBy(db, n) PROVE FilledBy(db2, n)
    BY DEF FilledUpTo
  <2>1. r <= n
    BY <1>2, <1>4
  <2> QED
    BY <1>3, <1>4, <1>5, <2>1, InsertedFilled
<1>8. ASSUME NEW e \in Days, db[e] # Absent
      PROVE  db2[e] # Absent /\ \A u \in Users : db[e][u] # None => db2[e][u] # None
  <2>1. CASE e = d
    BY <1>4, <1>6, <1>8, <2>1
  <2>2. CASE e # d
    BY <1>6, <1>8, <2>2
  <2> QED
    BY <2>1, <2>2
<1>9. Grown(db, db2)
  BY <1>8 DEF Grown
<1>10. m.day # 0 => \A u \in some : db2[m.day] # Absent /\ db2[m.day][u] # None
  BY <1>3, <1>4, <1>6
<1> QED
  BY <1>1, <1>6, <1>7, <1>9, <1>10

-----------------------------------------------------------------------------
(* Type correctness of the statistics. *)

LEMMA StatsStart == StatsInit => StatsInv
<1> SUFFICES ASSUME StatsInit PROVE StatsInv
  OBVIOUS
<1>1. /\ messages = <<>> /\ unpublished = <<>> /\ runs = 0 /\ finished = 0 /\ delivered = 0 /\ again = 0
      /\ counted = [d \in Days |-> {}]
  BY DEF StatsInit
<1>2. Queue = <<>> /\ <<>> \in Seq(Published) /\ Len(<<>>) = 0
  BY <1>1, EmptySeq, ConcatEmptySeq DEF Queue
<1>3. StreamOK
  <2>1. \A i \in 1..0 : FALSE
    OBVIOUS
  <2>2. Len(messages) = 0 /\ Len(Queue) = 0 /\ messages \in Seq(Published) /\ unpublished \in Seq(Published)
    BY <1>1, <1>2
  <2>3. runs \in 0..MaxRuns
    BY <1>1, RunsAssumption
  <2>4. counted \in [Days -> SUBSET Users]
    BY <1>1
  <2> QED
    BY <1>1, <2>1, <2>2, <2>3, <2>4 DEF StreamOK
<1>4. CouchOK
  BY DEF StatsInit, CouchOK, FilledBy, Couch, list_databases
<1>5. SweepOK /\ ReadOK
  BY DEF StatsInit, SweepOK, ReadOK, AtRest
<1>6. RunsKept(Queue, HandledOnce, databases, counted, missed)
  <2>1. \A i \in 1..Len(Queue) : FALSE
    BY <1>2
  <2> QED
    BY <2>1 DEF RunsKept, InOrder, NotOlder, Completed
<1>7. SweptBehind /\ ReadKept
  BY DEF StatsInit, SweptBehind, ReadKept, AtRest
<1> QED
  BY <1>3, <1>4, <1>5, <1>6, <1>7 DEF StatsInv, StatsTypes

\* What is published, the messages that the reader takes, and how many it has handled, with the steps that change none.
Others ==
    \/ SparkReader_callback \/ Handle \/ Faults \/ Read \/ Dump

LEMMA OtherSteps ==
  ASSUME StatsTypes, Others
  PROVE  /\ UNCHANGED <<runs, counted, unpublished, messages>>
         /\ \/ /\ UNCHANGED <<finished, again>> /\ delivered' \in {delivered, delivered + 1}
               /\ delivered' <= Len(messages)
               /\ handling.at = "done" => UNCHANGED handling
            \/ /\ handling.at = "done" /\ handling' = AtRest /\ finished' = finished + 1
               /\ UNCHANGED <<again, delivered>>
            \/ /\ again' = HandledOnce /\ handling' = AtRest
               /\ \/ handling.at = "done" /\ UNCHANGED <<finished, delivered>>
                  \/ finished' = 0 /\ delivered' = 0
<1>1. /\ Len(messages) \in Nat /\ finished \in Nat /\ delivered \in Nat /\ again \in Nat
      /\ finished <= delivered /\ delivered <= Len(messages)
  BY LenProperties DEF StatsTypes, StreamOK
<1>2. CASE SparkReader_callback
  BY <1>1, <1>2 DEF SparkReader_callback, cluster, faults
<1>3. CASE CouchDbDataset_handle_start \/ StatsDataset_handle_insert \/ CouchDbDataset_handle_end
  BY <1>1, <1>3 DEF CouchDbDataset_handle_start, StatsDataset_handle_insert, CouchDbDataset_handle_end, cluster,
                    HasMessage, AtRest
<1>4. CASE check_database_lock \/ delete_database \/ SweepEnds
  BY <1>1, <1>4 DEF check_database_lock, delete_database, SweepEnds, cluster, faults
<1>5. CASE process_message
  BY <1>5 DEF process_message, cluster, faults
<1>6. CASE Faults
  BY <1>6 DEF Faults, ThreadDies, RunRaises, Restart, Redelivered, cluster
<1>7. CASE Read
  BY <1>1, <1>7 DEF Read, fetch_data, get_document, nothing_found, cluster, reader, faults
<1>8. CASE Dump
  BY <1>1, <1>8 DEF Dump, dump_database, lock_database, unlock_database, DumpKilled, cluster, reader, faults
<1> QED
  BY <1>2, <1>3, <1>4, <1>5, <1>6, <1>7, <1>8 DEF Others, Handle

\* Publishing and a run that fails.
LEMMA PublishedStep ==
  ASSUME StreamOK, Publish
  PROVE  /\ Queue' = Queue /\ messages' \in Seq(Published) /\ unpublished' \in Seq(Published)
         /\ Len(messages') = Len(messages) + 1
         /\ UNCHANGED <<runs, counted, finished, delivered, again, handling, databases, missed>>
<1>1. PICK ms, us : /\ ms = messages /\ us = unpublished /\ ms \in Seq(Published) /\ us \in Seq(Published) /\ us # <<>>
                    /\ messages' = Append(ms, Head(us)) /\ unpublished' = Tail(us)
  BY DEF StreamOK, Publish
<1>2. /\ Append(ms, Head(us)) \o Tail(us) = ms \o us
      /\ Append(ms, Head(us)) \in Seq(Published) /\ Tail(us) \in Seq(Published)
      /\ Len(Append(ms, Head(us))) = Len(ms) + 1
  BY <1>1, QueuePublished
<1>3. Queue' = Queue
  BY <1>1, <1>2 DEF Queue
<1> QED
  BY <1>1, <1>2, <1>3 DEF Publish, couch, faults

LEMMA FailedStep ==
  ASSUME StreamOK, RunFails
  PROVE  /\ Queue' = messages /\ messages \in Seq(Published) /\ unpublished' = <<>> /\ UNCHANGED messages
         /\ Queue \in Seq(Published)
         /\ Len(messages) \in Nat /\ Len(messages) <= Len(Queue)
         /\ \A i \in 1..Len(messages) : i \in 1..Len(Queue) /\ Queue[i] = messages[i]
         /\ UNCHANGED <<runs, counted, finished, delivered, again, handling, databases, missed>>
<1>1. PICK ms, us : ms = messages /\ us = unpublished /\ ms \in Seq(Published) /\ us \in Seq(Published)
  BY DEF StreamOK
<1>2. /\ ms \o us \in Seq(Published) /\ Len(ms \o us) = Len(ms) + Len(us) /\ Len(ms) \in Nat /\ Len(us) \in Nat
      /\ \A i \in 1..Len(ms) : i \in 1..Len(ms \o us) /\ (ms \o us)[i] = ms[i]
      /\ ms \o <<>> = ms
  BY <1>1, QueueIs
<1>3. unpublished' = <<>> /\ messages' = ms
  BY <1>1 DEF RunFails, reader
<1>4. Queue' = ms /\ Queue = ms \o us /\ Len(ms) <= Len(ms \o us)
  BY <1>1, <1>2, <1>3 DEF Queue
<1> QED
  BY <1>1, <1>2, <1>3, <1>4 DEF RunFails, reader, couch

\* The first message is acked.
LEMMA AckedStep ==
  ASSUME StatsTypes, on_iteration
  PROVE  /\ messages' \in Seq(Published) /\ Len(messages') = Len(messages) - 1 /\ UNCHANGED unpublished
         /\ Queue \in Seq(Published) /\ Queue' \in Seq(Published) /\ Len(Queue') = Len(Queue) - 1
         /\ Len(messages) \in Nat \ {0} /\ Len(Queue) \in Nat \ {0}
         /\ \A i \in 1..Len(Queue') : i + 1 \in 1..Len(Queue) /\ Queue'[i] = Queue[i + 1]
         /\ finished \in Nat \ {0} /\ finished' = finished - 1 /\ delivered' = delivered - 1
         /\ again' = (IF again = 0 THEN 0 ELSE again - 1)
         /\ HandledOnce \in Nat \ {0} /\ HandledOnce' = HandledOnce - 1
         /\ UNCHANGED <<runs, counted, handling, databases, missed>>
<1>1. /\ finished \in Nat /\ finished > 0 /\ delivered \in Nat /\ again \in Nat /\ Len(messages) \in Nat
      /\ finished <= delivered /\ delivered <= Len(messages)
  BY LenProperties DEF StatsTypes, StreamOK, on_iteration
<1>2. /\ finished' = finished - 1 /\ delivered' = delivered - 1
      /\ again' = (IF again = 0 THEN 0 ELSE again - 1)
      /\ UNCHANGED <<runs, counted, handling, databases, missed, unpublished>>
  BY DEF on_iteration, cluster, couch
<1>3. PICK ms, us : /\ ms = messages /\ us = unpublished /\ ms \in Seq(Published) /\ us \in Seq(Published)
                    /\ ms # <<>> /\ messages' = Tail(ms) /\ unpublished' = us
  <2>1. messages # <<>>
    BY <1>1, EmptySeq
  <2> QED
    BY <1>2, <2>1 DEF on_iteration, StatsTypes, StreamOK
<1>4. /\ Tail(ms) \in Seq(Published) /\ Len(Tail(ms)) = Len(ms) - 1
      /\ Tail(ms) \o us \in Seq(Published) /\ Len(Tail(ms) \o us) = Len(ms \o us) - 1
      /\ \A i \in 1..Len(Tail(ms) \o us) : (Tail(ms) \o us)[i] = (ms \o us)[i + 1]
  BY <1>3, QueueAcked
<1>5. ms \o us \in Seq(Published) /\ Len(ms \o us) = Len(ms) + Len(us) /\ Len(us) \in Nat /\ Len(ms) \in Nat \ {0}
  BY <1>1, <1>3, QueueIs
<1>6. Queue = ms \o us /\ Queue' = Tail(ms) \o us
  BY <1>3 DEF Queue
<1>7. Len(Queue) \in Nat \ {0}
  BY <1>5, <1>6
<1>8. \A i \in 1..Len(Queue') : i + 1 \in 1..Len(Queue)
  BY <1>4, <1>6, <1>7
<1>9. HandledOnce \in Nat \ {0} /\ HandledOnce' = HandledOnce - 1
  <2>1. PICK n : n = (IF handling.at = "done" THEN finished + 1 ELSE finished) /\ n \in Nat \ {0}
    BY <1>1
  <2>2. n - 1 = (IF handling'.at = "done" THEN finished' + 1 ELSE finished')
    BY <1>1, <1>2, <2>1
  <2>3. /\ HandledOnce = IF n < again THEN again ELSE n
        /\ HandledOnce' = IF n - 1 < again' THEN again' ELSE n - 1
    BY <2>1, <2>2 DEF HandledOnce
  <2> QED
    BY <1>1, <1>2, <2>1, <2>3
<1> QED
  BY <1>1, <1>2, <1>3, <1>4, <1>5, <1>6, <1>7, <1>8, <1>9

LEMMA StreamStep ==
  ASSUME StatsTypes, StatsNext
  PROVE  StreamOK' /\ runs <= runs'
<1>1. /\ runs \in 0..MaxRuns /\ MaxRuns \in Nat
      /\ messages \in Seq(Published) /\ unpublished \in Seq(Published)
      /\ \A i \in 1..Len(Queue) : Stamp(Queue[i]) <= runs
      /\ counted \in [Days -> SUBSET Users]
      /\ finished \in Nat /\ delivered \in Nat /\ again \in Nat /\ Len(messages) \in Nat
      /\ finished <= delivered /\ delivered <= Len(messages) /\ again <= Len(messages)
  BY LenProperties, RunsAssumption DEF StatsTypes, StreamOK
<1>2. CASE StartRun
  <2>1. PICK ms, us, r : ms = messages /\ us = unpublished' /\ r = runs
    OBVIOUS
  <2>2. /\ runs' = r + 1 /\ r \in Nat /\ r + 1 \in Days /\ Queue = ms /\ messages' = ms
        /\ us \in Seq(Published) /\ \A i \in 1..Len(us) : Stamp(us[i]) = r + 1
        /\ counted' \in [Days -> SUBSET Users]
    BY <1>2, <2>1, StartedRun DEF StatsTypes
  <2>3. /\ ms \o us \in Seq(Published) /\ Len(ms \o us) = Len(ms) + Len(us) /\ Len(ms) \in Nat /\ Len(us) \in Nat
        /\ \A i \in 1..Len(ms) : i \in 1..Len(ms \o us) /\ (ms \o us)[i] = ms[i]
        /\ \A i \in 1..Len(ms \o us) : Len(ms) < i => i - Len(ms) \in 1..Len(us) /\ (ms \o us)[i] = us[i - Len(ms)]
    BY <1>1, <2>1, <2>2, QueueIs
  <2>4. ASSUME NEW i \in 1..Len(ms \o us) PROVE Stamp((ms \o us)[i]) <= r + 1
    <3>1. CASE i <= Len(ms)
      <4>1. i \in 1..Len(ms)
        BY <2>3, <3>1
      <4>2. Stamp(ms[i]) <= r /\ Stamp(ms[i]) \in Nat
        BY <1>1, <2>1, <2>2, <4>1, ElementOfSeq, ResultFields, DaysAreNumbers
      <4> QED
        BY <2>2, <2>3, <4>1, <4>2
    <3>2. CASE ~(i <= Len(ms))
      <4>1. i - Len(ms) \in 1..Len(us) /\ (ms \o us)[i] = us[i - Len(ms)]
        BY <2>3, <3>2
      <4>2. Stamp((ms \o us)[i]) = r + 1
        BY <2>2, <4>1
      <4> QED
        BY <2>2, <4>2
    <3> QED
      BY <3>1, <3>2
  <2>5. Queue' = ms \o us
    BY <2>1, <2>2 DEF Queue
  <2>6. UNCHANGED <<finished, delivered, again>>
    BY <1>2 DEF StartRun, reader, faults
  <2>7. r + 1 \in 0..MaxRuns /\ r <= r + 1
    BY <1>1, <2>2 DEF Days
  <2> QED
    BY <1>1, <2>1, <2>2, <2>4, <2>5, <2>6, <2>7 DEF StreamOK
<1>3. CASE Publish
  <2>1. /\ Queue' = Queue /\ messages' \in Seq(Published) /\ unpublished' \in Seq(Published)
        /\ Len(messages') = Len(messages) + 1
        /\ UNCHANGED <<runs, counted, finished, delivered, again>>
    BY <1>3, PublishedStep DEF StatsTypes
  <2>2. delivered <= Len(messages) + 1 /\ again <= Len(messages) + 1 /\ runs <= runs
    BY <1>1
  <2> QED
    BY <1>1, <2>1, <2>2 DEF StreamOK
<1>4. CASE RunFails
  <2>1. /\ Queue' = messages /\ unpublished' = <<>> /\ UNCHANGED messages
        /\ \A i \in 1..Len(messages) : i \in 1..Len(Queue) /\ Queue[i] = messages[i]
        /\ UNCHANGED <<runs, counted, finished, delivered, again>>
    BY <1>4, FailedStep DEF StatsTypes
  <2>2. \A i \in 1..Len(messages) : Stamp(messages[i]) <= runs
    BY <1>1, <2>1
  <2>3. unpublished' \in Seq(Published) /\ runs <= runs
    BY <1>1, <2>1
  <2> QED
    BY <1>1, <2>1, <2>2, <2>3 DEF StreamOK
<1>5. CASE on_iteration
  <2>1. /\ messages' \in Seq(Published) /\ Len(messages') = Len(messages) - 1 /\ UNCHANGED unpublished
        /\ \A i \in 1..Len(Queue') : i + 1 \in 1..Len(Queue) /\ Queue'[i] = Queue[i + 1]
        /\ Len(messages) \in Nat \ {0}
        /\ finished \in Nat \ {0} /\ finished' = finished - 1 /\ delivered' = delivered - 1
        /\ again' = (IF again = 0 THEN 0 ELSE again - 1)
        /\ UNCHANGED <<runs, counted>>
    BY <1>5, AckedStep
  <2>2. \A i \in 1..Len(Queue') : Stamp(Queue'[i]) <= runs
    BY <1>1, <2>1
  <2>3. /\ finished' \in Nat /\ delivered' \in Nat /\ again' \in Nat
        /\ finished' <= delivered' /\ delivered' <= Len(messages') /\ again' <= Len(messages') /\ runs <= runs
    BY <1>1, <2>1
  <2> QED
    BY <1>1, <2>1, <2>2, <2>3 DEF StreamOK
<1>6. CASE Others
  <2>1. PICK k \in Nat : k = HandledOnce /\ k <= Len(messages)
    BY HandledIs
  <2>2. /\ UNCHANGED <<runs, counted, unpublished, messages>>
        /\ \/ UNCHANGED <<finished, again>> /\ delivered' \in {delivered, delivered + 1} /\ delivered' <= Len(messages)
           \/ finished < delivered /\ finished' = finished + 1 /\ UNCHANGED <<again, delivered>>
           \/ /\ again' = k
              /\ \/ UNCHANGED <<finished, delivered>>
                 \/ finished' = 0 /\ delivered' = 0
    BY <1>6, <2>1, OtherSteps, HandlingIs
  <2>3. Queue' = Queue /\ runs <= runs'
    BY <1>1, <2>2 DEF Queue
  <2>4. /\ finished' \in Nat /\ delivered' \in Nat /\ again' \in Nat
        /\ finished' <= delivered' /\ delivered' <= Len(messages) /\ again' <= Len(messages)
    BY <1>1, <2>1, <2>2
  <2> QED
    BY <1>1, <2>2, <2>3, <2>4 DEF StreamOK
<1> QED
  BY <1>2, <1>3, <1>4, <1>5, <1>6 DEF StatsNext, Cluster, Reader, Others

\* The locks: the dump sets them on databases that exist.
LEMMA LockedEffect ==
  ASSUME StatsNext
  PROVE  /\ late \subseteq late'
         /\ \/ locked' \subseteq locked
            \/ /\ dump.at = "lock" /\ databases[dump.day] # Absent /\ locked' = locked \cup {dump.day}
               /\ UNCHANGED <<databases, handling>>
               /\ handling.at = "sweep" /\ handling.next = dump.day => handling.next \in late'
<1>1. CASE Cluster \/ SparkReader_callback \/ on_iteration \/ Faults \/ Read
  BY <1>1 DEF Cluster, StartRun, Publish, RunFails, SparkReader_callback, on_iteration, Faults, ThreadDies, RunRaises,
              Restart, Redelivered, Read, fetch_data, get_document, nothing_found, couch
<1>2. CASE Handle
  BY <1>2 DEF Handle, CouchDbDataset_handle_start, StatsDataset_handle_insert, CouchDbDataset_handle_end,
              check_database_lock, delete_database, SweepEnds, process_message, couch, faults
<1>3. CASE Dump
  BY <1>3 DEF Dump, dump_database, lock_database, unlock_database, DumpKilled, couch, reader
<1> QED
  BY <1>1, <1>2, <1>3 DEF StatsNext, Reader

LEMMA CouchStep ==
  ASSUME StatsTypes, StatsNext
  PROVE  CouchOK'
<1>1. PICK m, n : m = runs /\ n = runs' /\ m \in Nat /\ n \in Nat /\ m <= n
  BY StreamStep, RunsAssumption DEF StatsTypes, StreamOK
<1>2. PICK db, db2 : db = databases /\ db2 = databases' /\ db \in Couch /\ FilledBy(db, n)
  <2>1. PICK db : db = databases /\ db \in Couch /\ FilledBy(db, m)
    BY <1>1 DEF StatsTypes, CouchOK
  <2>2. FilledBy(db, n)
    BY <1>1, <2>1, FilledLater
  <2> QED
    BY <2>1, <2>2
<1>3. locked \subseteq list_databases /\ locked' \subseteq list_databases
  <2>1. dump.at = "lock" => dump.day \in Days
    BY DEF StatsTypes, SweepOK, AtRest
  <2>2. locked \subseteq list_databases
    BY DEF StatsTypes, CouchOK
  <2> QED
    BY <2>1, <2>2, LockedEffect DEF list_databases
<1>4. CASE UNCHANGED databases
  BY <1>1, <1>2, <1>3, <1>4 DEF CouchOK, list_databases
<1>5. ASSUME finished < delivered, databases' \in Couch, FilledUpTo(Message, databases, databases'),
             Grown(databases, databases')
      PROVE  CouchOK'
  <2>1. Stamp(Message) \in Nat /\ Stamp(Message) <= n
    <3>1. Stamp(Message) <= m /\ Stamp(Message) \in Nat
      BY <1>1, <1>5, NextMessage, ResultFields, DaysAreNumbers DEF StatsTypes
    <3> QED
      BY <1>1, <3>1
  <2>2. FilledBy(databases', n)
    BY <1>1, <1>2, <1>5, <2>1 DEF FilledUpTo
  <2> QED
    BY <1>1, <1>3, <1>5, <2>2 DEF CouchOK, list_databases, Grown
<1>6. CASE HasMessage("start") /\ databases' = Creation(databases, Message.day)
  BY <1>5, <1>6, CreationFills DEF HasMessage
<1>7. CASE /\ HasMessage("data") /\ Target(Message) \in list_databases
           /\ \E some \in SUBSET Message.users :
                 databases' = Insertion(databases, Target(Message), some, Message.run)
  BY <1>5, <1>7, InsertionFills DEF HasMessage
<1>8. CASE /\ handling.at = "sweep" /\ handling.next # 0
           /\ databases' = Deletion(databases, handling.next) /\ locked' = locked \ {handling.next}
  <2>1. PICK d \in Days : d = handling.next
    BY <1>8, HandlingIs
  <2>2. db2 \in Couch /\ db2[d] = Absent /\ \A e \in Days : e # d => db2[e] = db[e]
    BY <1>2, <1>8, <2>1, Deleted
  <2>3. FilledBy(db2, n)
    BY <1>2, <2>2 DEF FilledBy
  <2> QED
    BY <1>1, <1>2, <1>3, <1>8, <2>1, <2>2, <2>3 DEF CouchOK, list_databases
<1> QED
  BY <1>4, <1>6, <1>7, <1>8, DatabaseEffect

\* How far the thread is with a message: it is done with it, or at rest, it begins a sweep, looks at a database, deletes
\* it, or goes on while the message stays the next.
LEMMA HandlingEffect ==
  ASSUME StatsTypes, StatsNext
  PROVE  \/ handling' = AtRest
         \/ /\ handling' = Done /\ handling.at # "done" /\ finished < delivered
            /\ UNCHANGED <<finished, delivered, again>>
         \/ /\ HasMessage("end") /\ list_databases # {}
            /\ handling' = [at |-> "sweep", left |-> Outdated(list_databases), next |-> 0]
            /\ UNCHANGED <<runs, messages, unpublished, finished, delivered, again, databases, locked, late>>
         \/ /\ handling.at = "sweep" /\ handling.next = 0
            /\ \E d \in handling.left : handling' = [at |-> "sweep", left |-> handling.left \ {d},
                                                     next |-> IF d \in locked THEN 0 ELSE d]
            /\ UNCHANGED <<runs, messages, unpublished, finished, delivered, again, databases, locked, late>>
         \/ /\ handling.at = "sweep" /\ handling.next # 0 /\ handling' = [handling EXCEPT !.next = 0]
            /\ UNCHANGED <<runs, messages, unpublished, finished, delivered, again, late>>
         \/ /\ UNCHANGED handling /\ handling # AtRest
            /\ finished' < delivered' /\ Message' = Message
            /\ \/ StartRun \/ Publish \/ RunFails \/ on_iteration
               \/ SparkReader_callback \/ Read \/ Dump
<1>1. StreamOK /\ Len(messages) \in Nat /\ (handling # AtRest => finished < delivered)
  BY LenProperties DEF StatsTypes, StreamOK, SweepOK
<1>2. CASE Publish
  <2>1. UNCHANGED <<handling, finished, delivered>> /\ messages' = Append(messages, Head(unpublished))
    BY <1>2 DEF Publish
  <2>2. CASE handling # AtRest
    <3>1. finished + 1 \in 1..Len(messages)
      BY <1>1, <2>2 DEF StreamOK
    <3>2. Head(unpublished) \in Published
      BY <1>1, <1>2, HeadTailProperties DEF Publish, StreamOK
    <3>3. \A i \in 1..Len(messages) : messages'[i] = messages[i]
      BY <1>1, <2>1, <3>2, AppendProperties DEF StreamOK
    <3>4. finished' < delivered' /\ Message' = Message
      BY <1>1, <2>1, <2>2, <3>1, <3>3 DEF Message
    <3> QED
      BY <1>2, <2>1, <2>2, <3>4
  <2> QED
    BY <2>1, <2>2
<1>3. CASE on_iteration
  <2>1. /\ UNCHANGED handling /\ messages' = Tail(messages) /\ finished' = finished - 1 /\ delivered' = delivered - 1
        /\ finished > 0
    BY <1>3 DEF on_iteration
  <2>2. CASE handling # AtRest
    <3>1. finished \in 1..Len(messages) /\ finished + 1 \in 1..Len(messages) /\ messages # <<>>
      BY <1>1, <2>1, <2>2 DEF StreamOK
    <3>2. /\ Len(messages') = Len(messages) - 1
          /\ \A i \in 1..Len(messages') : messages'[i] = messages[i + 1]
      BY <1>1, <2>1, <3>1, HeadTailProperties DEF StreamOK
    <3>3. finished \in 1..Len(messages')
      BY <1>1, <2>2, <3>1, <3>2 DEF StreamOK
    <3>4. finished' + 1 = finished
      BY <1>1, <2>1 DEF StreamOK
    <3>5. messages'[finished] = messages[finished + 1]
      BY <3>2, <3>3
    <3>6. finished' < delivered'
      BY <1>1, <2>1, <2>2 DEF StreamOK
    <3>7. Message' = Message
      BY <3>4, <3>5 DEF Message
    <3> QED
      BY <1>3, <2>1, <2>2, <3>6, <3>7
  <2> QED
    BY <2>1, <2>2
<1>4. CASE SparkReader_callback
  <2>1. UNCHANGED <<handling, finished, messages>> /\ delivered' = delivered + 1
    BY <1>4 DEF SparkReader_callback
  <2>2. handling # AtRest => finished < delivered + 1
    BY <1>1 DEF StreamOK
  <2> QED
    BY <1>4, <2>1, <2>2 DEF Message
<1>5. CASE StartRun \/ RunFails \/ Read \/ Dump
  <2>1. UNCHANGED <<handling, finished, delivered, messages>>
    BY <1>5 DEF StartRun, RunFails, Read, fetch_data, get_document, nothing_found, Dump, dump_database, lock_database,
                unlock_database, DumpKilled, reader
  <2> QED
    BY <1>1, <1>5, <2>1 DEF Message
<1>6. CASE Faults \/ process_message
  BY <1>6 DEF Faults, ThreadDies, RunRaises, Restart, Redelivered, process_message
<1>7. CASE CouchDbDataset_handle_start \/ StatsDataset_handle_insert
  BY <1>7 DEF CouchDbDataset_handle_start, StatsDataset_handle_insert, HasMessage, AtRest
<1>8. CASE CouchDbDataset_handle_end
  BY <1>8 DEF CouchDbDataset_handle_end, HasMessage, cluster, couch, AtRest
<1>9. CASE check_database_lock
  BY <1>9 DEF check_database_lock, cluster, couch, faults
<1>10. CASE delete_database
  BY <1>10 DEF delete_database, cluster, faults
<1>11. CASE SweepEnds
  <2>1. handling.at = "sweep" /\ handling' = Done /\ UNCHANGED <<finished, delivered, again>>
    BY <1>11 DEF SweepEnds
  <2> QED
    BY <2>1, HandlingIs
<1> QED
  BY <1>2, <1>3, <1>4, <1>5, <1>6, <1>7, <1>8, <1>9, <1>10, <1>11 DEF StatsNext, Reader, Cluster, Handle

LEMMA DumpStep ==
  ASSUME StatsTypes, StatsNext
  PROVE  dump' \in {AtRest} \cup [at : {"lock", "read"}, day : Days]
<1>1. dump \in {AtRest} \cup [at : {"lock", "read"}, day : Days]
  BY DEF StatsTypes, SweepOK
<1>2. CASE dump_database
  <2>1. list_databases \in SUBSET Days /\ list_databases # {} /\ dump' = [at |-> "lock", day |-> Oldest(list_databases)]
    BY <1>2 DEF dump_database, list_databases
  <2>2. Oldest(list_databases) \in Days
    BY <2>1, OldestExists
  <2> QED
    BY <2>1, <2>2
<1>3. CASE lock_database
  BY <1>1, <1>3 DEF lock_database, AtRest
<1>4. CASE unlock_database \/ DumpKilled
  BY <1>4 DEF unlock_database, DumpKilled
<1>5. CASE Cluster \/ Reader \/ Faults \/ Read
  <2>1. UNCHANGED dump
    BY <1>5 DEF Cluster, StartRun, Publish, RunFails, Reader, SparkReader_callback, on_iteration, Handle,
                CouchDbDataset_handle_start, StatsDataset_handle_insert, CouchDbDataset_handle_end,
                check_database_lock, delete_database, SweepEnds, process_message, Faults, ThreadDies, RunRaises,
                Restart, Redelivered, Read, fetch_data, get_document, nothing_found
  <2> QED
    BY <1>1, <2>1
<1> QED
  BY <1>2, <1>3, <1>4, <1>5 DEF StatsNext, Dump

LEMMA DatabasesAreOfRuns ==
  ASSUME StatsTypes
  PROVE  list_databases \in SUBSET (1..runs) /\ list_databases \in SUBSET Days /\ runs \in Nat
  BY RunsAssumption DEF StatsTypes, StreamOK, CouchOK, FilledBy, list_databases, Days

LEMMA SweepStep ==
  ASSUME StatsTypes, StatsNext
  PROVE  SweepOK'
<1> DEFINE Sweeps(r) == [at : {"sweep"}, left : SUBSET (1..r), next : 0..r]
<1>1. handling \in {AtRest, Done} \cup Sweeps(runs)
  BY DEF StatsTypes, SweepOK
<1>2. PICK m, n : m = runs /\ n = runs' /\ m \in Nat /\ n \in Nat /\ m <= n
  BY StreamStep, RunsAssumption DEF StatsTypes, StreamOK
<1>3. handling' \in {AtRest, Done} \cup Sweeps(n)
  <2>1. Outdated(list_databases) \in SUBSET (1..m)
    BY <1>2, DatabasesAreOfRuns DEF Outdated
  <2>2. handling.at = "sweep" => /\ handling.left \in SUBSET (1..m) /\ handling.next \in 0..m
                                 /\ handling = [at |-> "sweep", left |-> handling.left, next |-> handling.next]
    BY <1>1, <1>2 DEF AtRest, Done
  <2>3. SUBSET (1..m) \subseteq SUBSET (1..n) /\ 0..m \subseteq 0..n /\ 0 \in 0..m
    BY <1>2
  <2>4. ASSUME handling.at = "sweep", NEW d \in handling.left,
               handling' = [at |-> "sweep", left |-> handling.left \ {d}, next |-> IF d \in locked THEN 0 ELSE d]
        PROVE  handling' \in Sweeps(n)
    <3>1. handling.left \ {d} \in SUBSET (1..n)
      BY <2>2, <2>3, <2>4
    <3>2. (IF d \in locked THEN 0 ELSE d) \in 0..n
      BY <1>2, <2>2, <2>3, <2>4
    <3> QED
      BY <2>4, <3>1, <3>2
  <2>5. ASSUME handling.at = "sweep", handling' = [handling EXCEPT !.next = 0]
        PROVE  handling' \in Sweeps(n)
    <3>1. handling' = [at |-> "sweep", left |-> handling.left, next |-> 0]
      BY <2>2, <2>5
    <3> QED
      BY <2>2, <2>3, <2>5, <3>1
  <2>6. ASSUME handling' = [at |-> "sweep", left |-> Outdated(list_databases), next |-> 0]
        PROVE  handling' \in Sweeps(n)
    BY <2>1, <2>3, <2>6
  <2>7. ASSUME UNCHANGED handling PROVE handling' \in {AtRest, Done} \cup Sweeps(n)
    <3>1. CASE handling \in {AtRest, Done}
      BY <2>7, <3>1
    <3>2. CASE handling \in Sweeps(runs)
      <4>1. handling.at = "sweep"
        BY <3>2
      <4>2. handling.left \in SUBSET (1..n) /\ handling.next \in 0..n
        BY <2>2, <2>3, <4>1
      <4> QED
        BY <2>2, <2>7, <4>1, <4>2
    <3> QED
      BY <1>1, <3>1, <3>2
  <2> HIDE DEF Sweeps
  <2> QED
    BY <2>4, <2>5, <2>6, <2>7, HandlingEffect
<1>4. handling' # AtRest => finished' < delivered'
  <2>1. handling.at = "sweep" => finished < delivered
    BY HandlingIs
  <2> QED
    BY <2>1, HandlingEffect DEF HasMessage
<1>5. handling'.at = "sweep" /\ handling'.next \in locked' => handling'.next \in late'
  <2>1. 0 \notin locked'
    BY CouchStep, DaysAreNumbers DEF CouchOK, list_databases, Days
  <2>2. handling.at = "sweep" /\ handling.next \in locked => handling.next \in late
    BY DEF StatsTypes, SweepOK
  <2>3. CASE UNCHANGED handling
    BY <2>2, <2>3, LockedEffect
  <2>4. CASE handling' \in {AtRest, Done}
    BY <2>4 DEF AtRest, Done
  <2>5. CASE handling'.next = 0
    BY <2>1, <2>5
  <2>6. ASSUME UNCHANGED locked, NEW d \in handling.left,
               handling' = [at |-> "sweep", left |-> handling.left \ {d}, next |-> IF d \in locked THEN 0 ELSE d]
        PROVE  handling'.next \notin locked'
    BY <2>1, <2>6
  <2>7. handling.at = "sweep" /\ handling' = [handling EXCEPT !.next = 0] => handling'.next = 0
    BY <1>1 DEF AtRest, Done
  <2>8. handling' = [at |-> "sweep", left |-> Outdated(list_databases), next |-> 0] => handling'.next = 0
    OBVIOUS
  <2> QED
    BY <2>3, <2>4, <2>5, <2>6, <2>7, <2>8, HandlingEffect
<1> QED
  BY <1>2, <1>3, <1>4, <1>5, DumpStep DEF SweepOK

\* The newest document of a user.
LEMMA LatestIs ==
  ASSUME StatsTypes, NEW u \in Users
  PROVE  /\ holders(u) \in SUBSET Days
         /\ holders(u) = {} => latest(u) = None
         /\ holders(u) # {} => /\ Newest(holders(u)) \in holders(u) /\ \A d \in holders(u) : d <= Newest(holders(u))
                               /\ latest(u) = databases[Newest(holders(u))][u] /\ latest(u) \in Days
         /\ latest(u) \in {None} \cup Days
         /\ \A d \in holders(u) : d \in Days /\ databases[d] # Absent /\ databases[d][u] # None
                                  /\ databases[d][u] \in Days
<1>1. holders(u) \in SUBSET Days
  BY DEF holders, list_databases
<1>2. \A d \in holders(u) : /\ d \in Days /\ databases[d] # Absent /\ databases[d][u] # None
                            /\ databases[d][u] \in Days
  BY CouchFields DEF holders, list_databases, StatsTypes, CouchOK
<1>3. holders(u) # {} => Newest(holders(u)) \in holders(u) /\ \A d \in holders(u) : d <= Newest(holders(u))
  BY <1>1, NewestExists
<1> QED
  BY <1>1, <1>2, <1>3 DEF latest

\* What a step of a read does.
LEMMA ReadEffect ==
  ASSUME StatsTypes, StatsNext
  PROVE  \/ UNCHANGED read
         \/ /\ \E u \in Users : fetch_data(u)
            /\ UNCHANGED databases
         \/ /\ read.at = "ask" /\ read.left # {} /\ UNCHANGED databases
            /\ \E document :
                  /\ document = (IF databases[Newest(read.left)] = Absent THEN None
                                 ELSE databases[Newest(read.left)][read.user])
                  /\ \/ document = None /\ read' = [read EXCEPT !.left = @ \ {Newest(read.left)}]
                     \/ document # None /\ Answered(document)
         \/ read.at = "ask" /\ read.left = {} /\ Answered(None) /\ UNCHANGED databases
         \/ /\ read.at = "ask" /\ read' = [read EXCEPT !.crossed = TRUE]
<1>1. CASE Cluster \/ SparkReader_callback \/ on_iteration \/ Faults \/ Dump
  BY <1>1 DEF Cluster, StartRun, Publish, RunFails, SparkReader_callback, on_iteration, Faults, ThreadDies, RunRaises,
              Restart, Redelivered, Dump, dump_database, lock_database, unlock_database, DumpKilled
<1>2. CASE Handle
  BY <1>2 DEF Handle, CouchDbDataset_handle_start, StatsDataset_handle_insert, CouchDbDataset_handle_end,
              check_database_lock, delete_database, SweepEnds, process_message, Crossed
<1>3. CASE Read
  <2>1. ASSUME NEW u \in Readers, fetch_data(u)
        PROVE  (\E v \in Users : fetch_data(v)) /\ UNCHANGED databases
    BY <2>1, ReadersAssumption DEF fetch_data, couch
  <2>2. CASE get_document
    BY <2>2 DEF get_document, couch
  <2>3. CASE nothing_found
    BY <2>3 DEF nothing_found, couch
  <2> QED
    BY <1>3, <2>1, <2>2, <2>3 DEF Read
<1> QED
  BY <1>1, <1>2, <1>3 DEF StatsNext, Reader

LEMMA ReadStep ==
  ASSUME StatsTypes, StatsNext
  PROVE  ReadOK'
<1>1. read.at = "ask" => read \in Asking
  BY DEF StatsTypes, ReadOK, AtRest
<1>2. CASE UNCHANGED read
  BY <1>2 DEF StatsTypes, ReadOK
<1>3. ASSUME NEW u \in Users, fetch_data(u)
      PROVE  read' \in Asking
  <2>1. list_databases \in SUBSET Days /\ latest(u) \in {None} \cup Days
    BY LatestIs DEF list_databases
  <2>2. (IF holders(u) = {} THEN 0 ELSE Newest(holders(u))) \in {0} \cup Days
    BY LatestIs
  <2> QED
    BY <1>3, <2>1, <2>2 DEF fetch_data, Asking
<1>4. ASSUME read.at = "ask", read' = [read EXCEPT !.left = @ \ {Newest(read.left)}] PROVE read' \in Asking
  BY <1>1, <1>4 DEF Asking
<1>5. ASSUME read.at = "ask", read' = [read EXCEPT !.crossed = TRUE] PROVE read' \in Asking
  BY <1>1, <1>5 DEF Asking
<1>6. ASSUME read.at = "ask", NEW document \in {None} \cup Days, Answered(document) PROVE ReadOK'
  BY <1>1, <1>6 DEF Asking, Answered, ReadOK
<1>7. ASSUME read.at = "ask", read.left # {}
      PROVE  (IF databases[Newest(read.left)] = Absent THEN None ELSE databases[Newest(read.left)][read.user])
             \in {None} \cup Days
  <2>1. read.left \in SUBSET Days /\ read.user \in Users
    BY <1>1, <1>7 DEF Asking
  <2>2. PICK d \in Days : d = Newest(read.left)
    BY <1>7, <2>1, NewestExists
  <2> QED
    BY <2>1, <2>2, CouchFields DEF StatsTypes, CouchOK
<1> QED
  BY <1>2, <1>3, <1>4, <1>5, <1>6, <1>7, ReadEffect DEF ReadOK

-----------------------------------------------------------------------------
(* The claims about the queue. *)

\* Which messages were handled changes only when a handler is done, or a message acked.
LEMMA HandledStays ==
  ASSUME StatsTypes, Others, ~(handling'.at = "done" /\ handling.at # "done")
  PROVE  HandledOnce' = HandledOnce
<1>1. PICK k \in Nat : k = HandledOnce /\ finished <= k /\ finished \in Nat
  BY HandledIs DEF StatsTypes, StreamOK
<1>2. AtRest.at # "done"
  BY DEF AtRest
<1>3. CASE UNCHANGED <<finished, again>> /\ (handling.at = "done" => UNCHANGED handling)
  BY <1>3 DEF HandledOnce
<1>4. CASE handling.at = "done" /\ handling' = AtRest /\ finished' = finished + 1 /\ UNCHANGED again
  BY <1>2, <1>4 DEF HandledOnce
<1>5. CASE again' = HandledOnce /\ handling' = AtRest /\ (UNCHANGED finished \/ finished' = 0)
  <2>1. HandledOnce' = IF finished' < k THEN k ELSE finished'
    BY <1>1, <1>2, <1>5 DEF HandledOnce
  <2> QED
    BY <1>1, <1>5, <2>1
<1> QED
  BY <1>3, <1>4, <1>5, OtherSteps

\* What a handler has done when it is done.
LEMMA MessageStep ==
  ASSUME StatsTypes, SweptBehind, StatsNext, handling'.at = "done", handling.at # "done"
  PROVE  /\ finished < delivered /\ UNCHANGED <<finished, again, messages, unpublished, counted>> /\ missed \subseteq missed'
         /\ databases' \in Couch /\ Grown(databases, databases') /\ FilledUpTo(Message, databases, databases')
         /\ Served(Message, databases', missed')
<1>1. /\ databases \in Couch /\ Grown(databases, databases) /\ FilledUpTo(Message, databases, databases)
      /\ AtRest.at = "idle"
  BY DEF StatsTypes, CouchOK, Grown, FilledUpTo, AtRest
<1>2. CASE CouchDbDataset_handle_start
  <2>1. /\ finished < delivered /\ Message.type = "start" /\ UNCHANGED <<finished, again, messages, unpublished, counted, missed>>
        /\ \/ databases' = Creation(databases, Message.day)
           \/ UNCHANGED databases
    BY <1>2 DEF CouchDbDataset_handle_start, HasMessage, Creation, cluster
  <2>2. databases' \in Couch /\ Grown(databases, databases') /\ FilledUpTo(Message, databases, databases')
    BY <1>1, <2>1, CreationFills
  <2> QED
    BY <2>1, <2>2 DEF Served
<1>3. CASE StatsDataset_handle_insert
  <2>1. PICK some \in SUBSET Message.users :
           /\ some # {} => Stored(Message)
           /\ databases' = IF some = {} THEN databases
                           ELSE [databases EXCEPT ![Target(Message)] =
                                    [u \in Users |-> IF u \in some THEN Message.run ELSE @[u]]]
           /\ missed' = missed \cup ({Message.run} \X (Message.users \ some))
    BY <1>3 DEF StatsDataset_handle_insert
  <2>2. finished < delivered /\ Message.type = "data" /\ UNCHANGED <<finished, again, messages, unpublished, counted>>
    BY <1>3 DEF StatsDataset_handle_insert, HasMessage, cluster
  <2>3. /\ databases' \in Couch /\ Grown(databases, databases') /\ FilledUpTo(Message, databases, databases')
        /\ Message.day # 0 => \A u \in some : databases'[Message.day] # Absent /\ databases'[Message.day][u] # None
    <3>1. CASE some = {}
      BY <1>1, <2>1, <3>1
    <3>2. CASE some # {}
      <4>1. Target(Message) \in list_databases
        BY <2>1, <3>2 DEF Stored
      <4>2. databases' = Insertion(databases, Target(Message), some, Message.run)
        BY <2>1, <3>2, <4>1 DEF Insertion, StatsTypes, CouchOK, Couch, list_databases
      <4> QED
        BY <2>2, <4>1, <4>2, InsertionFills
    <3> QED
      BY <3>1, <3>2
  <2>4. Message.day # 0 => Message.day = Message.run
    BY <2>2, NextMessage, ResultFields DEF StatsTypes
  <2>5. ASSUME Message.day # 0, NEW u \in Message.users
        PROVE  <<Message.day, u>> \in missed' \/ (databases'[Message.day] # Absent /\ databases'[Message.day][u] # None)
    <3>1. CASE u \in some
      BY <2>3, <2>5, <3>1
    <3>2. CASE u \notin some
      <4>1. <<Message.day, u>> \in {Message.run} \X (Message.users \ some)
        BY <2>4, <2>5, <3>2
      <4> QED
        BY <2>1, <4>1
    <3> QED
      BY <3>1, <3>2
  <2> QED
    BY <2>1, <2>2, <2>3, <2>5 DEF Served
<1>4. CASE CouchDbDataset_handle_end
  <2>1. /\ finished < delivered /\ Message.type = "end"
        /\ UNCHANGED <<finished, again, messages, unpublished, counted, missed, databases>>
    BY <1>4 DEF CouchDbDataset_handle_end, HasMessage, cluster, couch
  <2> QED
    BY <1>1, <2>1 DEF Served
<1>5. CASE SweepEnds
  <2>1. /\ handling.at = "sweep"
        /\ UNCHANGED <<finished, again, messages, unpublished, counted, missed, databases>>
    BY <1>5 DEF SweepEnds, cluster, couch
  <2>2. finished < delivered /\ Message.type = "end"
    BY <2>1, HandlingIs DEF SweptBehind
  <2> QED
    BY <1>1, <2>1, <2>2 DEF Served
<1>6. CASE Cluster \/ SparkReader_callback \/ on_iteration \/ Faults \/ Read \/ Dump
  <2>1. handling' = handling \/ handling' = AtRest
    BY <1>6 DEF Cluster, StartRun, Publish, RunFails, SparkReader_callback, on_iteration, Faults, ThreadDies, RunRaises,
                Restart, Redelivered, Read, fetch_data, get_document, nothing_found, Dump, dump_database,
                lock_database, unlock_database, DumpKilled, reader
  <2> QED
    BY <1>1, <2>1
<1>7. CASE check_database_lock
  <2>1. handling'.at = "sweep"
    BY <1>7 DEF check_database_lock
  <2> QED
    BY <2>1
<1>8. CASE delete_database
  <2>1. handling' = [handling EXCEPT !.next = 0] /\ handling.at = "sweep"
    BY <1>8 DEF delete_database
  <2>2. handling'.at = "sweep"
    BY <2>1 DEF StatsTypes, SweepOK, AtRest, Done
  <2> QED
    BY <2>2
<1>9. CASE process_message
  BY <1>1, <1>9 DEF process_message
<1> QED
  BY <1>2, <1>3, <1>4, <1>5, <1>6, <1>7, <1>8, <1>9 DEF StatsNext, Reader, Handle

\* A database is deleted.
LEMMA DeletedStep ==
  ASSUME StatsTypes, delete_database
  PROVE  /\ UNCHANGED <<messages, unpublished, counted, missed>> /\ HandledOnce' = HandledOnce
         /\ handling.at = "sweep" /\ handling.next \in Days
         /\ databases' \in Couch /\ databases'[handling.next] = Absent
         /\ \A e \in Days : e # handling.next => databases'[e] = databases[e]
<1>1. PICK d \in Days : d = handling.next /\ handling.at = "sweep" /\ databases' = Deletion(databases, d)
  BY HandlingIs DEF delete_database, Deletion
<1>2. databases' \in Couch /\ databases'[d] = Absent /\ \A e \in Days : e # d => databases'[e] = databases[e]
  BY <1>1, Deleted DEF StatsTypes, CouchOK
<1>3. UNCHANGED <<messages, unpublished, counted, missed>>
  BY DEF delete_database, cluster, faults
<1>4. HandledOnce' = HandledOnce
  <2>1. handling' = [handling EXCEPT !.next = 0]
    BY DEF delete_database
  <2>2. handling'.at # "done"
    BY <1>1, <2>1 DEF StatsTypes, SweepOK, AtRest, Done
  <2> QED
    BY <2>2, HandledStays DEF Others, Handle
<1> QED
  BY <1>1, <1>2, <1>3, <1>4

LEMMA RunsKeptStep ==
  ASSUME StatsInv, StatsNext
  PROVE  RunsKept(Queue, HandledOnce, databases, counted, missed)'
<1>1. StatsTypes /\ SweptBehind /\ RunsKept(Queue, HandledOnce, databases, counted, missed)
  BY DEF StatsInv
<1>2. PICK q, k, db, users, gone : /\ q = Queue /\ k = HandledOnce /\ db = databases /\ users = counted /\ gone = missed
                                   /\ RunsKept(q, k, db, users, gone)
  BY <1>1
<1>3. /\ k \in Nat /\ k <= Len(messages) /\ db \in Couch /\ users \in [Days -> SUBSET Users]
      /\ q \in Seq(Published) /\ Len(messages) <= Len(q)
  <2>1. Len(messages) <= Len(Queue) /\ Queue \in Seq(Published)
    BY <1>1, QueueIs DEF StatsTypes, StreamOK, Queue
  <2> QED
    BY <1>1, <1>2, <2>1, HandledIs DEF StatsTypes, StreamOK, CouchOK
<1>4. CASE StartRun
  <2>1. PICK r, us, users2 : r = runs /\ us = unpublished' /\ users2 = counted'
    OBVIOUS
  <2>2. /\ r \in Nat /\ r + 1 \in Days /\ q = messages /\ messages' = q /\ us \in Seq(Published)
        /\ \A i \in 1..Len(us) : Stamp(us[i]) = r + 1
        /\ \A d \in Days : d # r + 1 => users2[d] = users[d]
        /\ \A j \in 1..Len(us) : us[j].type = "end" => \A u \in users2[us[j].day] :
              \E i \in 1..Len(us) : i < j /\ us[i].type = "data" /\ us[i].day = us[j].day /\ u \in us[i].users
    BY <1>1, <1>2, <1>4, <2>1, StartedRun DEF StatsTypes
  <2>3. FilledBy(db, r) /\ \A i \in 1..Len(q) : Stamp(q[i]) <= r
    BY <1>1, <1>2, <2>1 DEF StatsTypes, CouchOK, StreamOK
  <2>4. RunsKept(q \o us, k, db, users2, gone)
    <3>1. k <= Len(q)
      BY <1>3, <2>2
    <3> QED
      BY <1>2, <1>3, <2>2, <2>3, <3>1, AddedKept
  <2>5. Queue' = q \o us
    BY <2>1, <2>2 DEF Queue
  <2>6. UNCHANGED <<finished, again, handling, databases, missed>>
    BY <1>4 DEF StartRun, reader, couch, faults
  <2>7. HandledOnce' = k
    BY <1>2, <2>6 DEF HandledOnce
  <2> QED
    BY <1>2, <2>1, <2>4, <2>5, <2>6, <2>7
<1>5. CASE Publish
  <2>1. Queue' = Queue /\ UNCHANGED <<finished, again, handling, databases, missed, counted>>
    BY <1>1, <1>5, PublishedStep DEF StatsTypes
  <2>2. HandledOnce' = HandledOnce
    BY <2>1 DEF HandledOnce
  <2> QED
    BY <1>1, <2>1, <2>2
<1>6. CASE RunFails
  <2>1. /\ Queue' = messages /\ messages \in Seq(Published) /\ Len(messages) <= Len(q)
        /\ \A i \in 1..Len(messages) : q[i] = messages[i]
        /\ UNCHANGED <<finished, again, handling, databases, missed, counted>>
    BY <1>1, <1>2, <1>6, FailedStep DEF StatsTypes
  <2>2. HandledOnce' = k
    BY <1>2, <2>1 DEF HandledOnce
  <2>3. RunsKept(messages, k, db, users, gone)
    BY <1>2, <1>3, <2>1, CutKept
  <2> QED
    BY <1>2, <2>1, <2>2, <2>3
<1>7. CASE on_iteration
  <2>1. PICK rest : rest = Queue'
    OBVIOUS
  <2>2. /\ rest \in Seq(Published) /\ Len(rest) = Len(q) - 1 /\ \A i \in 1..Len(rest) : rest[i] = q[i + 1]
        /\ k \in Nat \ {0} /\ HandledOnce' = k - 1
        /\ UNCHANGED <<databases, missed, counted>>
    BY <1>1, <1>2, <1>7, <2>1, AckedStep
  <2>3. RunsKept(rest, k - 1, db, users, gone)
    BY <1>2, <1>3, <2>2, ShiftedKept
  <2> QED
    BY <1>2, <2>1, <2>2, <2>3
<1>8. CASE handling'.at = "done" /\ handling.at # "done"
  <2>1. /\ finished < delivered /\ UNCHANGED <<finished, again, messages, unpublished, counted>> /\ missed \subseteq missed'
        /\ databases' \in Couch /\ Grown(databases, databases') /\ FilledUpTo(Message, databases, databases')
        /\ Served(Message, databases', missed')
    BY <1>1, <1>8, MessageStep
  <2>2. PICK j, k2, db2, gone2 : j = finished + 1 /\ k2 = HandledOnce' /\ db2 = databases' /\ gone2 = missed'
    OBVIOUS
  <2>3. j \in 1..Len(q) /\ q[j] = Message
    BY <1>1, <1>2, <2>1, <2>2, NextMessage DEF StatsTypes
  <2>4. j <= k + 1 /\ k2 \in {k, k + 1} /\ (k2 # k => j = k + 1)
    <3>1. /\ finished <= k /\ finished \in Nat /\ k2 = (IF Repeated THEN k ELSE k + 1)
          /\ k = (IF Repeated THEN again ELSE finished)
      BY <1>1, <1>2, <1>8, <2>1, <2>2, HandlerDone, HandledIs DEF StatsTypes, StreamOK
    <3> QED
      BY <1>3, <2>2, <3>1
  <2>5. RunsKept(q, k2, db2, users, gone2)
    BY <1>2, <1>3, <2>1, <2>2, <2>3, <2>4, HandledKept
  <2>6. Queue' = q
    BY <1>2, <2>1 DEF Queue
  <2> QED
    BY <1>2, <2>1, <2>2, <2>5, <2>6
<1>9. CASE delete_database
  <2>1. PICK d, db2 : d = handling.next /\ db2 = databases'
    OBVIOUS
  <2>2. /\ UNCHANGED <<messages, unpublished, counted, missed>> /\ HandledOnce' = k
        /\ handling.at = "sweep" /\ d \in Days
        /\ db2 \in Couch /\ db2[d] = Absent /\ \A e \in Days : e # d => db2[e] = db[e]
    BY <1>1, <1>2, <1>9, <2>1, DeletedStep
  <2>3. \A i \in 1..Len(q) : k < i => d < Stamp(q[i])
    BY <1>1, <1>2, <2>1, <2>2 DEF SweptBehind
  <2>4. RunsKept(q, k, db2, users, gone)
    BY <1>2, <1>3, <2>2, <2>3, DeletedKept
  <2>5. Queue' = q
    BY <1>2, <2>2 DEF Queue
  <2> QED
    BY <1>2, <2>1, <2>2, <2>4, <2>5
<1>10. CASE Others /\ ~delete_database /\ ~(handling'.at = "done" /\ handling.at # "done")
  <2>1. UNCHANGED <<counted, unpublished, messages>> /\ HandledOnce' = HandledOnce
    BY <1>1, <1>10, OtherSteps, HandledStays
  <2>2. UNCHANGED <<databases, missed>>
    <3>1. CASE CouchDbDataset_handle_start \/ StatsDataset_handle_insert
      <4>1. handling' = Done /\ handling = AtRest
        BY <3>1 DEF CouchDbDataset_handle_start, StatsDataset_handle_insert, HasMessage
      <4> QED
        BY <1>10, <4>1 DEF Done, AtRest
    <3>2. CASE ~(CouchDbDataset_handle_start \/ StatsDataset_handle_insert)
      BY <1>10, <3>2 DEF Others, SparkReader_callback, Handle, CouchDbDataset_handle_end, check_database_lock, SweepEnds,
                         process_message, Faults, ThreadDies, RunRaises, Restart, Redelivered, Read, fetch_data,
                         get_document, nothing_found, Dump, dump_database, lock_database, unlock_database, DumpKilled,
                         couch, faults
    <3> QED
      BY <3>1, <3>2
  <2>3. Queue' = Queue
    BY <2>1 DEF Queue
  <2> QED
    BY <1>1, <2>1, <2>2, <2>3
<1> QED
  BY <1>4, <1>5, <1>6, <1>7, <1>8, <1>9, <1>10 DEF StatsNext, Cluster, Reader, Others

\* What is still to be handled was so before, or is of a new run.
LEMMA StillToCome ==
  ASSUME StatsTypes,
         StartRun \/ Publish \/ RunFails \/ on_iteration \/ SparkReader_callback \/ Read \/ Dump,
         NEW i \in 1..Len(Queue'), HandledOnce' < i
  PROVE  \/ Stamp(Queue'[i]) = runs + 1
         \/ \E e \in 1..Len(Queue) : HandledOnce < e /\ Queue[e] = Queue'[i]
<1>1. PICK k \in Nat : k = HandledOnce
  BY HandledIs
<1>2. CASE StartRun
  <2>1. PICK ms, us : ms = messages /\ us = unpublished'
    OBVIOUS
  <2>2. /\ runs' = runs + 1 /\ Queue = ms /\ messages' = ms /\ us \in Seq(Published) /\ ms \in Seq(Published)
        /\ \A j \in 1..Len(us) : Stamp(us[j]) = runs + 1
    BY <1>2, <2>1, StartedRun DEF StatsTypes, StreamOK
  <2>3. /\ Len(ms) \in Nat /\ Len(us) \in Nat /\ Len(ms \o us) = Len(ms) + Len(us)
        /\ \A j \in 1..Len(ms) : (ms \o us)[j] = ms[j]
        /\ \A j \in 1..Len(ms \o us) : Len(ms) < j => j - Len(ms) \in 1..Len(us) /\ (ms \o us)[j] = us[j - Len(ms)]
    BY <2>2, QueueIs
  <2>4. Queue' = ms \o us
    BY <2>1, <2>2 DEF Queue
  <2>5. HandledOnce' = k
    BY <1>1, <1>2 DEF StartRun, reader, faults, HandledOnce
  <2>6. CASE i <= Len(ms)
    <3>1. i \in 1..Len(ms) /\ k < i
      BY <2>3, <2>4, <2>5, <2>6
    <3> QED
      BY <1>1, <2>2, <2>3, <2>4, <3>1
  <2>7. CASE ~(i <= Len(ms))
    <3>1. i \in 1..Len(ms \o us) /\ Len(ms) < i
      BY <2>3, <2>4, <2>7
    <3>2. i - Len(ms) \in 1..Len(us) /\ (ms \o us)[i] = us[i - Len(ms)]
      BY <2>3, <3>1
    <3> QED
      BY <2>2, <2>4, <3>2
  <2> QED
    BY <2>6, <2>7
<1>3. CASE Publish
  <2>1. Queue' = Queue /\ UNCHANGED <<finished, again, handling>>
    BY <1>3, PublishedStep DEF StatsTypes
  <2>2. HandledOnce' = HandledOnce
    BY <2>1 DEF HandledOnce
  <2> QED
    BY <2>1, <2>2
<1>4. CASE RunFails
  <2>1. /\ Queue' = messages
        /\ \A j \in 1..Len(messages) : j \in 1..Len(Queue) /\ Queue[j] = messages[j]
        /\ UNCHANGED <<finished, again, handling>>
    BY <1>4, FailedStep DEF StatsTypes
  <2>2. HandledOnce' = HandledOnce
    BY <2>1 DEF HandledOnce
  <2>3. i \in 1..Len(Queue) /\ Queue[i] = Queue'[i]
    BY <2>1
  <2> QED
    BY <2>2, <2>3
<1>5. CASE on_iteration
  <2>1. /\ i + 1 \in 1..Len(Queue) /\ Queue'[i] = Queue[i + 1]
        /\ HandledOnce' = k - 1
    BY <1>1, <1>5, AckedStep
  <2>2. k < i + 1
    BY <1>1, <2>1
  <2> QED
    BY <1>1, <2>1, <2>2
<1>6. CASE SparkReader_callback \/ Read \/ Dump
  <2>1. UNCHANGED <<messages, unpublished, finished, again, handling>>
    BY <1>6 DEF SparkReader_callback, Read, fetch_data, get_document, nothing_found, Dump, dump_database, lock_database,
                unlock_database, DumpKilled, cluster, reader, faults
  <2>2. HandledOnce' = HandledOnce /\ Queue' = Queue
    BY <2>1 DEF HandledOnce, Queue
  <2> QED
    BY <2>2
<1> QED
  BY <1>2, <1>3, <1>4, <1>5, <1>6

LEMMA SweptBehindStep ==
  ASSUME StatsInv, StatsNext
  PROVE  SweptBehind'
<1>1. StatsTypes /\ SweptBehind /\ RunsKept(Queue, HandledOnce, databases, counted, missed)
  BY DEF StatsInv
<1>2. PICK q, k : q = Queue /\ k = HandledOnce /\ k \in Nat /\ q \in Seq(Published)
  BY <1>1, HandledIs, QueueIs DEF StatsTypes, StreamOK, Queue
<1>3. \A i \in 1..Len(q) : Stamp(q[i]) \in Days /\ Stamp(q[i]) \in Nat /\ 0 < Stamp(q[i])
  <2> SUFFICES ASSUME NEW i \in 1..Len(q) PROVE Stamp(q[i]) \in Days /\ Stamp(q[i]) \in Nat /\ 0 < Stamp(q[i])
    OBVIOUS
  <2>1. PICK s \in Days : s = Stamp(q[i])
    BY <1>2, ElementOfSeq, ResultFields
  <2>2. s \in Nat /\ 0 < s
    BY DaysAreNumbers
  <2> QED
    BY <2>1, <2>2
<1>4. CASE handling' = AtRest \/ handling' = Done
  BY <1>4 DEF SweptBehind, AtRest, Done
<1>5. CASE /\ HasMessage("end") /\ list_databases # {}
           /\ handling' = [at |-> "sweep", left |-> Outdated(list_databases), next |-> 0]
           /\ UNCHANGED <<runs, messages, unpublished, finished, delivered, again, databases, locked, late>>
  <2>1. Queue' = q /\ Message' = Message /\ Message.type = "end"
    BY <1>2, <1>5 DEF Queue, Message, HasMessage
  <2>2. HandledOnce' = k
    BY <1>2, <1>5 DEF HandledOnce, HasMessage, AtRest
  <2>3. PICK n \in list_databases : n = Newest(list_databases) /\ \A d \in list_databases : d <= n
    BY <1>1, <1>5, NewestExists, DatabasesAreOfRuns
  <2>4. ASSUME NEW d \in Outdated(list_databases) \cup {0}, NEW i \in 1..Len(q), k < i
        PROVE  d < Stamp(q[i])
    <3>1. n <= Stamp(q[i])
      <4>1. FilledBy(databases, Stamp(q[i]))
        BY <1>1, <1>2, <2>4 DEF RunsKept, NotOlder
      <4> QED
        BY <2>3, <4>1 DEF FilledBy, list_databases
    <3>2. n \in Nat /\ (d \in Outdated(list_databases) => d \in Nat /\ d <= n /\ d # n)
      BY <2>3, DaysAreNumbers DEF Outdated, list_databases
    <3>3. d = 0 => d < Stamp(q[i])
      BY <1>3
    <3> QED
      BY <1>3, <2>4, <3>1, <3>2, <3>3
  <2>5. \A d \in handling'.left \cup {handling'.next} : d \in Outdated(list_databases) \cup {0}
    BY <1>5
  <2> QED
    BY <2>1, <2>2, <2>4, <2>5 DEF SweptBehind
<1>6. CASE /\ handling.at = "sweep"
           /\ \/ \E d \in handling.left : handling' = [at |-> "sweep", left |-> handling.left \ {d},
                                                       next |-> IF d \in locked THEN 0 ELSE d]
              \/ handling' = [handling EXCEPT !.next = 0]
           /\ UNCHANGED <<messages, unpublished, finished, again>>
  <2>1. Queue' = q /\ Message' = Message /\ Message.type = "end"
    BY <1>1, <1>2, <1>6 DEF Queue, Message, SweptBehind
  <2>2. /\ handling'.at = "sweep"
        /\ \A d \in handling'.left \cup {handling'.next} : d = 0 \/ d \in handling.left
    <3>1. handling \in [at : {"sweep"}, left : SUBSET (1..runs), next : 0..runs]
      BY <1>1, <1>6 DEF StatsTypes, SweepOK, AtRest, Done
    <3> QED
      BY <1>6, <3>1
  <2>3. HandledOnce' = k
    BY <1>2, <1>6, <2>2 DEF HandledOnce
  <2>4. \A d \in handling.left, i \in 1..Len(q) : k < i => d < Stamp(q[i])
    BY <1>1, <1>2, <1>6 DEF SweptBehind
  <2> QED
    BY <1>3, <2>1, <2>2, <2>3, <2>4 DEF SweptBehind
<1>7. CASE /\ UNCHANGED handling /\ Message' = Message
           /\ StartRun \/ Publish \/ RunFails \/ on_iteration \/ SparkReader_callback \/ Read \/ Dump
  <2> SUFFICES ASSUME handling.at = "sweep", NEW d \in handling.left \cup {handling.next},
                      NEW i \in 1..Len(Queue'), HandledOnce' < i
               PROVE  Message.type = "end" /\ d < Stamp(Queue'[i])
    <3>1. handling.at = "sweep" => Message.type = "end"
      BY <1>1 DEF SweptBehind
    <3> QED
      BY <1>7, <3>1 DEF SweptBehind
  <2>1. Message.type = "end" /\ \A e \in 1..Len(q) : k < e => d < Stamp(q[e])
    BY <1>1, <1>2 DEF SweptBehind
  <2>2. CASE Stamp(Queue'[i]) = runs + 1
    <3>1. d \in 0..runs /\ runs \in Nat
      BY <1>1, HandlingIs, DatabasesAreOfRuns
    <3> QED
      BY <2>1, <2>2, <3>1
  <2>3. CASE \E e \in 1..Len(Queue) : HandledOnce < e /\ Queue[e] = Queue'[i]
    BY <1>2, <2>1, <2>3
  <2> QED
    BY <1>1, <1>7, <2>2, <2>3, StillToCome
<1> QED
  BY <1>1, <1>4, <1>5, <1>6, <1>7, HandlingEffect

-----------------------------------------------------------------------------
(* The statistics that are read. *)

\* A read that begins has the newest document of the user to ask for.
LEMMA BegunRead ==
  ASSUME StatsTypes, NEW u \in Users, fetch_data(u), UNCHANGED databases
  PROVE  ReadKept'
<1>1. read' = [at |-> "ask", user |-> u, left |-> list_databases, crossed |-> FALSE, had |-> latest(u),
               holder |-> IF holders(u) = {} THEN 0 ELSE Newest(holders(u))]
  BY DEF fetch_data
<1>2. read'.at = "ask" /\ read'.user = u /\ read'.left = list_databases /\ read'.had = latest(u)
  BY <1>1
<1>3. CASE latest(u) = None
  BY <1>2, <1>3 DEF ReadKept
<1>4. CASE latest(u) # None
  <2>1. PICK h \in holders(u) : /\ h = Newest(holders(u)) /\ \A d \in holders(u) : d <= h
                                /\ latest(u) = databases[h][u] /\ holders(u) # {}
    BY <1>4, LatestIs
  <2>2. read'.holder = h
    BY <1>1, <2>1
  <2>3. h \in list_databases /\ h \in Nat /\ databases[h] # Absent /\ databases[h][u] # None /\ databases[h][u] \in Days
    BY <2>1, LatestIs, DaysAreNumbers DEF holders
  <2>4. ASSUME NEW d \in list_databases, h <= d, databases[d] # Absent, databases[d][u] # None
        PROVE  databases[h][u] <= databases[d][u]
    <3>1. d \in holders(u) /\ d \in Nat
      BY <2>4, DaysAreNumbers DEF holders, list_databases
    <3>2. d = h
      BY <2>1, <2>3, <2>4, <3>1
    <3>3. PICK v : v = databases[h][u] /\ v \in Nat
      BY <2>3, DaysAreNumbers
    <3>4. v <= v
      BY <3>3
    <3> QED
      BY <3>2, <3>3, <3>4
  <2> QED
    BY <1>2, <2>1, <2>2, <2>3, <2>4 DEF ReadKept
<1> QED
  BY <1>3, <1>4

NotAnsweredOlder == read'.at = "answered" => read.crossed \/ ~Older(read'.answer, read.had)

\* The newest of the databases is asked, or there is none left.
LEMMA AskedRead ==
  ASSUME StatsTypes, ReadKept, get_document \/ nothing_found
  PROVE  ReadKept' /\ NotAnsweredOlder
<1>1. read.at = "ask" /\ read \in Asking /\ UNCHANGED databases
  BY DEF StatsTypes, ReadOK, AtRest, get_document, nothing_found, couch
<1>2. PICK u \in Users : u = read.user
  BY <1>1 DEF Asking
<1>3. \A d \in Days : databases[d] # Absent => databases[d][u] \in {None} \cup Days
  BY CouchFields DEF StatsTypes, CouchOK
<1>4. read.had \in {None} \cup Days /\ read.left \in SUBSET Days
  BY <1>1 DEF Asking
<1>5. CASE read.crossed
  BY <1>1, <1>5 DEF Asking, ReadKept, NotAnsweredOlder, get_document, nothing_found, Answered
<1>6. ASSUME NEW document \in {None} \cup Days, Answered(document),
             read.had # None /\ ~read.crossed => document # None /\ read.had <= document
      PROVE  ReadKept' /\ NotAnsweredOlder
  <2>1. read'.at = "answered" /\ read'.answer = document
    BY <1>6 DEF Answered
  <2>2. read.crossed \/ ~Older(document, read.had)
    <3>1. PICK had : had = read.had
      OBVIOUS
    <3>2. CASE had # None /\ ~read.crossed
      <4>1. had \in Nat /\ document \in Nat /\ had <= document /\ document # None
        BY <1>4, <1>6, <3>1, <3>2, DaysAreNumbers
      <4>2. ~(document < had)
        BY <4>1
      <4> QED
        BY <3>1, <4>1, <4>2 DEF Older
    <3>3. CASE had = None
      BY <3>1, <3>3 DEF Older
    <3> QED
      BY <3>1, <3>2, <3>3
  <2> QED
    BY <2>1, <2>2 DEF ReadKept, NotAnsweredOlder
<1>7. CASE ~read.crossed /\ nothing_found
  <2>1. read.left = {} /\ Answered(None)
    BY <1>7 DEF nothing_found
  <2>2. read.had = None
    BY <1>1, <1>7, <2>1 DEF ReadKept
  <2> QED
    BY <1>6, <2>1, <2>2
<1>8. CASE ~read.crossed /\ get_document
  <2>1. PICK d \in read.left : d = Newest(read.left) /\ \A e \in read.left : e <= d
    BY <1>4, <1>8, NewestExists DEF get_document
  <2>2. PICK document \in {None} \cup Days :
           /\ document = IF databases[d] = Absent THEN None ELSE databases[d][u]
           /\ document = None => read' = [read EXCEPT !.left = @ \ {d}]
           /\ document # None => Answered(document)
    BY <1>2, <1>3, <1>4, <1>8, <2>1 DEF get_document
  <2>3. read.had # None => /\ read.holder \in read.left
                           /\ databases[read.holder] # Absent /\ databases[read.holder][u] # None
                           /\ \A e \in read.left :
                                 read.holder <= e /\ databases[e] # Absent /\ databases[e][u] # None =>
                                    read.had <= databases[e][u]
    BY <1>1, <1>2, <1>8 DEF ReadKept
  <2>4. CASE document = None
    <3>1. read' = [read EXCEPT !.left = @ \ {d}]
      BY <2>2, <2>4
    <3>2. /\ read'.at = "ask" /\ read'.user = u /\ read'.had = read.had /\ read'.holder = read.holder
          /\ read'.left = read.left \ {d}
      BY <1>1, <1>2, <3>1 DEF Asking
    <3>3. databases[d] = Absent \/ databases[d][u] = None
      BY <2>2, <2>4
    <3>4. read.had # None => read.holder # d
      BY <2>3, <3>3
    <3> QED
      BY <1>1, <2>3, <3>2, <3>4 DEF ReadKept, NotAnsweredOlder
  <2>5. CASE document # None
    <3>1. databases[d] # Absent /\ databases[d][u] = document
      BY <2>2, <2>5
    <3>2. read.had # None => read.had <= document
      BY <2>1, <2>3, <2>5, <3>1
    <3> QED
      BY <1>6, <2>2, <2>5, <3>2
  <2> QED
    BY <2>4, <2>5
<1> QED
  BY <1>5, <1>7, <1>8

\* The databases grow while the read waits: what is handled for the first time is not older than their documents.
LEMMA GrownRead ==
  ASSUME StatsTypes, RunsKept(Queue, HandledOnce, databases, counted, missed), ReadKept, UNCHANGED read,
         \/ HasMessage("start") /\ databases' = Creation(databases, Message.day)
         \/ /\ HasMessage("data") /\ Target(Message) \in list_databases /\ ~Repeated
            /\ \E some \in SUBSET Message.users :
                  databases' = Insertion(databases, Target(Message), some, Message.run)
  PROVE  ReadKept'
<1> SUFFICES ASSUME read.at = "ask", ~read.crossed, read.had # None
             PROVE  /\ read.holder \in read.left
                    /\ databases'[read.holder] # Absent /\ databases'[read.holder][read.user] # None
                    /\ \A d \in read.left :
                          read.holder <= d /\ databases'[d] # Absent /\ databases'[d][read.user] # None =>
                             read.had <= databases'[d][read.user]
  BY DEF ReadKept
<1>1. PICK u, h, db, db2 : u = read.user /\ h = read.holder /\ db = databases /\ db2 = databases'
  OBVIOUS
<1>2. /\ u \in Users /\ read.left \in SUBSET Days /\ read.had \in Days /\ db \in Couch
  BY <1>1 DEF StatsTypes, ReadOK, AtRest, Asking, CouchOK
<1>3. /\ h \in read.left /\ db[h] # Absent /\ db[h][u] # None
      /\ \A d \in read.left : h <= d /\ db[d] # Absent /\ db[d][u] # None => read.had <= db[d][u]
  BY <1>1 DEF ReadKept
<1>4. finished < delivered
  BY DEF HasMessage
<1>5. CASE HasMessage("start") /\ databases' = Creation(databases, Message.day)
  <2>1. PICK m \in Days : m = Message.day
    BY <1>5, CreationFills DEF HasMessage
  <2>2. /\ \A e \in Days : db2[e] # Absent <=> e = m \/ db[e] # Absent
        /\ \A e \in Days : db[e] # Absent => db2[e] = db[e]
        /\ db[m] = Absent => \A v \in Users : db2[m][v] = None
    BY <1>1, <1>2, <1>5, <2>1, Created
  <2> QED
    BY <1>1, <1>2, <1>3, <2>2
<1>6. CASE /\ HasMessage("data") /\ Target(Message) \in list_databases /\ ~Repeated
           /\ \E some \in SUBSET Message.users :
                 databases' = Insertion(databases, Target(Message), some, Message.run)
  <2>1. PICK t, r, some : /\ t = Target(Message) /\ r = Message.run /\ some \in Shares /\ t \in Days /\ r \in Days
                          /\ db[t] # Absent /\ db2 = Insertion(db, t, some, r) /\ Stamp(Message) = r
    <3>1. PICK some \in SUBSET Message.users : databases' = Insertion(databases, Target(Message), some, Message.run)
      BY <1>6
    <3>2. Message.users \in SUBSET Users /\ Message.run \in Days /\ Stamp(Message) = Message.run
      BY <1>4, <1>6, NextMessage, ResultFields DEF StatsTypes, HasMessage
    <3> QED
      BY <1>1, <1>6, <3>1, <3>2 DEF Shares, list_databases
  <2>2. /\ db2 \in Couch
        /\ \A e \in Days : db2[e] # Absent <=> db[e] # Absent
        /\ \A e \in Days : e # t => db2[e] = db[e]
        /\ \A v \in some : db2[t][v] = r
        /\ \A v \in Users \ some : db2[t][v] = db[t][v]
    BY <1>2, <2>1, Inserted
  <2>3. r # None /\ r \in Nat
    BY <2>1, NoneAssumption, DaysAreNumbers
  <2>4. FilledBy(db, r)
    <3>1. HandledOnce = finished /\ finished \in Nat
      BY <1>6, HandledIs DEF HasMessage, AtRest, StatsTypes, StreamOK
    <3>2. finished + 1 \in 1..Len(Queue) /\ Queue[finished + 1] = Message /\ finished < finished + 1
      BY <1>4, <3>1, NextMessage DEF StatsTypes
    <3> QED
      BY <1>1, <2>1, <3>1, <3>2 DEF RunsKept, NotOlder
  <2>5. read.had <= r
    <3>1. h \in Days /\ db[h][u] \in Nat /\ db[h][u] <= r
      BY <1>2, <1>3, <2>4, CouchFields, DaysAreNumbers DEF FilledBy
    <3>2. h <= h
      BY <3>1, DaysAreNumbers
    <3>3. PICK v, had : v = db[h][u] /\ had = read.had /\ v \in Nat /\ v <= r /\ had <= v
      BY <1>3, <3>1, <3>2
    <3>4. had \in Nat
      BY <1>2, <3>3, DaysAreNumbers
    <3>5. had <= r
      BY <2>3, <3>3, <3>4
    <3> QED
      BY <3>3, <3>5
  <2>6. db2[h] # Absent /\ db2[h][u] # None
    BY <1>2, <1>3, <2>2, <2>3
  <2>7. ASSUME NEW d \in read.left, h <= d, db2[d] # Absent, db2[d][u] # None
        PROVE  read.had <= db2[d][u]
    <3>1. CASE d = t /\ u \in some
      BY <2>2, <2>5, <3>1
    <3>2. CASE ~(d = t /\ u \in some)
      <4>1. db[d] # Absent /\ db2[d][u] = db[d][u]
        BY <1>2, <2>2, <2>7, <3>2
      <4> QED
        BY <1>3, <2>7, <4>1
    <3> QED
      BY <3>1, <3>2
  <2> QED
    BY <1>1, <1>3, <2>6, <2>7
<1> QED
  BY <1>5, <1>6

\* A read that is crossed promises nothing, and other databases than the one that is deleted stay.
LEMMA CrossedRead ==
  ASSUME StatsTypes, read.at = "ask", read' = [read EXCEPT !.crossed = TRUE]
  PROVE  ReadKept'
<1>1. read \in Asking
  BY DEF StatsTypes, ReadOK, AtRest
<1>2. read'.at = "ask" /\ read'.crossed
  BY <1>1 DEF Asking
<1> QED
  BY <1>2 DEF ReadKept

LEMMA DeletedRead ==
  ASSUME StatsTypes, ReadKept, delete_database
  PROVE  ReadKept'
<1>1. PICK d \in Days : /\ d = handling.next
                        /\ \A e \in Days : e # d => databases'[e] = databases[e]
                        /\ databases'[d] = Absent
  BY DeletedStep
<1>2. read' = IF read.at = "ask" /\ read.holder = d THEN Crossed ELSE read
  BY <1>1 DEF delete_database
<1>3. CASE read.at = "ask" /\ read.holder = d
  <2>1. read' = [read EXCEPT !.crossed = TRUE]
    BY <1>2, <1>3 DEF Crossed
  <2> QED
    BY <1>3, <2>1, CrossedRead
<1>4. CASE ~(read.at = "ask" /\ read.holder = d)
  <2>1. read' = read
    BY <1>2, <1>4
  <2>2. read.at = "ask" => read.left \in SUBSET Days
    BY DEF StatsTypes, ReadOK, AtRest, Asking
  <2> QED
    BY <1>1, <1>4, <2>1, <2>2 DEF ReadKept
<1> QED
  BY <1>3, <1>4

\* Only the answer of a database, or that there is none left to ask, ends a read.
LEMMA OnlyAsked ==
  ASSUME StatsTypes, StatsNext, read.at = "ask", read'.at = "answered"
  PROVE  get_document \/ nothing_found
<1>1. read \in Asking
  BY DEF StatsTypes, ReadOK, AtRest
<1>2. read' # read /\ read' # [read EXCEPT !.crossed = TRUE]
  BY <1>1 DEF Asking
<1>3. ~(Cluster \/ SparkReader_callback \/ on_iteration \/ Faults \/ Dump)
  BY <1>2 DEF Cluster, StartRun, Publish, RunFails, SparkReader_callback, on_iteration, Faults, ThreadDies, RunRaises,
              Restart, Redelivered, Dump, dump_database, lock_database, unlock_database, DumpKilled
<1>4. ~Handle
  BY <1>2 DEF Handle, CouchDbDataset_handle_start, StatsDataset_handle_insert, CouchDbDataset_handle_end,
              check_database_lock, delete_database, SweepEnds, process_message, Crossed
<1>5. \A u \in Readers : ~fetch_data(u)
  BY DEF fetch_data
<1> QED
  BY <1>3, <1>4, <1>5 DEF StatsNext, Reader, Read

LEMMA ReadKeptStep ==
  ASSUME StatsInv, StatsNext
  PROVE  ReadKept'
<1>1. StatsTypes /\ ReadKept /\ RunsKept(Queue, HandledOnce, databases, counted, missed)
  BY DEF StatsInv
<1>2. CASE UNCHANGED <<read, databases>>
  BY <1>1, <1>2 DEF ReadKept
<1>3. ASSUME NEW u \in Readers, fetch_data(u) PROVE ReadKept'
  <2>1. u \in Users /\ UNCHANGED databases
    BY <1>3, ReadersAssumption DEF fetch_data, couch
  <2> QED
    BY <1>1, <1>3, <2>1, BegunRead
<1>4. CASE get_document \/ nothing_found
  BY <1>1, <1>4, AskedRead
<1>5. CASE delete_database
  BY <1>1, <1>5, DeletedRead
<1>6. CASE CouchDbDataset_handle_start
  <2>1. UNCHANGED read /\ HasMessage("start")
        /\ (databases' = Creation(databases, Message.day) \/ UNCHANGED databases)
    BY <1>6 DEF CouchDbDataset_handle_start, Creation
  <2> QED
    BY <1>1, <1>2, <2>1, GrownRead
<1>7. CASE StatsDataset_handle_insert
  <2>1. /\ HasMessage("data") /\ read' = IF Repeated THEN Crossed ELSE read
        /\ \/ UNCHANGED databases
           \/ /\ Target(Message) \in list_databases
              /\ \E some \in SUBSET Message.users :
                    databases' = Insertion(databases, Target(Message), some, Message.run)
    <3>1. PICK some \in SUBSET Message.users :
             /\ some # {} => Stored(Message)
             /\ databases' = IF some = {} THEN databases
                             ELSE [databases EXCEPT ![Target(Message)] =
                                      [u \in Users |-> IF u \in some THEN Message.run ELSE @[u]]]
      BY <1>7 DEF StatsDataset_handle_insert
    <3>2. HasMessage("data") /\ read' = IF Repeated THEN Crossed ELSE read
      BY <1>7 DEF StatsDataset_handle_insert
    <3>3. CASE some = {}
      BY <3>1, <3>2, <3>3
    <3>4. CASE some # {}
      <4>1. Target(Message) \in list_databases
        BY <3>1, <3>4 DEF Stored
      <4>2. databases' = Insertion(databases, Target(Message), some, Message.run)
        BY <1>1, <3>1, <3>4, <4>1 DEF Insertion, StatsTypes, CouchOK, Couch, list_databases
      <4> QED
        BY <3>2, <4>1, <4>2
    <3> QED
      BY <3>3, <3>4
  <2>2. CASE Repeated /\ read.at = "ask"
    <3>1. read' = [read EXCEPT !.crossed = TRUE]
      BY <2>1, <2>2 DEF Crossed
    <3> QED
      BY <1>1, <2>2, <3>1, CrossedRead
  <2>3. CASE read.at # "ask"
    <3>1. read' = read
      BY <2>1, <2>3 DEF Crossed
    <3> QED
      BY <1>1, <2>3, <3>1 DEF ReadKept
  <2>4. CASE ~Repeated
    BY <1>1, <1>2, <2>1, <2>4, GrownRead
  <2> QED
    BY <2>2, <2>3, <2>4
<1>8. CASE \/ Cluster \/ SparkReader_callback \/ on_iteration \/ Faults \/ Dump
           \/ CouchDbDataset_handle_end \/ check_database_lock \/ SweepEnds \/ process_message
  <2>1. UNCHANGED <<read, databases>>
    BY <1>8 DEF Cluster, StartRun, Publish, RunFails, SparkReader_callback, on_iteration, Faults, ThreadDies, RunRaises,
                Restart, Redelivered, Dump, dump_database, lock_database, unlock_database, DumpKilled,
                CouchDbDataset_handle_end, check_database_lock, SweepEnds, process_message, couch
  <2> QED
    BY <1>2, <2>1
<1> QED
  BY <1>3, <1>4, <1>5, <1>6, <1>7, <1>8 DEF StatsNext, Reader, Handle, Read

LEMMA StatsInvStep == StatsInv /\ [StatsNext]_statsVars => StatsInv'
<1> SUFFICES ASSUME StatsInv, [StatsNext]_statsVars PROVE StatsInv'
  OBVIOUS
<1>1. CASE UNCHANGED statsVars
  <2>1. UNCHANGED <<runs, unpublished, counted, messages, delivered, finished, thread, executors, handling, databases,
                    locked, read, dump, errors, missed, again, lost, late>>
    BY <1>1 DEF statsVars, cluster, reader, couch, faults
  <2>2. StatsTypes'
    <3>1. StreamOK'
      BY <2>1 DEF StatsInv, StatsTypes, StreamOK, Queue
    <3>2. CouchOK'
      BY <2>1 DEF StatsInv, StatsTypes, CouchOK, list_databases
    <3>3. SweepOK' /\ ReadOK'
      BY <2>1 DEF StatsInv, StatsTypes, SweepOK, ReadOK
    <3> QED
      BY <3>1, <3>2, <3>3 DEF StatsTypes
  <2>3. Queue' = Queue /\ HandledOnce' = HandledOnce /\ Message' = Message
    BY <2>1 DEF Queue, HandledOnce, Message
  <2>4. RunsKept(Queue, HandledOnce, databases, counted, missed)'
    BY <2>1, <2>3 DEF StatsInv
  <2>5. SweptBehind'
    BY <2>1, <2>3 DEF StatsInv, SweptBehind
  <2>6. ReadKept'
    BY <2>1 DEF StatsInv, ReadKept
  <2> QED
    BY <2>2, <2>4, <2>5, <2>6 DEF StatsInv
<1>2. CASE StatsNext
  <2>1. StatsTypes'
    BY <1>2, StreamStep, CouchStep, SweepStep, ReadStep DEF StatsInv, StatsTypes
  <2> QED
    BY <1>2, <2>1, RunsKeptStep, SweptBehindStep, ReadKeptStep DEF StatsInv
<1> QED
  BY <1>1, <1>2

\* The reader's lists are parts of the queue, the databases and what is on the way to them are of runs that there
\* were, a database that is locked exists, and one that the sweep is about to delete was locked, if it is, after the
\* look for a LOCK.
THEOREM StatsTypeCorrect == StatsSpec => [](StatsTypeOK /\ StatsTypes)
<1>1. StatsInv => StatsTypeOK /\ StatsTypes
  <2> SUFFICES ASSUME StatsInv PROVE StatsTypeOK
    BY DEF StatsInv
  <2>1. /\ runs \in 0..MaxRuns /\ finished \in Nat /\ finished <= delivered /\ delivered <= Len(messages)
        /\ again <= Len(messages)
        /\ databases \in Couch /\ FilledBy(databases, runs) /\ locked \subseteq list_databases
        /\ dump \in {AtRest} \cup [at : {"lock", "read"}, day : Days]
    BY DEF StatsInv, StatsTypes, StreamOK, CouchOK, SweepOK
  <2>2. ASSUME NEW d \in Days, databases[d] # Absent
        PROVE  databases[d] \in [Users -> {None} \cup 1..runs]
    <3>1. databases[d] \in [Users -> {None} \cup Days]
      BY <2>1, <2>2, CouchFields
    <3>2. ASSUME NEW u \in Users PROVE databases[d][u] \in {None} \cup 1..runs
      <4>1. databases[d][u] = None \/ (databases[d][u] \in Days /\ databases[d][u] <= runs)
        BY <2>1, <2>2, <3>1 DEF FilledBy
      <4> QED
        BY <2>1, <4>1, RunsAssumption DEF Days
    <3> QED
      BY <3>1, <3>2
  <2>3. dump.at = "lock" => dump.day \in Days
    BY <2>1 DEF AtRest
  <2> QED
    BY <2>1, <2>2, <2>3 DEF StatsTypeOK
<1> QED
  BY <1>1, StatsStart, StatsInvStep, PTL DEF StatsSpec

-----------------------------------------------------------------------------
(* The newest documents. *)

HoldersOf(couchdb, u) == {d \in Days : couchdb[d] # Absent /\ couchdb[d][u] # None}

LatestOf(couchdb, u) ==
    IF HoldersOf(couchdb, u) = {} THEN None ELSE couchdb[Newest(HoldersOf(couchdb, u))][u]

LEMMA LatestAre == \A u \in Users : latest(u) = LatestOf(databases, u) /\ latest(u)' = LatestOf(databases', u)
<1>1. ASSUME NEW u \in Users PROVE holders(u) = HoldersOf(databases, u) /\ holders(u)' = HoldersOf(databases', u)
  BY DEF holders, HoldersOf, list_databases
<1>2. ASSUME NEW u \in Users PROVE latest(u) = LatestOf(databases, u)
  BY <1>1 DEF latest, LatestOf
<1>3. ASSUME NEW u \in Users PROVE latest(u)' = LatestOf(databases', u)
  BY <1>1 DEF latest, LatestOf
<1> QED
  BY <1>2, <1>3

\* The newest document stays or gets newer if its database does, and those after it have none older.
LEMMA LatestKept ==
  ASSUME NEW couchdb \in Couch, NEW couchdb2 \in Couch, NEW u \in Users,
         \A h \in HoldersOf(couchdb, u) : (\A e \in HoldersOf(couchdb, u) : e <= h) =>
            /\ h \in HoldersOf(couchdb2, u)
            /\ \A e \in HoldersOf(couchdb2, u) : h <= e => couchdb[h][u] <= couchdb2[e][u]
  PROVE  ~Older(LatestOf(couchdb2, u), LatestOf(couchdb, u))
<1>1. /\ HoldersOf(couchdb, u) \in SUBSET Days /\ HoldersOf(couchdb2, u) \in SUBSET Days
      /\ \A d \in HoldersOf(couchdb, u) : couchdb[d][u] \in Nat /\ couchdb[d][u] # None /\ d \in Nat
      /\ \A d \in HoldersOf(couchdb2, u) : couchdb2[d][u] \in Nat /\ couchdb2[d][u] # None /\ d \in Nat
  BY CouchFields, DaysAreNumbers DEF HoldersOf
<1>2. CASE HoldersOf(couchdb, u) = {}
  BY <1>2 DEF LatestOf, Older
<1>3. CASE HoldersOf(couchdb, u) # {}
  <2>1. PICK h \in HoldersOf(couchdb, u) : /\ h = Newest(HoldersOf(couchdb, u))
                                           /\ \A e \in HoldersOf(couchdb, u) : e <= h
    BY <1>1, <1>3, NewestExists
  <2>2. h \in HoldersOf(couchdb2, u) /\ \A e \in HoldersOf(couchdb2, u) : h <= e => couchdb[h][u] <= couchdb2[e][u]
    BY <2>1
  <2>3. PICK n \in HoldersOf(couchdb2, u) : /\ n = Newest(HoldersOf(couchdb2, u))
                                            /\ \A e \in HoldersOf(couchdb2, u) : e <= n
    BY <1>1, <2>2, NewestExists
  <2>4. PICK a, b : a = couchdb2[n][u] /\ b = couchdb[h][u] /\ a \in Nat /\ b \in Nat /\ b <= a /\ a # None
    BY <1>1, <2>1, <2>2, <2>3
  <2>5. LatestOf(couchdb2, u) = a /\ LatestOf(couchdb, u) = b
    BY <1>3, <2>1, <2>2, <2>3, <2>4 DEF LatestOf
  <2>6. ~(a < b)
    BY <2>4
  <2> QED
    BY <2>4, <2>5, <2>6 DEF Older
<1> QED
  BY <1>2, <1>3

\* A database that is created changes nothing.
LEMMA LatestCreated ==
  ASSUME NEW couchdb \in Couch, NEW d \in Days, NEW couchdb2, couchdb2 = Creation(couchdb, d), NEW u \in Users
  PROVE  ~Older(LatestOf(couchdb2, u), LatestOf(couchdb, u))
<1>1. /\ couchdb2 \in Couch
      /\ \A e \in Days : couchdb2[e] # Absent <=> e = d \/ couchdb[e] # Absent
      /\ \A e \in Days : couchdb[e] # Absent => couchdb2[e] = couchdb[e]
      /\ couchdb[d] = Absent => \A v \in Users : couchdb2[d][v] = None
  BY Created
<1>2. HoldersOf(couchdb2, u) = HoldersOf(couchdb, u)
  BY <1>1 DEF HoldersOf
<1>3. \A e \in HoldersOf(couchdb, u) : couchdb2[e] = couchdb[e]
  BY <1>1 DEF HoldersOf
<1>4. LatestOf(couchdb2, u) = LatestOf(couchdb, u)
  <2>1. CASE HoldersOf(couchdb, u) = {}
    BY <1>2, <2>1 DEF LatestOf
  <2>2. CASE HoldersOf(couchdb, u) # {}
    <3>1. Newest(HoldersOf(couchdb, u)) \in HoldersOf(couchdb, u)
      BY <2>2, NewestExists DEF HoldersOf
    <3> QED
      BY <1>2, <1>3, <2>2, <3>1 DEF LatestOf
  <2> QED
    BY <2>1, <2>2
<1> QED
  BY <1>4 DEF Older

\* Data that are not older than the documents make nothing older.
LEMMA LatestInserted ==
  ASSUME NEW couchdb \in Couch, NEW d \in Days, couchdb[d] # Absent, NEW users \in Shares, NEW r \in Days,
         FilledBy(couchdb, r), NEW couchdb2, couchdb2 = Insertion(couchdb, d, users, r), NEW u \in Users
  PROVE  ~Older(LatestOf(couchdb2, u), LatestOf(couchdb, u))
<1>1. /\ couchdb2 \in Couch
      /\ \A e \in Days : couchdb2[e] # Absent <=> couchdb[e] # Absent
      /\ \A e \in Days : e # d => couchdb2[e] = couchdb[e]
      /\ \A v \in users : couchdb2[d][v] = r
      /\ \A v \in Users \ users : couchdb2[d][v] = couchdb[d][v]
  BY Inserted
<1>2. r # None
  BY NoneAssumption, DaysAreNumbers
<1> SUFFICES ASSUME NEW h \in HoldersOf(couchdb, u), \A e \in HoldersOf(couchdb, u) : e <= h
             PROVE  /\ h \in HoldersOf(couchdb2, u)
                    /\ \A e \in HoldersOf(couchdb2, u) : h <= e => couchdb[h][u] <= couchdb2[e][u]
  BY <1>1, LatestKept
<1>3. h \in HoldersOf(couchdb2, u)
  BY <1>1, <1>2 DEF HoldersOf
<1>4. ASSUME NEW e \in HoldersOf(couchdb2, u), h <= e
      PROVE  couchdb[h][u] <= couchdb2[e][u]
  <2>1. e \in Days /\ h \in Days
    BY DEF HoldersOf
  <2>2. CASE e = d /\ u \in users
    BY <1>1, <2>1, <2>2 DEF FilledBy, HoldersOf
  <2>3. CASE ~(e = d /\ u \in users)
    <3>1. e \in HoldersOf(couchdb, u) /\ couchdb2[e][u] = couchdb[e][u]
      BY <1>1, <2>1, <2>3 DEF HoldersOf
    <3>2. e = h
      BY <1>4, <2>1, <3>1, DaysAreNumbers
    <3>3. PICK x : x = couchdb[h][u] /\ x \in Nat
      BY CouchFields, DaysAreNumbers DEF HoldersOf
    <3>4. x <= x
      BY <3>3
    <3> QED
      BY <3>1, <3>2, <3>3, <3>4
  <2> QED
    BY <2>2, <2>3
<1> QED
  BY <1>3, <1>4

\* A database that is older than one with a document of the user does not matter.
LEMMA LatestDeleted ==
  ASSUME NEW couchdb \in Couch, NEW d \in Days, NEW couchdb2, couchdb2 = Deletion(couchdb, d), NEW u \in Users,
         NEW n \in HoldersOf(couchdb, u), d < n
  PROVE  ~Older(LatestOf(couchdb2, u), LatestOf(couchdb, u))
<1>1. couchdb2 \in Couch /\ couchdb2[d] = Absent /\ \A e \in Days : e # d => couchdb2[e] = couchdb[e]
  BY Deleted
<1> SUFFICES ASSUME NEW h \in HoldersOf(couchdb, u), \A e \in HoldersOf(couchdb, u) : e <= h
             PROVE  /\ h \in HoldersOf(couchdb2, u)
                    /\ \A e \in HoldersOf(couchdb2, u) : h <= e => couchdb[h][u] <= couchdb2[e][u]
  BY <1>1, LatestKept
<1>2. h \in Days /\ h \in Nat /\ n \in Nat /\ d \in Nat /\ n <= h
  BY DaysAreNumbers DEF HoldersOf
<1>3. h # d
  BY <1>2
<1>4. h \in HoldersOf(couchdb2, u)
  BY <1>1, <1>2, <1>3 DEF HoldersOf
<1>5. ASSUME NEW e \in HoldersOf(couchdb2, u), h <= e
      PROVE  couchdb[h][u] <= couchdb2[e][u]
  <2>1. e \in Days /\ e # d /\ e \in HoldersOf(couchdb, u) /\ couchdb2[e] = couchdb[e]
    BY <1>1 DEF HoldersOf
  <2>2. e = h
    BY <1>2, <1>5, <2>1, DaysAreNumbers
  <2>3. PICK x : x = couchdb[h][u] /\ x \in Nat
    BY CouchFields, DaysAreNumbers DEF HoldersOf
  <2>4. x <= x
    BY <2>3
  <2> QED
    BY <2>1, <2>2, <2>3, <2>4
<1> QED
  BY <1>4, <1>5

LEMMA StatsStayStep ==
  ASSUME StatsInv, [StatsNext]_statsVars, NEW u \in Users, ~Repeated,
         handling.at = "sweep" => u \in counted[Message.day] /\ <<Message.day, u>> \notin missed
  PROVE  ~Older(latest(u)', latest(u))
<1>1. StatsTypes /\ SweptBehind /\ RunsKept(Queue, HandledOnce, databases, counted, missed)
  BY DEF StatsInv
<1>2. PICK db, db2 : db = databases /\ db2 = databases' /\ db \in Couch
  BY <1>1 DEF StatsTypes, CouchOK
<1> SUFFICES ~Older(LatestOf(db2, u), LatestOf(db, u))
  BY <1>2, LatestAre
<1>3. CASE UNCHANGED databases
  BY <1>2, <1>3 DEF Older
<1>4. ASSUME finished < delivered, handling.at # "done"
      PROVE  /\ finished + 1 \in 1..Len(Queue) /\ Queue[finished + 1] = Message
             /\ HandledOnce = finished /\ finished \in Nat /\ FilledBy(db, Stamp(Message)) /\ Message \in Published
  <2>1. HandledOnce = finished /\ finished \in Nat
    BY <1>1, <1>4, HandledIs DEF StatsTypes, StreamOK
  <2>2. finished + 1 \in 1..Len(Queue) /\ Queue[finished + 1] = Message /\ Message \in Published
    BY <1>1, <1>4, NextMessage DEF StatsTypes
  <2>3. finished < finished + 1
    BY <2>1
  <2> QED
    BY <1>1, <1>2, <2>1, <2>2, <2>3 DEF RunsKept, NotOlder
<1>5. CASE HasMessage("start") /\ databases' = Creation(databases, Message.day)
  <2>1. Message.day \in Days
    BY <1>1, <1>5, CreationFills DEF HasMessage
  <2> QED
    BY <1>2, <1>5, <2>1, LatestCreated
<1>6. CASE /\ HasMessage("data") /\ Target(Message) \in list_databases
           /\ \E some \in SUBSET Message.users :
                 databases' = Insertion(databases, Target(Message), some, Message.run)
  <2>1. PICK some \in SUBSET Message.users : databases' = Insertion(databases, Target(Message), some, Message.run)
    BY <1>6
  <2>2. Message \in Published /\ FilledBy(db, Stamp(Message)) /\ Message.type = "data"
    BY <1>4, <1>6 DEF HasMessage, AtRest
  <2>3. PICK t, r : /\ t = Target(Message) /\ r = Message.run /\ t \in Days /\ r \in Days /\ some \in Shares
                    /\ db[t] # Absent /\ FilledBy(db, r)
    BY <1>2, <1>6, <2>2, ResultFields DEF Shares, list_databases
  <2>4. db2 = Insertion(db, t, some, r)
    BY <1>2, <2>1, <2>3
  <2> QED
    BY <1>2, <2>3, <2>4, LatestInserted
<1>7. CASE handling.at = "sweep" /\ handling.next # 0 /\ databases' = Deletion(databases, handling.next)
  <2>1. PICK d \in Days : d = handling.next /\ finished < delivered
    BY <1>1, <1>7, HandlingIs
  <2>2. PICK q, k, j, n : /\ q = Queue /\ k = finished /\ j = k + 1 /\ n = Message.day
                          /\ j \in 1..Len(q) /\ q[j] = Message /\ HandledOnce = k /\ k \in Nat /\ k < j
                          /\ n \in Days /\ Stamp(q[j]) = n /\ q[j].type = "end"
    <3>1. Message.type = "end" /\ Message \in Published
      BY <1>1, <1>4, <1>7, <2>1 DEF SweptBehind
    <3>2. Message.day \in Days /\ Stamp(Message) = Message.day
      BY <3>1, ResultFields
    <3>3. finished \in Nat /\ finished < finished + 1
      BY <1>4, <1>7, <2>1
    <3> QED
      BY <1>4, <1>7, <2>1, <3>1, <3>2, <3>3
  <2>3. d < n
    BY <1>1, <1>7, <2>1, <2>2 DEF SweptBehind
  <2>4. n \in HoldersOf(db, u)
    <3>1. u \in counted[n] /\ <<n, u>> \notin missed
      BY <1>7, <2>2
    <3>2. \A i \in 1..Len(q) : ~(k < i /\ i < j)
      BY <2>2
    <3>3. db[n] # Absent /\ db[n][u] # None
      BY <1>1, <1>2, <2>2, <3>1, <3>2 DEF RunsKept, Completed
    <3> QED
      BY <2>2, <3>3 DEF HoldersOf
  <2> QED
    BY <1>2, <1>7, <2>1, <2>3, <2>4, LatestDeleted
<1> QED
  <2>1. CASE UNCHANGED statsVars
    BY <1>3, <2>1 DEF statsVars, couch
  <2>2. CASE StatsNext
    BY <1>1, <1>3, <1>5, <1>6, <1>7, <2>2, DatabaseEffect
  <2> QED
    BY <2>1, <2>2

\* The stored statistics of a user neither vanish nor grow older, except where the run that has ended has none of the
\* user, or not all of its data were stored, and while messages are handled that were handled before: by the end of a
\* run its database holds whatever the run has, and only older ones are deleted, one at a time.
THEOREM StatsStayCorrect == StatsSpec => StatsStay
<1>1. StatsInv /\ [StatsNext]_statsVars
         => [\A u \in Users : Older(latest(u)', latest(u)) =>
                Repeated \/ (handling.at = "sweep" /\ NotInRun(u))]_statsVars
  BY StatsStayStep DEF NotInRun
<1> QED
  BY <1>1, StatsStart, StatsInvStep, PTL DEF StatsSpec, StatsStay

\* A reader that asks the databases one by one, from the newest to the oldest, while they are filled and deleted, is
\* not answered with older statistics than there were when it listed them, nor with none, unless the database that
\* it was to be answered from was deleted meanwhile, or data stored a second time.
THEOREM AnswersNotOlderCorrect == StatsSpec => AnswersNotOlder
<1>1. StatsInv /\ [StatsNext]_statsVars
         => [read.at = "ask" /\ read'.at = "answered" => read.crossed \/ ~Older(read'.answer, read.had)]_statsVars
  <2> SUFFICES ASSUME StatsInv, StatsNext, read.at = "ask", read'.at = "answered"
               PROVE  read.crossed \/ ~Older(read'.answer, read.had)
    OBVIOUS
  <2>1. get_document \/ nothing_found
    BY OnlyAsked DEF StatsInv
  <2>2. NotAnsweredOlder
    BY <2>1, AskedRead DEF StatsInv
  <2> QED
    BY <2>2 DEF NotAnsweredOlder
<1> QED
  BY <1>1, StatsStart, StatsInvStep, PTL DEF StatsSpec, AnswersNotOlder

\* A database that holds a LOCK is deleted only if it was locked after the sweep's look for a LOCK: the window between
\* check_database_lock and delete_database is the only one.
THEOREM LockedKeptCorrect == StatsSpec => LockedKept
<1>1. StatsInv /\ [StatsNext]_statsVars => [\A d \in locked : d \notin list_databases' => d \in late]_statsVars
  <2> SUFFICES ASSUME StatsInv, StatsNext, NEW d \in locked, d \notin list_databases' PROVE d \in late
    OBVIOUS
  <2>1. StatsTypes /\ d \in Days /\ databases[d] # Absent /\ databases'[d] = Absent /\ databases \in Couch
    BY DEF StatsInv, StatsTypes, CouchOK, list_databases
  <2>2. CASE HasMessage("start") /\ databases' = Creation(databases, Message.day)
    BY <2>1, <2>2, CreationFills DEF Grown, HasMessage
  <2>3. CASE /\ HasMessage("data") /\ Target(Message) \in list_databases
             /\ \E some \in SUBSET Message.users :
                   databases' = Insertion(databases, Target(Message), some, Message.run)
    BY <2>1, <2>3, InsertionFills DEF Grown, HasMessage
  <2>4. CASE handling.at = "sweep" /\ handling.next # 0 /\ databases' = Deletion(databases, handling.next)
    <3>1. d = handling.next
      BY <2>1, <2>4 DEF Couch, Deletion
    <3> QED
      BY <2>1, <2>4, <3>1 DEF StatsTypes, SweepOK
  <2> QED
    BY <2>1, <2>2, <2>3, <2>4, DatabaseEffect
<1> QED
  BY <1>1, StatsStart, StatsInvStep, PTL DEF StatsSpec, LockedKept

=============================================================================
