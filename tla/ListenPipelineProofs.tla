------------------------- MODULE ListenPipelineProofs -------------------------
(***************************************************************************)
(* Proofs about ListenPipeline.tla for any number of requests and writers, *)
(* batches of any length, and any number of failures, and, at the end,     *)
(* about ListensImporters.tla for pages of any size and any number of      *)
(* plays, tokens, requests and errors.                                     *)
(***************************************************************************)
EXTENDS ListenPipeline, ListensImporters, FiniteSetTheorems, SequenceTheorems, WellFoundedInduction, TLAPS

-----------------------------------------------------------------------------
(* The incoming queue.                                                     *)

\* What is left of a sequence without its first k elements.
LEMMA RestOf ==
  ASSUME NEW S, NEW s \in Seq(S), NEW k \in Nat, NEW rest, rest = SubSeq(s, k + 1, Len(s))
  PROVE  /\ rest \in Seq(S) /\ DOMAIN rest = 1..Len(rest)
         /\ Len(rest) = IF k < Len(s) THEN Len(s) - k ELSE 0
         /\ \A i \in 1..Len(rest) : rest[i] = s[k + i]
         /\ rest # <<>> <=> k < Len(s)
<1>1. Len(s) \in Nat /\ \A i \in 1..Len(s) : s[i] \in S
  BY LenProperties
<1>2. \A i \in (k + 1)..Len(s) : s[i] \in S
  BY <1>1
<1>3. /\ rest \in Seq(S)
      /\ Len(rest) = IF k + 1 <= Len(s) THEN Len(s) - (k + 1) + 1 ELSE 0
      /\ \A i \in 1..(Len(s) - (k + 1) + 1) : rest[i] = s[k + 1 + i - 1]
  BY <1>1, <1>2, SubSeqProperties
<1>4. Len(rest) = IF k < Len(s) THEN Len(s) - k ELSE 0
  BY <1>1, <1>3
<1>5. \A i \in 1..Len(rest) : i \in 1..(Len(s) - (k + 1) + 1) /\ k + 1 + i - 1 = k + i
  BY <1>1, <1>4
<1>6. rest # <<>> <=> Len(rest) # 0
  BY <1>3, EmptySeq
<1>7. rest # <<>> <=> k < Len(s)
  BY <1>1, <1>4, <1>6
<1>8. \A i \in 1..Len(rest) : rest[i] = s[k + i]
  BY <1>3, <1>5
<1> QED
  BY <1>3, <1>4, <1>7, <1>8, LenProperties

\* The next chunk of a request is not empty, and it and the rest are what was left.
LEMMA ChunkOf ==
  ASSUME PartsOK, NEW c \in Clients, api[c] = "sending"
  PROVE  /\ NextChunk(c) \in Seq(Listens) \ {<<>>}
         /\ SubSeq(left[c], MessageSize + 1, Len(left[c])) \in Seq(Listens)
         /\ SubSeq(left[c], MessageSize + 1, Len(left[c])) # <<>> <=> Len(left[c]) > MessageSize
         /\ ToSet(left[c]) = ToSet(NextChunk(c)) \cup ToSet(SubSeq(left[c], MessageSize + 1, Len(left[c])))
<1> DEFINE s == left[c]
           n == IF Len(s) < MessageSize THEN Len(s) ELSE MessageSize
           chunk == SubSeq(s, 1, n)
           rest == SubSeq(s, MessageSize + 1, Len(s))
<1>1. s \in Seq(Listens) /\ s # <<>>
  BY DEF PartsOK, RequestsOK
<1>2. Len(s) \in Nat \ {0} /\ DOMAIN s = 1..Len(s) /\ \A i \in 1..Len(s) : s[i] \in Listens
  BY <1>1
<1>3. MessageSize \in Nat \ {0} /\ n \in 1..Len(s)
  BY <1>2, SizesAssumption
<1> HIDE DEF s
<1>4. /\ chunk \in Seq(Listens) /\ Len(chunk) = n /\ DOMAIN chunk = 1..n
      /\ \A i \in 1..n : chunk[i] = s[i]
  BY <1>2, <1>3
<1>5. /\ rest \in Seq(Listens) /\ DOMAIN rest = 1..Len(rest)
      /\ Len(rest) = IF MessageSize < Len(s) THEN Len(s) - MessageSize ELSE 0
      /\ \A i \in 1..Len(rest) : rest[i] = s[MessageSize + i]
      /\ rest # <<>> <=> MessageSize < Len(s)
  <2>1. \A r : r = SubSeq(s, MessageSize + 1, Len(s)) =>
           /\ r \in Seq(Listens) /\ DOMAIN r = 1..Len(r)
           /\ Len(r) = IF MessageSize < Len(s) THEN Len(s) - MessageSize ELSE 0
           /\ \A i \in 1..Len(r) : r[i] = s[MessageSize + i]
           /\ r # <<>> <=> MessageSize < Len(s)
    BY <1>1, <1>3, RestOf
  <2> HIDE DEF rest
  <2>2. rest = SubSeq(s, MessageSize + 1, Len(s))
    BY DEF rest
  <2> QED
    BY <2>1, <2>2
<1>6. NextChunk(c) = chunk
  BY DEF NextChunk, s
<1> HIDE DEF n, rest, chunk
<1>7. ASSUME NEW i \in 1..Len(s)
      PROVE  s[i] \in ToSet(chunk) \cup ToSet(rest)
  <2>1. CASE i <= n
    BY <1>3, <1>4, <2>1 DEF ToSet
  <2>2. CASE i > n
    <3>1. MessageSize < i /\ i <= Len(s) /\ i \in Nat
      BY <1>2, <1>3, <2>2 DEF n
    <3>2. MessageSize < Len(s) /\ i - MessageSize \in 1..(Len(s) - MessageSize) /\ MessageSize + (i - MessageSize) = i
      BY <1>2, <1>3, <3>1
    <3>3. Len(rest) = Len(s) - MessageSize
      BY <1>5, <3>2
    <3>4. rest[i - MessageSize] = s[i] /\ i - MessageSize \in DOMAIN rest
      BY <1>5, <3>2, <3>3
    <3> QED
      BY <3>4 DEF ToSet
  <2> QED
    BY <1>3, <2>1, <2>2
<1>8. ASSUME NEW i \in 1..Len(rest)
      PROVE  rest[i] \in ToSet(s)
  <2>1. rest[i] = s[MessageSize + i]
    BY <1>5
  <2>2. Len(rest) = Len(s) - MessageSize
    BY <1>5
  <2>3. MessageSize + i \in 1..Len(s)
    BY <1>2, <1>3, <2>2
  <2> QED
    BY <1>2, <2>1, <2>3 DEF ToSet
<1>9. ToSet(chunk) \subseteq ToSet(s)
  BY <1>2, <1>3, <1>4 DEF ToSet
<1>10. ToSet(rest) \subseteq ToSet(s)
  BY <1>5, <1>8 DEF ToSet
<1>11. ToSet(s) \subseteq ToSet(chunk) \cup ToSet(rest)
  BY <1>2, <1>7 DEF ToSet
<1>12. chunk # <<>>
  BY <1>3, <1>4
<1>13. rest # <<>> <=> Len(s) > MessageSize
  BY <1>2, <1>3, <1>5
<1> QED
  BY <1>4, <1>5, <1>6, <1>9, <1>10, <1>11, <1>12, <1>13 DEF s, rest

LEMMA EnqueueEffect ==
  ASSUME PartsOK, NEW c \in Clients, NEW n \in 0..2, Enqueue(c, n)
  PROVE  /\ incoming' \in Seq(Messages)
         /\ Len(incoming') = Len(incoming) + n
         /\ \A m \in DOMAIN incoming : m \in DOMAIN incoming' /\ incoming'[m] = incoming[m]
         /\ \A m \in DOMAIN incoming' \ DOMAIN incoming :
               incoming'[m] = [body |-> NextChunk(c), state |-> "queued"]
<1> DEFINE message == [body |-> NextChunk(c), state |-> "queued"]
           copies == [i \in 1..n |-> message]
<1>1. message \in Messages
  BY ChunkOf DEF Enqueue, Messages
<1> HIDE DEF message
<1>2. copies \in Seq(Messages) /\ Len(copies) = n /\ \A i \in 1..n : copies[i] = message
  BY <1>1
<1>3. incoming \in Seq(Messages)
  BY DEF PartsOK, StoresOK
<1>4. incoming' = incoming \o copies
  BY DEF Enqueue, message
<1> HIDE DEF copies
<1>5. /\ incoming' \in Seq(Messages) /\ Len(incoming') = Len(incoming) + n
      /\ \A i \in 1..(Len(incoming) + n) :
            incoming'[i] = IF i <= Len(incoming) THEN incoming[i] ELSE copies[i - Len(incoming)]
  BY <1>2, <1>3, <1>4, ConcatProperties
<1>6. Len(incoming) \in Nat /\ DOMAIN incoming = 1..Len(incoming) /\ DOMAIN incoming' = 1..Len(incoming')
  BY <1>3, <1>5, LenProperties
<1>7. ASSUME NEW m \in DOMAIN incoming' \ DOMAIN incoming
      PROVE  incoming'[m] = message
  <2>1. m - Len(incoming) \in 1..n /\ ~(m <= Len(incoming)) /\ m \in 1..(Len(incoming) + n)
    BY <1>5, <1>6
  <2> QED
    BY <1>2, <1>5, <2>1
<1>8. \A m \in DOMAIN incoming : m \in DOMAIN incoming' /\ incoming'[m] = incoming[m]
  BY <1>5, <1>6
<1> QED
  BY <1>5, <1>7, <1>8 DEF message

\* The state of a message changes, and nothing else of the queue.
LEMMA StateEffect ==
  ASSUME PartsOK, NEW m \in DOMAIN incoming, NEW state \in {"queued", "unacked", "acked"},
         incoming' = [incoming EXCEPT ![m].state = state]
  PROVE  /\ incoming' \in Seq(Messages) /\ Len(incoming') = Len(incoming) /\ DOMAIN incoming' = DOMAIN incoming
         /\ \A k \in DOMAIN incoming : incoming'[k].body = incoming[k].body
         /\ \A k \in DOMAIN incoming \ {m} : incoming'[k] = incoming[k]
         /\ incoming'[m].state = state
<1>1. incoming \in Seq(Messages) /\ DOMAIN incoming = 1..Len(incoming) /\ Len(incoming) \in Nat
  BY LenProperties DEF PartsOK, StoresOK
<1>2. incoming[m] \in Messages
  BY <1>1
<1>3. [incoming[m] EXCEPT !.state = state] \in Messages
  BY <1>2 DEF Messages
<1> DEFINE message == [incoming[m] EXCEPT !.state = state]
<1>4. message.body = incoming[m].body /\ message.state = state
  BY <1>2 DEF Messages
<1>5. incoming' = [incoming EXCEPT ![m] = message]
  OBVIOUS
<1> HIDE DEF message
<1>6. /\ incoming' \in Seq(Messages) /\ Len(incoming') = Len(incoming)
      /\ \A k \in 1..Len(incoming) : incoming'[k] = IF k = m THEN message ELSE incoming[k]
  BY <1>1, <1>3, <1>5, ExceptSeq DEF message
<1>7. DOMAIN incoming' = 1..Len(incoming')
  BY <1>6, LenProperties
<1> QED
  BY <1>1, <1>4, <1>6, <1>7

-----------------------------------------------------------------------------
(* The types of the variables and of the work of writers.                  *)

LEMMA BatchFinite ==
  ASSUME NEW S, NEW s \in Seq(S)
  PROVE  IsFiniteSet(ToSet(s))
<1>1. Len(s) \in Nat /\ DOMAIN s = 1..Len(s)
  BY LenProperties
<1>2. IsFiniteSet(1..Len(s))
  BY <1>1, FS_Interval
<1>3. s \in Surjection(1..Len(s), ToSet(s))
  BY <1>1 DEF ToSet, Surjection
<1> QED
  BY <1>2, <1>3, FS_Surjection

LEMMA BodyType ==
  ASSUME PartsOK, NEW w \in Writers, pc[w] # "idle"
  PROVE  Body(w) \in Seq(Listens) /\ Body(w) # <<>> /\ msg[w] \in DOMAIN incoming
<1>1. msg[w] \in DOMAIN incoming /\ incoming \in Seq(Messages)
  BY DEF PartsOK, DeliveriesOK, StoresOK
<1>2. incoming[msg[w]] \in Messages
  BY <1>1
<1> QED
  BY <1>1, <1>2 DEF Messages, Body

\* A queue that grows leaves the writers their messages.
LEMMA WritersKeep ==
  ASSUME PartsOK, UNCHANGED writer,
         \A m \in DOMAIN incoming : m \in DOMAIN incoming' /\ incoming'[m] = incoming[m]
  PROVE  DeliveriesOK' /\ \A w \in Writers : WorkOK(w)'
<1>1. DeliveriesOK'
  BY DEF PartsOK, DeliveriesOK, writer
<1>2. ASSUME NEW w \in Writers
      PROVE  WorkOK(w)'
  <2>1. WorkOK(w)
    BY DEF PartsOK
  <2>2. CASE pc[w] = "idle"
    BY <2>1, <2>2 DEF WorkOK, writer, Writing, Reporting
  <2>3. CASE pc[w] # "idle"
    <3>1. Body(w)' = Body(w)
      BY <2>3 DEF PartsOK, DeliveriesOK, Body, writer
    <3> QED
      BY <2>1, <3>1 DEF WorkOK, BatchOK, writer
  <2> QED
    BY <2>2, <2>3
<1> QED
  BY <1>1, <1>2

LEMMA SubmitType ==
  ASSUME PartsOK, NEW c \in Clients, Submit(c)
  PROVE  PartsOK'
<1>1. Batch[c] \in Seq(Listens) /\ Batch[c] # <<>>
  BY BatchAssumption
<1>2. RequestsOK'
  BY <1>1 DEF PartsOK, RequestsOK, Submit
<1>3. StoresOK'
  BY DEF PartsOK, StoresOK, Submit, queues, stores
<1>4. DeliveriesOK' /\ \A w \in Writers : WorkOK(w)'
  BY WritersKeep DEF Submit, queues
<1> QED
  BY <1>2, <1>3, <1>4 DEF PartsOK

LEMMA PublishType ==
  ASSUME PartsOK, NEW c \in Clients, PublishChunk(c) \/ PublishFails(c)
  PROVE  PartsOK'
<1>1. PICK n \in 0..2 : Enqueue(c, n)
  BY DEF PublishChunk, PublishFails
<1>2. api[c] = "sending"
  BY <1>1 DEF Enqueue
<1>3. RequestsOK'
  <2>1. CASE PublishChunk(c)
    <3>1. \A d \in Clients : left'[d] = IF d = c THEN SubSeq(left[c], MessageSize + 1, Len(left[c])) ELSE left[d]
      BY <2>1 DEF PublishChunk, PartsOK, RequestsOK
    <3>2. \A d \in Clients : api'[d] = IF d = c /\ Len(left[c]) <= MessageSize THEN "accepted" ELSE api[d]
      BY <2>1 DEF PublishChunk, PartsOK, RequestsOK
    <3>3. left' \in [Clients -> Seq(Listens)] /\ api' \in [Clients -> {"idle", "sending", "accepted", "refused"}]
      BY <1>2, <2>1, ChunkOf DEF PublishChunk, PartsOK, RequestsOK
    <3>4. Len(left[c]) \in Nat /\ MessageSize \in Nat
      BY SizesAssumption DEF PartsOK, RequestsOK
    <3>5. api'[c] = "sending" => Len(left[c]) > MessageSize
      BY <1>2, <3>2, <3>4
    <3>6. Len(left[c]) > MessageSize => left'[c] # <<>>
      BY <1>2, <3>1, ChunkOf
    <3>7. \A d \in Clients : api'[d] = "sending" => left'[d] # <<>>
      BY <3>1, <3>2, <3>5, <3>6 DEF PartsOK, RequestsOK
    <3> QED
      BY <3>3, <3>7 DEF RequestsOK
  <2>2. CASE PublishFails(c)
    BY <2>2 DEF PublishFails, PartsOK, RequestsOK
  <2> QED
    BY <2>1, <2>2
<1>4. StoresOK'
  BY <1>1, EnqueueEffect DEF PublishChunk, PublishFails, PartsOK, StoresOK, stores
<1>5. DeliveriesOK' /\ \A w \in Writers : WorkOK(w)'
  BY <1>1, EnqueueEffect, WritersKeep DEF PublishChunk, PublishFails
<1> QED
  BY <1>3, <1>4, <1>5 DEF PartsOK

\* A writer's step leaves the others their messages and their work.
LEMMA OthersKeep ==
  ASSUME PartsOK, NEW w \in Writers,
         \A v \in Writers \ {w} : /\ pc'[v] = pc[v] /\ msg'[v] = msg[v] /\ found'[v] = found[v]
                                   /\ data'[v] = data[v] /\ inserted'[v] = inserted[v],
         \A m \in DOMAIN incoming : m \in DOMAIN incoming' /\ incoming'[m].body = incoming[m].body
  PROVE  \A v \in Writers \ {w} : WorkOK(v)' /\ (pc[v] # "idle" => Body(v)' = Body(v))
<1> SUFFICES ASSUME NEW v \in Writers \ {w}
             PROVE  WorkOK(v)' /\ (pc[v] # "idle" => Body(v)' = Body(v))
  OBVIOUS
<1>1. WorkOK(v)
  BY DEF PartsOK
<1>2. CASE pc[v] = "idle"
  BY <1>1, <1>2 DEF WorkOK, Writing, Reporting
<1>3. CASE pc[v] # "idle"
  <2>1. Body(v)' = Body(v)
    BY <1>3 DEF PartsOK, DeliveriesOK, Body
  <2> QED
    BY <1>1, <2>1 DEF WorkOK, BatchOK
<1> QED
  BY <1>2, <1>3

\* A step of a writer within its work: its message stays with it.
LEMMA WithinWork ==
  ASSUME PartsOK, NEW w \in Writers, pc[w] # "idle", UNCHANGED <<request, incoming, msg>>, StoresOK',
         NEW p \in Pcs \ {"idle"}, Goto(w, p),
         DOMAIN found' = Writers, DOMAIN data' = Writers, DOMAIN inserted' = Writers,
         \A v \in Writers \ {w} : found'[v] = found[v] /\ data'[v] = data[v] /\ inserted'[v] = inserted[v],
         WorkOK(w)'
  PROVE  PartsOK'
<1>1. pc' \in [Writers -> Pcs] /\ pc'[w] = p /\ \A v \in Writers \ {w} : pc'[v] = pc[v]
  BY DEF PartsOK, DeliveriesOK, Goto
<1>2. RequestsOK'
  BY DEF PartsOK, RequestsOK, request
<1>3. DeliveriesOK'
  BY <1>1 DEF PartsOK, DeliveriesOK
<1>4. \A v \in Writers \ {w} : WorkOK(v)'
  BY <1>1, OthersKeep
<1> QED
  BY <1>2, <1>3, <1>4 DEF PartsOK

LEMMA DeliverType ==
  ASSUME PartsOK, NEW w \in Writers, Deliver(w)
  PROVE  PartsOK'
<1>1. PICK m \in DOMAIN incoming : /\ incoming[m].state = "queued"
                                   /\ incoming' = [incoming EXCEPT ![m].state = "unacked"]
                                   /\ msg' = [msg EXCEPT ![w] = m]
  BY DEF Deliver
<1>2. /\ incoming' \in Seq(Messages) /\ DOMAIN incoming' = DOMAIN incoming /\ incoming'[m].state = "unacked"
      /\ \A k \in DOMAIN incoming : incoming'[k].body = incoming[k].body
      /\ \A k \in DOMAIN incoming \ {m} : incoming'[k] = incoming[k]
  BY <1>1, StateEffect
<1>3. /\ pc' = [pc EXCEPT ![w] = "lookup"] /\ pc[w] = "idle"
      /\ UNCHANGED <<request, unique, rejection, stores, found, data, inserted>>
  BY DEF Deliver, Goto
<1>4. RequestsOK' /\ StoresOK'
  BY <1>2, <1>3 DEF PartsOK, RequestsOK, StoresOK, request, stores
<1>5. /\ pc' \in [Writers -> Pcs] /\ DOMAIN msg' = Writers /\ msg'[w] = m /\ pc'[w] = "lookup"
      /\ \A v \in Writers \ {w} : pc'[v] = pc[v] /\ msg'[v] = msg[v]
  BY <1>1, <1>3 DEF PartsOK, DeliveriesOK, Pcs
<1>6. \A v \in Writers : pc[v] # "idle" => msg[v] # m
  BY <1>1 DEF PartsOK, DeliveriesOK
<1>7. \A v \in Writers : pc'[v] # "idle" => msg'[v] \in DOMAIN incoming' /\ incoming'[msg'[v]].state = "unacked"
  BY <1>2, <1>5, <1>6 DEF PartsOK, DeliveriesOK
<1>8. DeliveriesOK'
  BY <1>3, <1>5, <1>6, <1>7 DEF PartsOK, DeliveriesOK
<1>9. \A v \in Writers \ {w} : WorkOK(v)'
  BY <1>2, <1>3, <1>5, OthersKeep
<1>10. WorkOK(w)'
  BY <1>3, <1>5 DEF PartsOK, WorkOK, Writing, Reporting
<1> QED
  BY <1>4, <1>8, <1>9, <1>10 DEF PartsOK

\* A writer that is done, or dead, has no message; its message is acknowledged or available again.
LEMMA ForgetType ==
  ASSUME PartsOK, NEW w \in Writers, pc[w] # "idle", Forget(w), NEW state \in {"queued", "acked"},
         incoming' = [incoming EXCEPT ![msg[w]].state = state],
         UNCHANGED <<request, rejection, stores>>
  PROVE  PartsOK'
<1> DEFINE m == msg[w]
<1>1. m \in DOMAIN incoming
  BY DEF PartsOK, DeliveriesOK
<1>2. /\ incoming' \in Seq(Messages) /\ DOMAIN incoming' = DOMAIN incoming
      /\ \A k \in DOMAIN incoming : incoming'[k].body = incoming[k].body
      /\ \A k \in DOMAIN incoming \ {m} : incoming'[k] = incoming[k]
  BY <1>1, StateEffect
<1>3. RequestsOK' /\ StoresOK'
  BY <1>2 DEF PartsOK, RequestsOK, StoresOK, request, stores
<1>4. /\ pc' \in [Writers -> Pcs] /\ pc'[w] = "idle" /\ inserted'[w] = {}
      /\ DOMAIN msg' = Writers /\ DOMAIN found' = Writers /\ DOMAIN data' = Writers /\ DOMAIN inserted' = Writers
      /\ \A v \in Writers \ {w} : /\ pc'[v] = pc[v] /\ msg'[v] = msg[v] /\ found'[v] = found[v]
                                    /\ data'[v] = data[v] /\ inserted'[v] = inserted[v]
  BY DEF PartsOK, DeliveriesOK, Forget, Goto, Pcs
<1>5. \A v \in Writers \ {w} : pc[v] # "idle" => msg[v] # m
  BY DEF PartsOK, DeliveriesOK
<1>6. DeliveriesOK'
  <2>1. \A v \in Writers : pc'[v] # "idle" => v # w
    BY <1>4
  <2>2. \A v \in Writers : pc'[v] # "idle" => msg'[v] \in DOMAIN incoming' /\ incoming'[msg'[v]].state = "unacked"
    BY <1>2, <1>4, <1>5, <2>1 DEF PartsOK, DeliveriesOK
  <2>3. \A u, v \in Writers : u # v /\ pc'[u] # "idle" /\ pc'[v] # "idle" => msg'[u] # msg'[v]
    BY <1>4, <2>1 DEF PartsOK, DeliveriesOK
  <2> QED
    BY <1>4, <2>2, <2>3 DEF DeliveriesOK
<1>7. \A v \in Writers \ {w} : WorkOK(v)'
  BY <1>2, <1>4, OthersKeep
<1>8. WorkOK(w)'
  BY <1>4 DEF WorkOK, Writing, Reporting
<1> QED
  BY <1>3, <1>6, <1>7, <1>8 DEF PartsOK

LEMMA LookupType ==
  ASSUME PartsOK, NEW w \in Writers, Lookup(w)
  PROVE  PartsOK'
<1> DEFINE R == {l.rec : l \in ToSet(Body(w))}
<1>1. pc[w] = "lookup" /\ Goto(w, "register") /\ UNCHANGED <<request, queues, stores, msg, data, inserted>>
  BY DEF Lookup
<1>2. StoresOK'
  BY <1>1 DEF PartsOK, StoresOK, queues, stores
<1>3. /\ DOMAIN found' = Writers /\ found'[w] = [r \in R |-> earliest[r]]
      /\ \A v \in Writers \ {w} : found'[v] = found[v]
  BY DEF Lookup, PartsOK, DeliveriesOK
<1>4. Body(w)' = Body(w)
  BY <1>1 DEF Body, queues
<1>5. Body(w) \in Seq(Listens)
  BY <1>1, BodyType
<1>6. ToSet(Body(w)) \subseteq Listens
  BY <1>5 DEF ToSet
<1>7. R \subseteq Recordings
  BY <1>6 DEF Recordings
<1>8. found'[w] \in [R -> Nat]
  BY <1>3, <1>7 DEF PartsOK, StoresOK
<1>9. pc'[w] = "register" /\ inserted'[w] = {}
  BY <1>1 DEF Goto, PartsOK, DeliveriesOK, WorkOK, Reporting
<1>10. WorkOK(w)'
  BY <1>4, <1>8, <1>9 DEF WorkOK, Writing, Reporting
<1> QED
  BY <1>1, <1>2, <1>3, <1>10, WithinWork DEF queues, Pcs, PartsOK, DeliveriesOK

\* Registration gives every listen of the message the MSID of its recording.
LEMMA RegisterBatch ==
  ASSUME PartsOK, NEW w \in Writers, Register(w)
  PROVE  /\ msids' \in [Recordings -> Nat] /\ earliest' \in [Recordings -> Nat]
         /\ BatchOK(w)'
         /\ \A i \in DOMAIN Body(w) : data'[w][i].msid = Msid(w, Body(w)[i].rec)
<1>1. pc[w] = "register" /\ UNCHANGED <<request, queues, msg, found>>
  BY DEF Register
<1>2. Body(w)' = Body(w)
  BY <1>1 DEF Body, queues
<1>3. Body(w) \in Seq(Listens)
  BY <1>1, BodyType
<1>4. Body(w) \in [1..Len(Body(w)) -> Listens] /\ DOMAIN Body(w) = 1..Len(Body(w)) /\ Len(Body(w)) \in Nat
  BY <1>3, LenProperties
<1>5. msids' \in [Recordings -> Nat]
  BY DEF Register, PartsOK, StoresOK
<1>6. earliest' \in [Recordings -> Nat]
  <2>1. PICK E : earliest' = [r \in Recordings |->
                                IF r \in E \/ (r \in Missing(w) /\ earliest[r] = 0) THEN msids'[r] ELSE earliest[r]]
    BY DEF Register
  <2> QED
    BY <1>5, <2>1 DEF PartsOK, StoresOK
<1>7. found[w] \in [{l.rec : l \in ToSet(Body(w))} -> Nat]
  BY <1>1 DEF PartsOK, WorkOK
<1>8. ASSUME NEW i \in DOMAIN Body(w)
      PROVE  Body(w)[i] \in Listens /\ Body(w)[i].rec \in Recordings /\ Msid(w, Body(w)[i].rec) \in Nat
  <2>1. Body(w)[i] \in Listens /\ Body(w)[i].rec \in Recordings /\ Body(w)[i].rec \in DOMAIN found[w]
    BY <1>4, <1>7 DEF Recordings, ToSet
  <2> QED
    BY <1>5, <1>7, <2>1 DEF Msid
<1> DEFINE row(i) == [user |-> Body(w)[i].user, at |-> Body(w)[i].at, rec |-> Body(w)[i].rec,
                      msid |-> Msid(w, Body(w)[i].rec)]
<1>9. data'[w] = [i \in DOMAIN Body(w) |-> row(i)]
  BY DEF Register, PartsOK, DeliveriesOK
<1>10. ASSUME NEW i \in DOMAIN Body(w)
       PROVE  row(i) \in Rows /\ Strip(row(i)) = Body(w)[i] /\ row(i).msid = Msid(w, Body(w)[i].rec)
  <2>1. row(i) \in Rows
    BY <1>8 DEF Rows
  <2>2. Strip(row(i)) = Strip(Body(w)[i])
    BY DEF Strip
  <2> QED
    BY <1>8, <2>1, <2>2, ListensAssumption
<1> HIDE DEF row
<1>11. data'[w] \in Seq(Rows) /\ DOMAIN data'[w] = DOMAIN Body(w)
  BY <1>4, <1>9, <1>10
<1>12. \A i \in DOMAIN Body(w) : data'[w][i] = row(i)
  BY <1>9
<1>13. BatchOK(w)'
  BY <1>2, <1>10, <1>11, <1>12 DEF BatchOK
<1> QED
  BY <1>5, <1>6, <1>10, <1>12, <1>13

LEMMA RegisterType ==
  ASSUME PartsOK, NEW w \in Writers, Register(w)
  PROVE  PartsOK'
<1>1. /\ pc[w] = "register" /\ Goto(w, "timescale")
      /\ UNCHANGED <<request, queues, ts, ldb, recent, daily, msg, found, inserted>>
  BY DEF Register
<1>2. StoresOK'
  BY <1>1, RegisterBatch DEF PartsOK, StoresOK, queues
<1>3. DOMAIN data' = Writers /\ \A v \in Writers \ {w} : data'[v] = data[v]
  BY DEF Register, PartsOK, DeliveriesOK
<1>4. pc'[w] = "timescale" /\ inserted'[w] = {}
  BY <1>1 DEF Goto, PartsOK, DeliveriesOK, WorkOK, Reporting
<1>5. WorkOK(w)'
  BY <1>4, RegisterBatch DEF WorkOK, Writing, Reporting
<1> QED
  BY <1>1, <1>2, <1>3, <1>5, WithinWork DEF queues, Pcs, PartsOK, DeliveriesOK

\* The steps that insert, account and report.
LEMMA WritingType ==
  ASSUME PartsOK, NEW w \in Writers,
         InsertTimescale(w) \/ InsertListens(w) \/ Account(w) \/ UpdateRecent(w) \/ PublishUnique(w)
  PROVE  PartsOK'
<1>1. pc[w] \in Writing /\ UNCHANGED <<request, incoming, rejection, msids, earliest, msg, found, data>>
  BY DEF InsertTimescale, InsertListens, Account, UpdateRecent, AddRecent, CountRecent, PruneRecent, PublishUnique,
       queues, stores, Writing
<1>2. BatchOK(w)
  BY <1>1 DEF PartsOK, WorkOK
<1>3. ToSet(data[w]) \subseteq Rows
  BY <1>2 DEF BatchOK, ToSet
<1>4. BatchOK(w)'
  BY <1>1, <1>2 DEF BatchOK, Body
<1>5. inserted[w] \subseteq Rows
  BY <1>3 DEF PartsOK, WorkOK
<1>6. StoresOK'
  <2>1. ts' \subseteq Rows /\ ldb' \subseteq Rows
    BY <1>3 DEF InsertTimescale, InsertListens, Account, UpdateRecent, AddRecent, CountRecent, PruneRecent,
         PublishUnique, stores, PartsOK, StoresOK
  <2>2. recent' \subseteq Rows
    BY <1>5 DEF InsertTimescale, InsertListens, Account, UpdateRecent, AddRecent, CountRecent, PruneRecent,
         PublishUnique, stores, PartsOK, StoresOK, Popped
  <2>3. daily' \in Nat
    <3>1. IsFiniteSet(ToSet(data[w]))
      BY <1>2, BatchFinite DEF BatchOK
    <3>2. pc[w] = "account" => Cardinality(inserted[w]) \in Nat
      BY <3>1, FS_Subset, FS_CardinalityType DEF PartsOK, WorkOK, Reporting
    <3> QED
      BY <3>2 DEF InsertTimescale, InsertListens, Account, UpdateRecent, AddRecent, CountRecent, PruneRecent,
           PublishUnique, stores, PartsOK, StoresOK
  <2> QED
    BY <1>1, <2>1, <2>2, <2>3 DEF PartsOK, StoresOK
<1>7. /\ DOMAIN inserted' = Writers
      /\ \A v \in Writers \ {w} : inserted'[v] = inserted[v]
  BY DEF InsertTimescale, InsertListens, Account, UpdateRecent, AddRecent, CountRecent, PruneRecent, PublishUnique,
       PartsOK, DeliveriesOK
<1>8. PICK p \in Pcs \ {"idle"} :
         /\ Goto(w, p) /\ p # "register" /\ (p \in Reporting => inserted'[w] \subseteq ToSet(data[w]))
         /\ inserted'[w] # {} <=> p \in Reporting
  <2>1. inserted[w] # {} <=> pc[w] \in Reporting
    BY DEF PartsOK, WorkOK
  <2>2. pc[w] \in Reporting => inserted[w] \subseteq ToSet(data[w])
    BY DEF PartsOK, WorkOK
  <2>3. CASE InsertTimescale(w)
    BY <2>1, <2>3 DEF InsertTimescale, Pcs, Reporting
  <2>4. CASE InsertListens(w)
    <3>1. inserted'[w] = New(w) /\ New(w) \subseteq ToSet(data[w])
      BY <2>4 DEF InsertListens, PartsOK, DeliveriesOK, New
    <3>2. Goto(w, IF New(w) = {} THEN "ack" ELSE "account")
      BY <2>4 DEF InsertListens
    <3> QED
      BY <3>1, <3>2 DEF Pcs, Reporting
  <2>5. CASE Account(w)
    BY <2>1, <2>2, <2>5 DEF Account, Pcs, Reporting
  <2>6. CASE UpdateRecent(w)
    BY <2>1, <2>2, <2>6 DEF UpdateRecent, AddRecent, CountRecent, PruneRecent, Pcs, Reporting
  <2>7. CASE PublishUnique(w)
    BY <2>1, <2>7 DEF PublishUnique, Pcs, Reporting, PartsOK, DeliveriesOK
  <2> QED
    BY <2>3, <2>4, <2>5, <2>6, <2>7
<1>9. pc'[w] = p
  BY <1>8 DEF Goto, PartsOK, DeliveriesOK
<1>10. WorkOK(w)'
  BY <1>1, <1>4, <1>8, <1>9 DEF WorkOK
<1> QED
  BY <1>1, <1>6, <1>7, <1>8, <1>10, WithinWork DEF Writing, PartsOK, DeliveriesOK

LEMMA FailureType ==
  ASSUME PartsOK, NEW w \in Writers, Fail(w) \/ PublishRejection(w)
  PROVE  PartsOK'
<1>1. pc[w] # "idle" /\ UNCHANGED <<request, incoming, stores, msg, found, data>>
  BY DEF Fail, PublishRejection, queues
<1>2. /\ DOMAIN inserted' = Writers /\ inserted'[w] = {}
      /\ \A v \in Writers \ {w} : inserted'[v] = inserted[v]
  BY DEF Fail, PublishRejection, PartsOK, DeliveriesOK, WorkOK, Reporting
<1>3. PICK p \in {"reject", "ack"} : Goto(w, p)
  BY DEF Fail, PublishRejection
<1>4. pc'[w] = p
  BY <1>3 DEF Goto, PartsOK, DeliveriesOK
<1>5. Body(w) \in Seq(Listens)
  BY <1>1, BodyType
<1>6. StoresOK'
  <2>1. CASE PublishRejection(w)
    <3>1. rejection' = Append(rejection, Body(w)) /\ rejection \in Seq(Seq(Listens))
      BY <2>1 DEF PublishRejection, PartsOK, StoresOK
    <3>2. rejection' \in Seq(Seq(Listens)) /\ UNCHANGED <<incoming, stores>>
      BY <1>1, <1>5, <3>1, AppendProperties
    <3> QED
      BY <3>2 DEF PartsOK, StoresOK, stores
  <2>2. CASE Fail(w)
    BY <1>1, <2>2 DEF Fail, PartsOK, StoresOK, stores, queues
  <2> QED
    BY <2>1, <2>2
<1>7. WorkOK(w)'
  BY <1>2, <1>3, <1>4 DEF WorkOK, Writing, Reporting
<1> QED
  BY <1>1, <1>2, <1>3, <1>6, <1>7, WithinWork DEF Pcs, PartsOK, DeliveriesOK

LEMMA AckType ==
  ASSUME PartsOK, NEW w \in Writers, Ack(w) \/ Crash(w)
  PROVE  PartsOK'
<1>1. pc[w] # "idle" /\ Forget(w) /\ UNCHANGED <<request, rejection, stores>>
  BY DEF Ack, Crash
<1>2. PICK state \in {"queued", "acked"} : incoming' = [incoming EXCEPT ![msg[w]].state = state]
  BY DEF Ack, Crash
<1> QED
  BY <1>1, <1>2, ForgetType

LEMMA TypeInit == Init => PartsOK
<1> SUFFICES ASSUME Init PROVE PartsOK
  OBVIOUS
<1>1. RequestsOK
  BY DEF Init, RequestsOK
<1>2. StoresOK
  BY DEF Init, StoresOK
<1>3. DeliveriesOK /\ \A w \in Writers : WorkOK(w)
  BY DEF Init, DeliveriesOK, WorkOK, Pcs, Writing, Reporting
<1> QED
  BY <1>1, <1>2, <1>3 DEF PartsOK

LEMMA TypeStep == PartsOK /\ [Next]_vars => PartsOK'
<1> SUFFICES ASSUME PartsOK, [Next]_vars PROVE PartsOK'
  OBVIOUS
<1>1. CASE UNCHANGED vars
  <2>1. RequestsOK' /\ StoresOK'
    BY <1>1 DEF vars, request, queues, stores, PartsOK, RequestsOK, StoresOK
  <2>2. DeliveriesOK' /\ \A w \in Writers : WorkOK(w)'
    BY <1>1, WritersKeep DEF vars, queues
  <2> QED
    BY <2>1, <2>2 DEF PartsOK
<1>2. ASSUME NEW c \in Clients, Submit(c) \/ PublishChunk(c) \/ PublishFails(c)
      PROVE  PartsOK'
  BY <1>2, SubmitType, PublishType
<1>3. ASSUME NEW w \in Writers, WriterStep(w) \/ Fail(w) \/ Crash(w)
      PROVE  PartsOK'
  BY <1>3, DeliverType, LookupType, RegisterType, WritingType, FailureType, AckType DEF WriterStep
<1> QED
  BY <1>1, <1>2, <1>3 DEF Next

-----------------------------------------------------------------------------
(* What a step leaves alone.                                               *)

LEMMA ClientFrame ==
  ASSUME PartsOK, NEW c \in Clients, Submit(c) \/ PublishChunk(c) \/ PublishFails(c)
  PROVE  /\ \A m \in DOMAIN incoming : m \in DOMAIN incoming' /\ incoming'[m] = incoming[m]
         /\ UNCHANGED <<writer, stores, unique, rejection, tracked>>
<1>1. \A m \in DOMAIN incoming : m \in DOMAIN incoming' /\ incoming'[m] = incoming[m]
  BY EnqueueEffect DEF Submit, PublishChunk, PublishFails, queues
<1>2. UNCHANGED <<writer, stores, unique, rejection, tracked>>
  BY DEF Submit, PublishChunk, PublishFails, queues
<1> QED
  BY <1>1, <1>2

\* Of the messages, a writer changes at most the state of its own.
LEMMA QueueFrame ==
  ASSUME PartsOK, NEW w \in Writers, WriterStep(w) \/ Fail(w) \/ Crash(w)
  PROVE  /\ DOMAIN incoming' = DOMAIN incoming
         /\ \A m \in DOMAIN incoming : incoming'[m].body = incoming[m].body
         /\ \A m \in DOMAIN incoming : incoming'[m].state = "acked" =>
               incoming[m].state = "acked" \/ (Ack(w) /\ m = msg[w])
         /\ \A m \in DOMAIN incoming : incoming[m].state = "acked" => incoming'[m].state = "acked"
<1>1. CASE Deliver(w)
  <2>1. PICK m \in DOMAIN incoming : /\ incoming[m].state = "queued"
                                     /\ incoming' = [incoming EXCEPT ![m].state = "unacked"]
    BY <1>1 DEF Deliver
  <2> QED
    BY <2>1, StateEffect
<1>2. CASE Ack(w)
  <2>1. incoming' = [incoming EXCEPT ![msg[w]].state = "acked"] /\ msg[w] \in DOMAIN incoming
    BY <1>2, BodyType DEF Ack
  <2> QED
    BY <1>2, <2>1, StateEffect
<1>3. CASE Crash(w)
  <2>1. /\ incoming' = [incoming EXCEPT ![msg[w]].state = "queued"]
        /\ msg[w] \in DOMAIN incoming /\ incoming[msg[w]].state = "unacked"
    BY <1>3, BodyType DEF Crash, PartsOK, DeliveriesOK
  <2> QED
    BY <2>1, StateEffect
<1>4. CASE UNCHANGED incoming
  BY <1>4
<1>5. \/ UNCHANGED incoming \/ Deliver(w) \/ Ack(w) \/ Crash(w)
  BY DEF WriterStep, Lookup, Register, InsertTimescale, InsertListens, Account, UpdateRecent, AddRecent, CountRecent,
       PruneRecent, PublishUnique,
         PublishRejection, Fail, queues
<1> QED
  BY <1>1, <1>2, <1>3, <1>4, <1>5

LEMMA WriterFrame ==
  ASSUME PartsOK, NEW w \in Writers, WriterStep(w) \/ Fail(w) \/ Crash(w)
  PROVE  /\ UNCHANGED request
         /\ \A v \in Writers \ {w} : /\ pc'[v] = pc[v] /\ msg'[v] = msg[v] /\ found'[v] = found[v]
                                      /\ data'[v] = data[v] /\ inserted'[v] = inserted[v]
         /\ pc[w] # "idle" /\ pc'[w] # "idle" => msg'[w] = msg[w]
<1>1. \A v \in Writers \ {w} : pc'[v] = pc[v]
  BY DEF WriterStep, Deliver, Lookup, Register, InsertTimescale, InsertListens, Account, UpdateRecent, AddRecent,
       CountRecent, PruneRecent,
         PublishUnique, PublishRejection, Ack, Fail, Crash, Forget, Goto, PartsOK, DeliveriesOK
<1>2. \A v \in Writers \ {w} : msg'[v] = msg[v]
  BY DEF WriterStep, Deliver, Lookup, Register, InsertTimescale, InsertListens, Account, UpdateRecent, AddRecent,
       CountRecent, PruneRecent,
         PublishUnique, PublishRejection, Ack, Fail, Crash, Forget, PartsOK, DeliveriesOK
<1>3. \A v \in Writers \ {w} : found'[v] = found[v] /\ data'[v] = data[v] /\ inserted'[v] = inserted[v]
  BY DEF WriterStep, Deliver, Lookup, Register, InsertTimescale, InsertListens, Account, UpdateRecent, AddRecent,
       CountRecent, PruneRecent,
         PublishUnique, PublishRejection, Ack, Fail, Crash, Forget, PartsOK, DeliveriesOK
<1>4. UNCHANGED request
  BY DEF WriterStep, Deliver, Lookup, Register, InsertTimescale, InsertListens, Account, UpdateRecent, AddRecent,
       CountRecent, PruneRecent,
         PublishUnique, PublishRejection, Ack, Fail, Crash
<1>5. pc[w] # "idle" /\ pc'[w] # "idle" => msg'[w] = msg[w]
  BY DEF WriterStep, Deliver, Lookup, Register, InsertTimescale, InsertListens, Account, UpdateRecent, AddRecent,
       CountRecent, PruneRecent,
         PublishUnique, PublishRejection, Ack, Fail, Crash, Forget, Goto, PartsOK, DeliveriesOK
<1> QED
  BY <1>1, <1>2, <1>3, <1>4, <1>5

LEMMA InsertedFinite ==
  ASSUME PartsOK, NEW w \in Writers, pc[w] \in Reporting
  PROVE  inserted[w] \subseteq Rows /\ IsFiniteSet(inserted[w])
<1>1. BatchOK(w) /\ inserted[w] \subseteq ToSet(data[w])
  BY DEF PartsOK, WorkOK, Writing, Reporting
<1>2. IsFiniteSet(ToSet(data[w])) /\ ToSet(data[w]) \subseteq Rows
  BY <1>1, BatchFinite DEF BatchOK, ToSet
<1> QED
  BY <1>1, <1>2, FS_Subset

\* Of the steps of a writer, the three requests to Redis touch the recent listens.
LEMMA RecentFrame ==
  ASSUME PartsOK, NEW w \in Writers, WriterStep(w) \/ Fail(w) \/ Crash(w), ~UpdateRecent(w)
  PROVE  UNCHANGED <<recent, pops>> /\ pc'[w] \notin {"count", "prune"}
<1>1. UNCHANGED <<recent, pops>>
  BY DEF WriterStep, Deliver, Lookup, Register, InsertTimescale, InsertListens, Account, PublishUnique,
         PublishRejection, Ack, Fail, Crash, stores, tracked
<1>2. pc \in [Writers -> Pcs]
  BY DEF PartsOK, DeliveriesOK
<1>3. pc'[w] \notin {"count", "prune"}
  BY <1>2 DEF WriterStep, Deliver, Lookup, Register, InsertTimescale, InsertListens, Account, PublishUnique,
         PublishRejection, Ack, Fail, Crash, Forget, Goto
<1> QED
  BY <1>1, <1>3

LEMMA CountFrame ==
  ASSUME PartsOK, CountsOK, NEW w \in Writers, WriterStep(w) \/ Fail(w) \/ Crash(w)
  PROVE  /\ count' \in [Writers -> Nat] /\ \A v \in Writers \ {w} : count'[v] = count[v] /\ pc'[v] = pc[v]
         /\ ~CountRecent(w) => pc'[w] # "prune"
<1>1. pc \in [Writers -> Pcs]
  BY DEF PartsOK, DeliveriesOK
<1>2. \A v \in Writers \ {w} : pc'[v] = pc[v]
  BY WriterFrame
<1>3. CASE CountRecent(w)
  <2>1. Cardinality(recent) \in Nat
    BY FS_CardinalityType DEF CountsOK
  <2> QED
    BY <1>2, <1>3, <2>1 DEF CountRecent, CountsOK
<1>4. CASE Ack(w) \/ Crash(w)
  <2>1. count' = [count EXCEPT ![w] = 0] /\ Goto(w, "idle")
    BY <1>4 DEF Ack, Crash, Forget
  <2>2. pc'[w] = "idle"
    BY <1>1, <2>1 DEF Goto
  <2> QED
    BY <1>2, <2>1, <2>2 DEF CountsOK
<1>5. CASE ~CountRecent(w) /\ ~Ack(w) /\ ~Crash(w)
  <2>1. UNCHANGED count
    BY <1>5 DEF WriterStep, Deliver, Lookup, Register, InsertTimescale, InsertListens, Account, UpdateRecent,
                AddRecent, PruneRecent, PublishUnique, PublishRejection, Fail
  <2>2. pc'[w] # "prune"
    BY <1>1, <1>5
       DEF WriterStep, Deliver, Lookup, Register, InsertTimescale, InsertListens, Account, UpdateRecent,
           AddRecent, PruneRecent, PublishUnique, PublishRejection, Fail, Goto
  <2> QED
    BY <1>2, <2>1, <2>2 DEF CountsOK
<1> QED
  BY <1>3, <1>4, <1>5

LEMMA CountsStep ==
  ASSUME PartsOK, CountsOK, [Next]_vars
  PROVE  CountsOK'
<1>1. CASE UNCHANGED <<pc, count, recent>>
  BY <1>1 DEF CountsOK
<1>2. ASSUME NEW w \in Writers, WriterStep(w) \/ Fail(w) \/ Crash(w)
      PROVE  CountsOK'
  <2>1. IsFiniteSet(recent')
    <3>1. CASE ~UpdateRecent(w)
      BY <1>2, <3>1, RecentFrame DEF CountsOK
    <3>2. CASE AddRecent(w)
      <4>1. IsFiniteSet(inserted[w])
        BY <3>2, InsertedFinite DEF AddRecent, Reporting
      <4> QED
        BY <3>2, <4>1, FS_Union DEF AddRecent, CountsOK
    <3>3. CASE CountRecent(w)
      BY <3>3 DEF CountRecent, stores, CountsOK
    <3>4. CASE PruneRecent(w)
      <4>1. recent' \subseteq recent
        BY <3>4 DEF PruneRecent, Popped
      <4> QED
        BY <4>1, FS_Subset DEF CountsOK
    <3> QED
      BY <3>1, <3>2, <3>3, <3>4 DEF UpdateRecent
  <2>2. CountRecent(w) => (pc'[w] = "prune" => count'[w] > 2 * RecentMax)
    BY DEF CountRecent, Goto, PartsOK, DeliveriesOK
  <2> QED
    BY <1>2, <2>1, <2>2, CountFrame DEF CountsOK
<1>3. UNCHANGED <<pc, count, recent>> \/ \E w \in Writers : WriterStep(w) \/ Fail(w) \/ Crash(w)
  BY DEF Next, vars, writer, stores, Submit, PublishChunk, PublishFails
<1> QED
  BY <1>1, <1>2, <1>3

\* The variables have the types of the tables, the queues and the writers' local state; a writer that works holds
\* a message of its own, and its batch consists of the listens of that message.
THEOREM TypeCorrect == Spec => []TypeOK
<1>1. Init => CountsOK
  BY FS_EmptySet DEF Init, CountsOK
<1>2. PartsOK /\ CountsOK /\ [Next]_vars => CountsOK'
  BY CountsStep
<1> QED
  BY <1>1, <1>2, TypeInit, TypeStep, PTL DEF Spec, TypeOK

\* A writer keeps the listens of its message as long as it works.
LEMMA BodyFrame ==
  ASSUME PartsOK, [Next]_vars, NEW v \in Writers, pc[v] # "idle", pc'[v] # "idle"
  PROVE  Body(v)' = Body(v)
<1>1. msg[v] \in DOMAIN incoming
  BY BodyType
<1>2. CASE UNCHANGED vars
  BY <1>2 DEF vars, queues, writer, Body
<1>3. ASSUME NEW c \in Clients, Submit(c) \/ PublishChunk(c) \/ PublishFails(c)
      PROVE  Body(v)' = Body(v)
  <2>1. incoming'[msg[v]] = incoming[msg[v]] /\ UNCHANGED writer
    BY <1>1, <1>3, ClientFrame
  <2> QED
    BY <2>1 DEF Body, writer
<1>4. ASSUME NEW w \in Writers, WriterStep(w) \/ Fail(w) \/ Crash(w)
      PROVE  Body(v)' = Body(v)
  <2>1. msg'[v] = msg[v]
    BY <1>4, WriterFrame
  <2>2. incoming'[msg[v]].body = incoming[msg[v]].body
    BY <1>1, <1>4, QueueFrame
  <2> QED
    BY <2>1, <2>2 DEF Body
<1> QED
  BY <1>2, <1>3, <1>4 DEF Next

\* Nothing is removed from the listens database, and nothing from the rejection queue.
LEMMA StoresGrow ==
  ASSUME PartsOK, [Next]_vars
  PROVE  ldb \subseteq ldb' /\ Stored \subseteq Stored' /\ Rejected \subseteq Rejected'
<1>1. ldb \subseteq ldb'
  BY DEF Next, vars, stores, queues, Submit, PublishChunk, PublishFails, WriterStep, Deliver, Lookup, Register,
         InsertTimescale, InsertListens, Account, UpdateRecent, AddRecent, CountRecent, PruneRecent, PublishUnique,
         PublishRejection, Ack, Fail, Crash
<1>2. Rejected \subseteq Rejected'
  <2>1. CASE UNCHANGED rejection
    BY <2>1 DEF Rejected
  <2>2. ASSUME NEW w \in Writers, PublishRejection(w)
        PROVE  Rejected \subseteq Rejected'
    <3>1. rejection \in Seq(Seq(Listens)) /\ Body(w) \in Seq(Listens) /\ rejection' = Append(rejection, Body(w))
      BY <2>2, BodyType DEF PublishRejection, PartsOK, StoresOK
    <3>2. \A i \in DOMAIN rejection : i \in DOMAIN rejection' /\ rejection'[i] = rejection[i]
      BY <3>1, AppendProperties, LenProperties
    <3> QED
      BY <3>2 DEF Rejected
  <2>3. UNCHANGED rejection \/ \E w \in Writers : PublishRejection(w)
    BY DEF Next, vars, queues, Submit, PublishChunk, PublishFails, WriterStep, Deliver, Lookup, Register,
           InsertTimescale, InsertListens, Account, UpdateRecent, AddRecent, CountRecent, PruneRecent, PublishUnique,
           Ack, Fail, Crash
  <2> QED
    BY <2>1, <2>2, <2>3
<1> QED
  BY <1>1, <1>2 DEF Stored

-----------------------------------------------------------------------------
(* Accepted listens are not lost.                                          *)

Safe == Open \cup Stored \cup Rejected

\* A writer that reports has stored its message, and one about to acknowledge it has stored or rejected it.
Settled(w) ==
    /\ pc[w] \in Reporting => ToSet(Body(w)) \subseteq Stored
    /\ pc[w] = "ack" => ToSet(Body(w)) \subseteq Stored \cup Rejected

AllSettled == \A w \in Writers : Settled(w)

\* The listens of a request are safe but for those it has still to publish.
Answered ==
    \A c \in Clients :
       /\ api[c] = "accepted" => ToSet(Batch[c]) \subseteq Safe
       /\ api[c] = "sending" => ToSet(Batch[c]) \subseteq Safe \cup ToSet(left[c])

SafeInv == PartsOK /\ Answered /\ AllSettled

LEMMA InsertSettles ==
  ASSUME PartsOK, NEW w \in Writers, InsertListens(w)
  PROVE  ToSet(Body(w)) \subseteq Stored'
<1>1. BatchOK(w)
  BY DEF InsertListens, PartsOK, WorkOK, Writing
<1>2. ldb' = ldb \cup ToSet(data[w])
  BY DEF InsertListens
<1>3. ASSUME NEW i \in DOMAIN Body(w)
      PROVE  Body(w)[i] \in Stored'
  <2>1. data[w][i] \in ldb' /\ Strip(data[w][i]) = Body(w)[i]
    BY <1>1, <1>2 DEF BatchOK, ToSet
  <2> QED
    BY <2>1 DEF Stored
<1> QED
  BY <1>3 DEF ToSet

LEMMA RejectionSettles ==
  ASSUME PartsOK, NEW w \in Writers, PublishRejection(w)
  PROVE  Rejected' = Rejected \cup ToSet(Body(w))
<1>1. rejection \in Seq(Seq(Listens)) /\ Body(w) \in Seq(Listens) /\ rejection' = Append(rejection, Body(w))
  BY BodyType DEF PublishRejection, PartsOK, StoresOK
<1>2. /\ DOMAIN rejection = 1..Len(rejection) /\ DOMAIN rejection' = 1..(Len(rejection) + 1) /\ Len(rejection) \in Nat
      /\ \A i \in DOMAIN rejection : rejection'[i] = rejection[i]
      /\ rejection'[Len(rejection) + 1] = Body(w)
  BY <1>1, AppendProperties, LenProperties
<1>3. DOMAIN rejection' = DOMAIN rejection \cup {Len(rejection) + 1}
  BY <1>2
<1> QED
  BY <1>2, <1>3 DEF Rejected

LEMMA SettledStep ==
  ASSUME PartsOK, AllSettled, [Next]_vars
  PROVE  AllSettled'
<1>1. Stored \subseteq Stored' /\ Rejected \subseteq Rejected'
  BY StoresGrow
<1>2. ASSUME NEW v \in Writers, pc'[v] = pc[v]
      PROVE  Settled(v)'
  <2>1. CASE pc[v] = "idle"
    BY <1>2, <2>1 DEF Settled, Reporting
  <2>2. CASE pc[v] # "idle"
    <3>1. Body(v)' = Body(v)
      BY <1>2, <2>2, BodyFrame
    <3> QED
      BY <1>1, <1>2, <3>1 DEF AllSettled, Settled
  <2> QED
    BY <2>1, <2>2
<1>3. CASE UNCHANGED vars
  BY <1>2, <1>3 DEF vars, writer, AllSettled
<1>4. ASSUME NEW c \in Clients, Submit(c) \/ PublishChunk(c) \/ PublishFails(c)
      PROVE  AllSettled'
  BY <1>2, <1>4, ClientFrame DEF writer, AllSettled
<1>5. ASSUME NEW w \in Writers, WriterStep(w) \/ Fail(w) \/ Crash(w)
      PROVE  AllSettled'
  <2>1. \A v \in Writers \ {w} : pc'[v] = pc[v]
    BY <1>5, WriterFrame
  <2> SUFFICES Settled(w)'
    BY <1>2, <2>1 DEF AllSettled
  <2>4. pc[w] # "idle" /\ pc'[w] # "idle" => Body(w)' = Body(w)
    BY BodyFrame
  <2>5. CASE InsertListens(w)
    <3>1. ToSet(Body(w)') \subseteq Stored'
      BY <2>4, <2>5, InsertSettles DEF InsertListens, Goto, PartsOK, DeliveriesOK
    <3> QED
      BY <3>1 DEF Settled
  <2>6. CASE PublishRejection(w)
    <3>1. pc'[w] = "ack" /\ Body(w)' = Body(w)
      BY <2>4, <2>6 DEF PublishRejection, Goto, PartsOK, DeliveriesOK
    <3>2. ToSet(Body(w)) \subseteq Rejected'
      BY <2>6, RejectionSettles
    <3> QED
      BY <3>1, <3>2 DEF Settled, Reporting
  <2>7. CASE Account(w) \/ UpdateRecent(w) \/ PublishUnique(w)
    <3>1. ToSet(Body(w)) \subseteq Stored' /\ pc[w] # "idle"
      BY <1>1, <2>7 DEF Account, UpdateRecent, AddRecent, CountRecent, PruneRecent, PublishUnique, AllSettled,
           Settled, Reporting
    <3> QED
      BY <2>4, <3>1 DEF Settled, Reporting
  <2>8. CASE pc'[w] \notin Reporting \cup {"ack"}
    BY <2>8 DEF Settled
  <2>9. \/ pc'[w] \notin Reporting \cup {"ack"} \/ InsertListens(w) \/ PublishRejection(w)
        \/ Account(w) \/ UpdateRecent(w) \/ PublishUnique(w)
    BY <1>5 DEF WriterStep, Deliver, Lookup, Register, InsertTimescale, Ack, Fail, Crash, Forget, Goto, Reporting,
                PartsOK, DeliveriesOK
  <2> QED
    BY <2>5, <2>6, <2>7, <2>8, <2>9
<1> QED
  BY <1>3, <1>4, <1>5 DEF Next

\* An acknowledged message is stored or rejected: what is safe stays safe.
LEMMA SafeGrows ==
  ASSUME PartsOK, AllSettled, [Next]_vars
  PROVE  Safe \subseteq Safe'
<1>1. Stored \subseteq Stored' /\ Rejected \subseteq Rejected'
  BY StoresGrow
<1>2. CASE UNCHANGED incoming
  BY <1>1, <1>2 DEF Safe, Open
<1>3. ASSUME NEW c \in Clients, Submit(c) \/ PublishChunk(c) \/ PublishFails(c)
      PROVE  Safe \subseteq Safe'
  <2>1. Open \subseteq Open'
    BY <1>3, ClientFrame DEF Open
  <2> QED
    BY <1>1, <2>1 DEF Safe
<1>4. ASSUME NEW w \in Writers, WriterStep(w) \/ Fail(w) \/ Crash(w)
      PROVE  Safe \subseteq Safe'
  <2>1. ASSUME NEW m \in DOMAIN incoming, incoming[m].state # "acked"
        PROVE  ToSet(incoming[m].body) \subseteq Safe'
    <3>1. m \in DOMAIN incoming' /\ incoming'[m].body = incoming[m].body
      BY <1>4, QueueFrame
    <3>2. CASE incoming'[m].state # "acked"
      BY <3>1, <3>2 DEF Safe, Open
    <3>3. CASE Ack(w) /\ m = msg[w]
      BY <1>1, <3>3 DEF Ack, AllSettled, Settled, Body, Safe
    <3> QED
      BY <1>4, <2>1, <3>2, <3>3, QueueFrame
  <2>2. Open \subseteq Safe'
    BY <2>1 DEF Open
  <2> QED
    BY <1>1, <2>2 DEF Safe
<1> QED
  BY <1>2, <1>3, <1>4 DEF Next, vars, queues

LEMMA AnsweredStep ==
  ASSUME SafeInv, [Next]_vars
  PROVE  Answered'
<1>1. Safe \subseteq Safe'
  BY SafeGrows DEF SafeInv
<1>2. ASSUME UNCHANGED request
      PROVE  Answered'
  BY <1>1, <1>2 DEF request, Answered, SafeInv
<1>3. ASSUME NEW c \in Clients, Submit(c)
      PROVE  Answered'
  BY <1>1, <1>3 DEF Submit, Answered, SafeInv, PartsOK, RequestsOK
<1>4. ASSUME NEW c \in Clients, PublishFails(c)
      PROVE  Answered'
  BY <1>1, <1>4 DEF PublishFails, Answered, SafeInv, PartsOK, RequestsOK
<1>5. ASSUME NEW c \in Clients, PublishChunk(c)
      PROVE  Answered'
  <2> DEFINE rest == SubSeq(left[c], MessageSize + 1, Len(left[c]))
  <2>1. PartsOK /\ api[c] = "sending" /\ ToSet(Batch[c]) \subseteq Safe \cup ToSet(left[c])
    BY <1>5 DEF PublishChunk, Enqueue, SafeInv, Answered
  <2>2. PICK n \in 1..2 : Enqueue(c, n)
    BY <1>5 DEF PublishChunk
  <2>3. ToSet(NextChunk(c)) \subseteq Safe'
    <3> DEFINE m == Len(incoming) + 1
    <3>1. /\ incoming' \in Seq(Messages) /\ Len(incoming') = Len(incoming) + n
          /\ \A k \in DOMAIN incoming' \ DOMAIN incoming : incoming'[k] = [body |-> NextChunk(c), state |-> "queued"]
      BY <2>1, <2>2, EnqueueEffect
    <3>2. DOMAIN incoming = 1..Len(incoming) /\ Len(incoming) \in Nat /\ DOMAIN incoming' = 1..Len(incoming')
      BY <2>1, <3>1, LenProperties DEF PartsOK, StoresOK
    <3>3. m \in DOMAIN incoming' \ DOMAIN incoming
      BY <3>1, <3>2
    <3>4. m \in DOMAIN incoming' /\ incoming'[m].body = NextChunk(c) /\ incoming'[m].state # "acked"
      BY <3>1, <3>3
    <3> QED
      BY <3>4 DEF Safe, Open
  <2>4. ToSet(left[c]) = ToSet(NextChunk(c)) \cup ToSet(rest)
    BY <2>1, ChunkOf
  <2>5. ToSet(Batch[c]) \subseteq Safe' \cup ToSet(rest)
    BY <1>1, <2>1, <2>3, <2>4
  <2>6. left'[c] = rest /\ \A d \in Clients \ {c} : left'[d] = left[d] /\ api'[d] = api[d]
    BY <1>5 DEF PublishChunk, SafeInv, PartsOK, RequestsOK
  <2>7. api'[c] = "accepted" => rest = <<>>
    <3>1. api'[c] = "accepted" => Len(left[c]) <= MessageSize
      BY <1>5, <2>1 DEF PublishChunk, RequestsOK, PartsOK
    <3>2. Len(left[c]) \in Nat /\ MessageSize \in Nat
      BY SizesAssumption DEF SafeInv, PartsOK, RequestsOK
    <3>3. rest # <<>> <=> Len(left[c]) > MessageSize
      BY <2>1, ChunkOf
    <3> QED
      BY <3>1, <3>2, <3>3
  <2>8. ToSet(<<>>) = {}
    BY DEF ToSet
  <2> HIDE DEF rest
  <2>9. api'[c] = "accepted" => ToSet(Batch[c]) \subseteq Safe'
    BY <2>5, <2>7, <2>8
  <2> QED
    BY <1>1, <2>5, <2>6, <2>9 DEF Answered, SafeInv
<1> QED
  BY <1>2, <1>3, <1>4, <1>5, WriterFrame DEF Next, vars, request, SafeInv

\* A listen of a request that was answered with 200 waits in a message that is not acked, or is stored, or is in the
\* rejection queue, however often writers fail and messages are delivered again.
THEOREM AcceptedNotLostCorrect == Spec => []AcceptedNotLost
<1>1. Init => SafeInv
  <2>1. Init => Answered /\ AllSettled
    BY DEF Init, Answered, AllSettled, Settled, Reporting
  <2> QED
    BY <2>1, TypeInit DEF SafeInv
<1>2. SafeInv /\ [Next]_vars => SafeInv'
  BY TypeStep, SettledStep, AnsweredStep DEF SafeInv
<1>3. SafeInv => AcceptedNotLost
  BY DEF SafeInv, Answered, Safe, AcceptedNotLost
<1> QED
  BY <1>1, <1>2, <1>3, PTL DEF Spec

-----------------------------------------------------------------------------
(* What is announced.                                                      *)

Announcements == UNION {[D -> Rows] : D \in SUBSET Nat}

\* Rows are announced, or about to be by the one writer that inserted them, or of an attempt that failed.
Reports ==
    /\ unique \in Seq(Announcements)
    /\ Announced \subseteq ldb
    /\ \A w \in Writers : inserted[w] \subseteq ldb \ Announced
    /\ \A v, w \in Writers : v # w => inserted[v] \cap inserted[w] = {}
    /\ \A m, n \in DOMAIN unique : m # n => Range(unique[m]) \cap Range(unique[n]) = {}
    /\ \A x \in ldb \ unreported : x \in Announced \/ \E w \in Writers : x \in inserted[w]

\* A message announces what its writer inserted.
LEMMA AnnouncesInserted ==
  ASSUME PartsOK, unique \in Seq(Announcements), NEW w \in Writers, PublishUnique(w)
  PROVE  /\ unique' \in Seq(Announcements) /\ Len(unique') = Len(unique) + 1
         /\ DOMAIN unique = 1..Len(unique) /\ DOMAIN unique' = 1..(Len(unique) + 1) /\ Len(unique) \in Nat
         /\ \A m \in DOMAIN unique : unique'[m] = unique[m]
         /\ unique'[Len(unique) + 1] = Restrict(data[w], {i \in DOMAIN data[w] : data[w][i] \in inserted[w]})
         /\ Range(unique'[Len(unique) + 1]) = inserted[w]
         /\ Announced' = Announced \cup inserted[w]
<1> DEFINE new == Restrict(data[w], {i \in DOMAIN data[w] : data[w][i] \in inserted[w]})
<1>1. BatchOK(w) /\ inserted[w] \subseteq ToSet(data[w])
  BY DEF PublishUnique, PartsOK, WorkOK, Writing, Reporting
<1>2. DOMAIN data[w] = 1..Len(data[w]) /\ Len(data[w]) \in Nat /\ \A i \in DOMAIN data[w] : data[w][i] \in Rows
  BY <1>1 DEF BatchOK
<1>3. new \in Announcements
  <2> DEFINE D == {i \in DOMAIN data[w] : data[w][i] \in inserted[w]}
  <2>1. D \in SUBSET Nat /\ \A i \in D : data[w][i] \in Rows
    BY <1>2
  <2>2. new \in [D -> Rows]
    BY <2>1 DEF Restrict
  <2> QED
    BY <2>1, <2>2 DEF Announcements
<1>4. Range(new) = inserted[w]
  BY <1>1 DEF Range, Restrict, ToSet
<1>5. unique' = Append(unique, new)
  BY DEF PublishUnique
<1> HIDE DEF new
<1>6. /\ unique' \in Seq(Announcements) /\ Len(unique') = Len(unique) + 1
      /\ DOMAIN unique = 1..Len(unique) /\ Len(unique) \in Nat
      /\ \A m \in 1..Len(unique) : unique'[m] = unique[m]
      /\ unique'[Len(unique) + 1] = new
  BY <1>3, <1>5, AppendProperties, LenProperties
<1>7. DOMAIN unique' = 1..(Len(unique) + 1)
  BY <1>6, LenProperties
<1>8. DOMAIN unique' = DOMAIN unique \cup {Len(unique) + 1}
  BY <1>6, <1>7
<1>9. Announced' = Announced \cup inserted[w]
  BY <1>4, <1>6, <1>8 DEF Announced
<1> QED
  BY <1>4, <1>6, <1>7, <1>9 DEF new

LEMMA ReportsStep ==
  ASSUME PartsOK, Reports, [Next]_vars
  PROVE  Reports'
<1>1. CASE UNCHANGED <<unique, ldb, inserted, unreported>>
  BY <1>1 DEF Reports, Announced
<1>2. ASSUME NEW w \in Writers, PublishUnique(w)
      PROVE  Reports'
  <2>1. /\ unique' \in Seq(Announcements) /\ Announced' = Announced \cup inserted[w]
        /\ DOMAIN unique' = 1..(Len(unique) + 1) /\ DOMAIN unique = 1..Len(unique) /\ Len(unique) \in Nat
        /\ \A m \in DOMAIN unique : unique'[m] = unique[m]
        /\ Range(unique'[Len(unique) + 1]) = inserted[w]
    BY <1>2, AnnouncesInserted DEF Reports
  <2>2. UNCHANGED <<ldb, unreported>> /\ inserted'[w] = {} /\ \A v \in Writers \ {w} : inserted'[v] = inserted[v]
    BY <1>2 DEF PublishUnique, stores, tracked, PartsOK, DeliveriesOK
  <2>3. Announced' \subseteq ldb' /\ \A v \in Writers : inserted'[v] \subseteq ldb' \ Announced'
    BY <2>1, <2>2 DEF Reports
  <2>4. \A u, v \in Writers : u # v => inserted'[u] \cap inserted'[v] = {}
    BY <2>2 DEF Reports
  <2>5. \A x \in ldb' \ unreported' : x \in Announced' \/ \E v \in Writers : x \in inserted'[v]
    BY <2>1, <2>2 DEF Reports
  <2>6. ASSUME NEW m \in DOMAIN unique', NEW n \in DOMAIN unique', m # n
        PROVE  Range(unique'[m]) \cap Range(unique'[n]) = {}
    <3>1. \A k \in DOMAIN unique : Range(unique[k]) \cap inserted[w] = {}
      BY DEF Reports, Announced
    <3>2. CASE m \in DOMAIN unique /\ n \in DOMAIN unique
      BY <2>1, <2>6, <3>2 DEF Reports
    <3>3. CASE m = Len(unique) + 1
      <4>1. n \in DOMAIN unique
        BY <2>1, <2>6, <3>3
      <4> QED
        BY <2>1, <3>1, <3>3, <4>1
    <3>4. CASE n = Len(unique) + 1
      <4>1. m \in DOMAIN unique
        BY <2>1, <2>6, <3>4
      <4> QED
        BY <2>1, <3>1, <3>4, <4>1
    <3>5. \A k \in DOMAIN unique' : k \in DOMAIN unique \/ k = Len(unique) + 1
      BY <2>1
    <3> QED
      BY <3>2, <3>3, <3>4, <3>5
  <2> QED
    BY <2>1, <2>3, <2>4, <2>5, <2>6 DEF Reports
<1>3. ASSUME NEW w \in Writers, InsertListens(w)
      PROVE  Reports'
  <2>1. /\ ldb' = ldb \cup New(w) /\ New(w) \cap ldb = {} /\ UNCHANGED <<unique, unreported>>
        /\ inserted'[w] = New(w) /\ \A v \in Writers \ {w} : inserted'[v] = inserted[v]
    BY <1>3 DEF InsertListens, New, queues, tracked, PartsOK, DeliveriesOK
  <2>2. inserted[w] = {}
    BY <1>3 DEF InsertListens, PartsOK, WorkOK, Reporting
  <2>3. Announced' = Announced
    BY <2>1 DEF Announced
  <2>4. Announced' \subseteq ldb' /\ \A v \in Writers : inserted'[v] \subseteq ldb' \ Announced'
    BY <2>1, <2>3 DEF Reports
  <2>5. \A v \in Writers \ {w} : New(w) \cap inserted[v] = {}
    BY <2>1 DEF Reports
  <2>6. \A u, v \in Writers : u # v => inserted'[u] \cap inserted'[v] = {}
    BY <2>1, <2>5 DEF Reports
  <2>7. \A x \in ldb' \ unreported' : x \in Announced' \/ \E v \in Writers : x \in inserted'[v]
    BY <2>1, <2>2, <2>3 DEF Reports
  <2> QED
    BY <2>1, <2>4, <2>6, <2>7 DEF Reports
<1>4. ASSUME NEW w \in Writers, Fail(w) \/ Crash(w) \/ Ack(w)
      PROVE  Reports'
  <2>1. /\ UNCHANGED <<unique, ldb>> /\ unreported \cup inserted[w] \subseteq unreported'
        /\ inserted'[w] = {} /\ \A v \in Writers \ {w} : inserted'[v] = inserted[v]
    BY <1>4 DEF Fail, Crash, Ack, Forget, queues, stores, tracked, PartsOK, DeliveriesOK, WorkOK, Reporting
  <2>2. Announced' = Announced
    BY <2>1 DEF Announced
  <2>3. \A v \in Writers : inserted'[v] \subseteq ldb' \ Announced'
    BY <2>1, <2>2 DEF Reports
  <2>4. \A u, v \in Writers : u # v => inserted'[u] \cap inserted'[v] = {}
    BY <2>1 DEF Reports
  <2>5. \A x \in ldb' \ unreported' : x \in Announced' \/ \E v \in Writers : x \in inserted'[v]
    BY <2>1, <2>2 DEF Reports
  <2> QED
    BY <2>1, <2>2, <2>3, <2>4, <2>5 DEF Reports
<1>5. \/ UNCHANGED <<unique, ldb, inserted, unreported>>
      \/ \E w \in Writers : PublishUnique(w) \/ InsertListens(w) \/ Fail(w) \/ Crash(w) \/ Ack(w)
  BY DEF Next, vars, writer, stores, queues, tracked, Submit, PublishChunk, PublishFails, WriterStep, Deliver, Lookup,
         Register, InsertTimescale, Account, UpdateRecent, AddRecent, CountRecent, PruneRecent, PublishRejection
<1> QED
  BY <1>1, <1>2, <1>3, <1>4, <1>5

LEMMA ReportsInit == Init => Reports
  BY DEF Init, Reports, Announced

\* A stored row has been announced, or its writer is about to, unless that attempt failed after its commit: a write to
\* the listens database that fails leaves its listens to the next attempt, which finds them new.
THEOREM FailedWriteStillReportedCorrect == Spec => []FailedWriteStillReported
<1> DEFINE Inv == PartsOK /\ Reports
<1>1. Inv /\ [Next]_vars => Inv'
  BY TypeStep, ReportsStep
<1>2. Inv => FailedWriteStillReported
  BY DEF Reports, FailedWriteStillReported
<1> QED
  BY <1>1, <1>2, TypeInit, ReportsInit, PTL DEF Spec

\* The batches that consist of different listens.
RepeatFree == \A c \in Clients : IsInjective(Batch[c])

\* Without listens that repeat, messages have none, and neither do the batches of writers.
Distinct ==
    /\ \A c \in Clients : api[c] = "sending" => IsInjective(left[c])
    /\ \A m \in DOMAIN incoming : IsInjective(incoming[m].body)
    /\ \A m \in DOMAIN unique : IsInjective(unique[m])

LEMMA PartInjective ==
  ASSUME NEW S, NEW s \in Seq(S), IsInjective(s), NEW m \in Nat \ {0}, NEW n \in 0..Len(s)
  PROVE  IsInjective(SubSeq(s, m, n))
<1>1. Len(s) \in Nat /\ DOMAIN s = 1..Len(s) /\ \A i \in m..n : s[i] \in S
  BY LenProperties
<1>2. /\ SubSeq(s, m, n) \in Seq(S) /\ Len(SubSeq(s, m, n)) = IF m <= n THEN n - m + 1 ELSE 0
      /\ \A i \in 1..(n - m + 1) : SubSeq(s, m, n)[i] = s[m + i - 1]
  BY <1>1, SubSeqProperties
<1>3. DOMAIN SubSeq(s, m, n) = 1..Len(SubSeq(s, m, n))
  BY <1>2, LenProperties
<1> DEFINE t == SubSeq(s, m, n)
<1> HIDE DEF t
<1>4. ASSUME NEW a \in DOMAIN t, NEW b \in DOMAIN t, t[a] = t[b]
      PROVE  a = b
  <2>1. a \in 1..(n - m + 1) /\ b \in 1..(n - m + 1)
    BY <1>1, <1>2, <1>3 DEF t
  <2>2. m + a - 1 \in DOMAIN s /\ m + b - 1 \in DOMAIN s
    BY <1>1, <2>1
  <2>3. s[m + a - 1] = s[m + b - 1]
    BY <1>2, <1>4, <2>1 DEF t
  <2>4. m + a - 1 = m + b - 1
    BY <2>2, <2>3 DEF IsInjective
  <2> QED
    BY <2>1, <2>4
<1> QED
  BY <1>4 DEF IsInjective, t

LEMMA ChunkInjective ==
  ASSUME PartsOK, NEW c \in Clients, IsInjective(left[c])
  PROVE  IsInjective(NextChunk(c)) /\ IsInjective(SubSeq(left[c], MessageSize + 1, Len(left[c])))
<1>1. left[c] \in Seq(Listens) /\ Len(left[c]) \in Nat /\ MessageSize \in Nat \ {0}
  BY SizesAssumption, LenProperties DEF PartsOK, RequestsOK
<1> DEFINE n == IF Len(left[c]) < MessageSize THEN Len(left[c]) ELSE MessageSize
<1>2. n \in 0..Len(left[c]) /\ Len(left[c]) \in 0..Len(left[c]) /\ 1 \in Nat \ {0} /\ MessageSize + 1 \in Nat \ {0}
  BY <1>1
<1>3. NextChunk(c) = SubSeq(left[c], 1, n)
  BY DEF NextChunk
<1> HIDE DEF n
<1> QED
  BY <1>1, <1>2, <1>3, PartInjective

LEMMA DistinctStep ==
  ASSUME RepeatFree, PartsOK, Reports, Distinct, [Next]_vars
  PROVE  Distinct'
<1>1. CASE UNCHANGED <<request, incoming, unique>>
  BY <1>1 DEF request, Distinct
<1>2. ASSUME NEW c \in Clients, Submit(c)
      PROVE  Distinct'
  BY <1>2 DEF Submit, queues, Distinct, RepeatFree, PartsOK, RequestsOK
<1>3. ASSUME NEW c \in Clients, PublishChunk(c) \/ PublishFails(c)
      PROVE  Distinct'
  <2>1. PICK n \in 0..2 : Enqueue(c, n)
    BY <1>3 DEF PublishChunk, PublishFails
  <2>2. IsInjective(left[c])
    BY <2>1 DEF Enqueue, Distinct
  <2>3. \A m \in DOMAIN incoming' : IsInjective(incoming'[m].body)
    BY <2>1, <2>2, EnqueueEffect, ChunkInjective DEF Distinct
  <2>4. \A d \in Clients : api'[d] = "sending" => IsInjective(left'[d])
    <3>1. \A d \in Clients \ {c} : api'[d] = api[d] /\ left'[d] = left[d]
      BY <1>3 DEF PublishChunk, PublishFails, PartsOK, RequestsOK
    <3>2. api'[c] = "sending" => left'[c] = SubSeq(left[c], MessageSize + 1, Len(left[c]))
      BY <1>3 DEF PublishChunk, PublishFails, PartsOK, RequestsOK
    <3> QED
      BY <2>2, <3>1, <3>2, ChunkInjective DEF Distinct
  <2> QED
    BY <1>3, <2>3, <2>4 DEF PublishChunk, PublishFails, Distinct
<1>4. ASSUME NEW w \in Writers, PublishUnique(w)
      PROVE  Distinct'
  <2> DEFINE D == {i \in DOMAIN data[w] : data[w][i] \in inserted[w]}
             new == Restrict(data[w], D)
  <2>1. /\ DOMAIN unique' = 1..(Len(unique) + 1) /\ DOMAIN unique = 1..Len(unique) /\ Len(unique) \in Nat
        /\ \A m \in DOMAIN unique : unique'[m] = unique[m]
        /\ unique'[Len(unique) + 1] = new
    BY <1>4, AnnouncesInserted DEF Reports
  <2>2. BatchOK(w) /\ msg[w] \in DOMAIN incoming
    BY <1>4, BodyType DEF PublishUnique, PartsOK, WorkOK, Writing
  <2>3. IsInjective(Body(w))
    BY <2>2 DEF Distinct, Body
  <2>4. IsInjective(new)
    BY <2>2, <2>3 DEF BatchOK, IsInjective, Restrict
  <2> HIDE DEF new
  <2>5. \A m \in DOMAIN unique' : m \in DOMAIN unique \/ m = Len(unique) + 1
    BY <2>1
  <2>6. \A m \in DOMAIN unique' : IsInjective(unique'[m])
    BY <2>1, <2>4, <2>5 DEF Distinct
  <2> QED
    BY <1>4, <2>6 DEF PublishUnique, request, Distinct
<1>5. ASSUME NEW w \in Writers, Deliver(w) \/ Ack(w) \/ Crash(w)
      PROVE  Distinct'
  <2>1. /\ DOMAIN incoming' = DOMAIN incoming
        /\ \A m \in DOMAIN incoming : incoming'[m].body = incoming[m].body
    BY <1>5, QueueFrame DEF WriterStep
  <2>2. UNCHANGED <<request, unique>>
    BY <1>5 DEF Deliver, Ack, Crash
  <2> QED
    BY <2>1, <2>2 DEF Distinct, request
<1>6. \/ UNCHANGED <<request, incoming, unique>>
      \/ \E c \in Clients : Submit(c) \/ PublishChunk(c) \/ PublishFails(c)
      \/ \E w \in Writers : PublishUnique(w) \/ Deliver(w) \/ Ack(w) \/ Crash(w)
  BY DEF Next, vars, queues, WriterStep, Lookup, Register, InsertTimescale, InsertListens, Account, UpdateRecent,
       AddRecent, CountRecent, PruneRecent,
         PublishRejection, Fail
<1> QED
  BY <1>1, <1>2, <1>3, <1>4, <1>5, <1>6

LEMMA DistinctInit == Init => Distinct
  BY DEF Init, Distinct

\* What is announced is stored, and no row is announced twice: not by the redelivery of its message, not by another
\* writer, and, as long as no request submits the same listen twice at once, not within a message.
THEOREM AnnouncedOnceCorrect ==
  ASSUME RepeatFree
  PROVE  Spec => []AnnouncedOnce
<1> DEFINE Inv == PartsOK /\ Reports /\ Distinct
<1>1. Inv /\ [Next]_vars => Inv'
  BY TypeStep, ReportsStep, DistinctStep
<1>2. Inv => AnnouncedOnce
  <2> SUFFICES ASSUME Reports, Distinct,
                      NEW m \in DOMAIN unique, NEW n \in DOMAIN unique,
                      NEW i \in DOMAIN unique[m], NEW j \in DOMAIN unique[n], unique[m][i] = unique[n][j]
               PROVE  m = n /\ i = j
    BY DEF AnnouncedOnce, Reports
  <2>1. m = n
    BY DEF Reports, Range
  <2> QED
    BY <2>1 DEF Distinct, IsInjective
<1> QED
  BY <1>1, <1>2, TypeInit, ReportsInit, DistinctInit, PTL DEF Spec

-----------------------------------------------------------------------------
(* The recent listens.                                                     *)

LEMMA RowTimes ==
  ASSUME NEW x \in Rows
  PROVE  x.at \in Int
  BY ListensAssumption DEF Rows

\* What remains when the lowest are popped has its share of the highest, those that lapsed included.
LEMMA PoppedKeeps ==
  ASSUME NEW R \in SUBSET Rows, IsFiniteSet(R), NEW n \in Nat, NEW S \in Popped(R, n), NEW x \in Rows,
         NEW L, IsFiniteSet(L), NEW max \in Nat, Cardinality(S) >= max,
         x \in R \/ Cardinality({y \in R \cup L : y.at >= x.at}) >= max, x \notin S
  PROVE  Cardinality({y \in S \cup L : y.at >= x.at}) >= max
<1> DEFINE above(T) == {y \in T : y.at >= x.at}
<1>1. S \subseteq R /\ IsFiniteSet(S) /\ \A y \in S, z \in R \ S : z.at <= y.at
  BY FS_Subset DEF Popped
<1>2. IsFiniteSet(S \cup L) /\ above(S \cup L) \in SUBSET (S \cup L)
  BY <1>1, FS_Union
<1>3. IsFiniteSet(above(S \cup L)) /\ Cardinality(above(S \cup L)) \in Nat
  BY <1>2, FS_Subset, FS_CardinalityType
<1>4. CASE \E z \in R \ S : z.at >= x.at
  <2>1. PICK z \in R \ S : z.at >= x.at
    BY <1>4
  <2>2. \A y \in S : y.at >= x.at
    BY <1>1, <2>1, RowTimes
  <2>3. S \in SUBSET above(S \cup L)
    BY <2>2
  <2>4. Cardinality(S) <= Cardinality(above(S \cup L)) /\ Cardinality(S) \in Nat
    BY <1>1, <1>3, <2>3, FS_Subset, FS_CardinalityType
  <2> QED
    BY <1>3, <2>4
<1>5. CASE ~\E z \in R \ S : z.at >= x.at
  <2>1. x \notin R
    <3>1. x.at >= x.at
      BY RowTimes
    <3> QED
      BY <1>5, <3>1
  <2>2. above(R \cup L) = above(S \cup L)
    BY <1>1, <1>5
  <2> QED
    BY <2>1, <2>2
<1> QED
  BY <1>4, <1>5

\* A count that is not stale is of no more than there are.
RecentOK ==
    /\ pushed \subseteq Rows /\ IsFiniteSet(lapsed)
    /\ \A w \in Writers : pc[w] = "prune" /\ w \notin stale => count[w] <= Cardinality(recent)
    /\ RecentKeepsNewest

\* What there is more of the recent or of the lapsed does no harm.
LEMMA MoreKept ==
  ASSUME NEW S, NEW T, IsFiniteSet(T), S \subseteq T, NEW x, Cardinality({y \in S : y.at >= x.at}) >= RecentMax
  PROVE  Cardinality({y \in T : y.at >= x.at}) >= RecentMax
<1> DEFINE above(U) == {y \in U : y.at >= x.at}
<1>1. IsFiniteSet(above(T)) /\ above(S) \in SUBSET above(T)
  BY FS_Subset
<1>2. /\ Cardinality(above(S)) <= Cardinality(above(T))
      /\ Cardinality(above(S)) \in Nat /\ Cardinality(above(T)) \in Nat
  BY <1>1, FS_Subset, FS_CardinalityType
<1> QED
  BY <1>2, SizesAssumption

LEMMA AddedRecent ==
  ASSUME PartsOK, CountsOK, RecentOK, NEW w \in Writers, AddRecent(w)
  PROVE  RecentOK'
<1>1. recent' = recent \cup inserted[w] /\ pushed' = pushed \cup inserted[w] /\ UNCHANGED <<stale, lapsed, count>>
  BY DEF AddRecent
<1>2. inserted[w] \subseteq Rows /\ IsFiniteSet(inserted[w])
  BY InsertedFinite DEF AddRecent, Reporting
<1>3. IsFiniteSet(recent) /\ IsFiniteSet(recent') /\ IsFiniteSet(recent' \cup lapsed')
  BY <1>1, <1>2, FS_Union DEF RecentOK, CountsOK
<1>4. pushed' \subseteq Rows /\ IsFiniteSet(lapsed')
  BY <1>1, <1>2 DEF RecentOK
<1>5. ASSUME NEW v \in Writers, pc'[v] = "prune", v \notin stale'
      PROVE  count'[v] <= Cardinality(recent')
  <2>1. pc[v] = "prune" /\ v \notin stale /\ count'[v] = count[v]
    BY <1>1, <1>5 DEF AddRecent, Goto, PartsOK, DeliveriesOK
  <2>2. count[v] <= Cardinality(recent) /\ count[v] \in Nat
    BY <2>1 DEF RecentOK, CountsOK
  <2>3. Cardinality(recent) <= Cardinality(recent') /\ Cardinality(recent) \in Nat /\ Cardinality(recent') \in Nat
    BY <1>1, <1>3, FS_Subset, FS_CardinalityType
  <2> QED
    BY <2>1, <2>2, <2>3
<1>6. ASSUME NEW x \in pushed' \ (recent' \cup lapsed')
      PROVE  Cardinality({y \in recent' \cup lapsed' : y.at >= x.at}) >= RecentMax
  <2>1. x \in pushed \ (recent \cup lapsed)
    BY <1>1, <1>6
  <2>2. Cardinality({y \in recent \cup lapsed : y.at >= x.at}) >= RecentMax
    BY <2>1 DEF RecentOK, RecentKeepsNewest
  <2>3. recent \cup lapsed \subseteq recent' \cup lapsed'
    BY <1>1
  <2> QED
    BY <1>3, <2>2, <2>3, MoreKept
<1> QED
  BY <1>4, <1>5, <1>6 DEF RecentOK, RecentKeepsNewest

LEMMA CountedRecent ==
  ASSUME PartsOK, CountsOK, RecentOK, NEW w \in Writers, CountRecent(w)
  PROVE  RecentOK'
<1>1. UNCHANGED <<recent, pushed, lapsed>> /\ stale' = stale \ {w} /\ count' = [count EXCEPT ![w] = Cardinality(recent)]
  BY DEF CountRecent, stores
<1>2. \A v \in Writers \ {w} : pc'[v] = pc[v]
  BY DEF CountRecent, Goto, PartsOK, DeliveriesOK
<1>3. Cardinality(recent) \in Nat
  BY FS_CardinalityType DEF CountsOK
<1>4. ASSUME NEW v \in Writers, pc'[v] = "prune", v \notin stale'
      PROVE  count'[v] <= Cardinality(recent')
  BY <1>1, <1>2, <1>3, <1>4 DEF RecentOK, CountsOK
<1> QED
  BY <1>1, <1>4 DEF RecentOK, RecentKeepsNewest

\* A count that is not stale leaves one more than the maximum; what a stale one takes has lapsed.
LEMMA PrunedRecent ==
  ASSUME PartsOK, CountsOK, RecentOK, NEW w \in Writers, PruneRecent(w)
  PROVE  RecentOK'
<1> DEFINE n == count[w] - RecentMax - 1
           m == IF n < Cardinality(recent) THEN n ELSE Cardinality(recent)
<1>1. /\ recent' \in Popped(recent, m) /\ UNCHANGED pushed
      /\ lapsed' = IF w \in stale THEN lapsed \cup (recent \ recent') ELSE lapsed
      /\ stale' = {v \in Writers \ {w} : pc[v] = "prune"}
  BY DEF PruneRecent
<1>2. count[w] \in Nat /\ count[w] > 2 * RecentMax /\ RecentMax \in Nat \ {0} /\ Cardinality(recent) \in Nat
  BY FS_CardinalityType, SizesAssumption DEF PruneRecent, CountsOK
<1>3. m \in Nat /\ recent' \subseteq recent /\ IsFiniteSet(recent') /\ Cardinality(recent') = Cardinality(recent) - m
  BY <1>1, <1>2, FS_Subset DEF Popped, CountsOK
<1>4. pushed' \subseteq Rows /\ IsFiniteSet(lapsed')
  BY <1>1, FS_Subset, FS_Union DEF RecentOK, CountsOK
<1>5. \A v \in Writers : pc'[v] = "prune" => v \in stale'
  BY <1>1 DEF PruneRecent, Goto, PartsOK, DeliveriesOK
<1>6. ASSUME NEW x \in pushed' \ (recent' \cup lapsed')
      PROVE  Cardinality({y \in recent' \cup lapsed' : y.at >= x.at}) >= RecentMax
  <2>1. CASE w \in stale
    <3>1. recent' \cup lapsed' = recent \cup lapsed
      BY <1>1, <1>3, <2>1
    <3> QED
      BY <1>1, <1>6, <3>1 DEF RecentOK, RecentKeepsNewest
  <2>2. CASE w \notin stale
    <3>1. lapsed' = lapsed /\ x \in pushed /\ x \notin recent' /\ x \notin lapsed
      BY <1>1, <1>6, <2>2
    <3>2. count[w] <= Cardinality(recent)
      BY <2>2 DEF RecentOK, PruneRecent
    <3>3. Cardinality(recent') >= RecentMax
      BY <1>2, <1>3, <3>2
    <3>4. x \in recent \/ Cardinality({y \in recent \cup lapsed : y.at >= x.at}) >= RecentMax
      BY <3>1 DEF RecentOK, RecentKeepsNewest
    <3>5. x \in Rows /\ recent \in SUBSET Rows /\ IsFiniteSet(recent) /\ IsFiniteSet(lapsed) /\ RecentMax \in Nat
      BY <1>2, <3>1 DEF RecentOK, CountsOK, PartsOK, StoresOK
    <3> HIDE DEF m
    <3>6. Cardinality({y \in recent' \cup lapsed : y.at >= x.at}) >= RecentMax
      BY <1>1, <1>3, <3>1, <3>3, <3>4, <3>5, PoppedKeeps
    <3> QED
      BY <3>1, <3>6
  <2> QED
    BY <2>1, <2>2
<1> QED
  BY <1>4, <1>5, <1>6 DEF RecentOK, RecentKeepsNewest

LEMMA RecentStep ==
  ASSUME PartsOK, CountsOK, RecentOK, [Next]_vars
  PROVE  RecentOK'
<1>1. CASE UNCHANGED <<recent, pops, pc, count>>
  BY <1>1 DEF RecentOK, RecentKeepsNewest, pops
<1>2. ASSUME NEW w \in Writers, WriterStep(w) \/ Fail(w) \/ Crash(w), ~UpdateRecent(w)
      PROVE  RecentOK'
  <2>1. UNCHANGED <<recent, pushed, stale, lapsed>> /\ pc'[w] # "prune"
    BY <1>2, RecentFrame DEF pops
  <2>2. \A v \in Writers \ {w} : pc'[v] = pc[v] /\ count'[v] = count[v]
    BY <1>2, CountFrame
  <2> QED
    BY <2>1, <2>2 DEF RecentOK, RecentKeepsNewest
<1>3. \/ UNCHANGED <<recent, pops, pc, count>>
      \/ \E w \in Writers : (WriterStep(w) \/ Fail(w) \/ Crash(w)) /\ (UpdateRecent(w) \/ ~UpdateRecent(w))
  BY DEF Next, vars, stores, tracked, writer, Submit, PublishChunk, PublishFails
<1> QED
  BY <1>1, <1>2, <1>3, AddedRecent, CountedRecent, PrunedRecent DEF UpdateRecent

\* Pruning keeps the RECENT_LISTENS_MAX most recent of all the listens ever pushed, whatever order they come in and
\* whatever the writers add, count and pop meanwhile; what was popped by a count from before another writer's pop
\* counts as though it were there.
THEOREM RecentKeepsNewestCorrect == Spec => []RecentKeepsNewest
<1> DEFINE Inv == PartsOK /\ CountsOK /\ RecentOK
<1>1. Init => CountsOK /\ RecentOK
  BY FS_EmptySet DEF Init, CountsOK, RecentOK, RecentKeepsNewest
<1>2. Inv /\ [Next]_vars => Inv'
  BY TypeStep, CountsStep, RecentStep
<1>3. Inv => RecentKeepsNewest
  BY DEF RecentOK
<1> QED
  BY <1>1, <1>2, <1>3, TypeInit, PTL DEF Spec

\* The deployment has one writer.
OneWriter == \E w \in Writers : Writers = {w}

\* It never pops by a stale count, ...
NoneLapses == lapsed = {} /\ stale = {}

\* ... so that with one writer the most recent of all the listens ever added to the recent list are in it, through
\* every failure, restart and redelivery.
THEOREM OneWriterKeepsNewest ==
  ASSUME OneWriter
  PROVE  Spec => []NewestAreThere
<1>1. Init => NoneLapses
  BY DEF Init, NoneLapses
<1>2. ASSUME NoneLapses, PartsOK, [Next]_vars
      PROVE  NoneLapses'
  <2>1. CASE UNCHANGED pops
    BY <1>2, <2>1 DEF NoneLapses, pops
  <2>2. ASSUME NEW w \in Writers, UpdateRecent(w)
        PROVE  NoneLapses'
    <3>1. Writers \ {w} = {}
      BY DEF OneWriter
    <3> QED
      BY <1>2, <2>2, <3>1 DEF NoneLapses, UpdateRecent, AddRecent, CountRecent, PruneRecent
  <2>3. ASSUME NEW w \in Writers, WriterStep(w) \/ Fail(w) \/ Crash(w), ~UpdateRecent(w)
        PROVE  NoneLapses'
    BY <1>2, <2>1, <2>3, RecentFrame
  <2>4. \/ UNCHANGED pops
        \/ \E w \in Writers : (WriterStep(w) \/ Fail(w) \/ Crash(w)) /\ (UpdateRecent(w) \/ ~UpdateRecent(w))
    BY <1>2 DEF Next, vars, tracked, Submit, PublishChunk, PublishFails
  <2> QED
    BY <2>1, <2>2, <2>3, <2>4
<1>3. NoneLapses /\ RecentKeepsNewest => NewestAreThere
  BY DEF NoneLapses, RecentKeepsNewest, NewestAreThere
<1>4. Spec => [](PartsOK /\ NoneLapses)
  BY <1>1, <1>2, TypeInit, TypeStep, PTL DEF Spec
<1> QED
  BY <1>3, <1>4, RecentKeepsNewestCorrect, PTL

-----------------------------------------------------------------------------
(* Timescale is written first.                                             *)

\* A writer past the Timescale insert has its rows there, unless they were skipped.
TimescaleFirst ==
    /\ TimescaleHasAll
    /\ \A w \in Writers : pc[w] = "store" => ToSet(data[w]) \subseteq ts \cup skipped

LEMMA TimescaleFirstStep ==
  ASSUME PartsOK, TimescaleFirst, [Next]_vars
  PROVE  TimescaleFirst'
<1>1. CASE UNCHANGED <<ts, ldb, skipped, pc, data>>
  BY <1>1 DEF TimescaleFirst, TimescaleHasAll
<1>2. ASSUME NEW w \in Writers, WriterStep(w) \/ Fail(w) \/ Crash(w)
      PROVE  TimescaleFirst'
  <2>1. \A v \in Writers \ {w} : pc'[v] = pc[v] /\ data'[v] = data[v]
    BY <1>2, WriterFrame
  <2>2. pc \in [Writers -> Pcs]
    BY DEF PartsOK, DeliveriesOK
  <2>3. CASE InsertTimescale(w)
    <3>1. /\ UNCHANGED <<ldb, data>> /\ ts \subseteq ts' /\ skipped \subseteq skipped'
          /\ ToSet(data[w]) \subseteq ts' \cup skipped'
      BY <2>3 DEF InsertTimescale
    <3> QED
      BY <2>1, <3>1 DEF TimescaleFirst, TimescaleHasAll
  <2>4. CASE InsertListens(w)
    <3>1. /\ ldb' = ldb \cup ToSet(data[w]) /\ UNCHANGED <<ts, skipped, data>>
          /\ pc[w] = "store" /\ pc'[w] # "store"
      BY <2>2, <2>4 DEF InsertListens, tracked, Goto
    <3> QED
      BY <2>1, <3>1 DEF TimescaleFirst, TimescaleHasAll
  <2>5. CASE ~ InsertTimescale(w) /\ ~ InsertListens(w)
    <3>1. UNCHANGED <<ts, ldb, skipped>> /\ pc'[w] # "store"
      BY <1>2, <2>2, <2>5
         DEF WriterStep, Deliver, Lookup, Register, Account, UpdateRecent, AddRecent, CountRecent, PruneRecent,
         PublishUnique, PublishRejection, Ack, Fail,
             Crash, Forget, stores, tracked, Goto
    <3> QED
      BY <2>1, <3>1 DEF TimescaleFirst, TimescaleHasAll
  <2> QED
    BY <2>3, <2>4, <2>5
<1>3. ASSUME NEW c \in Clients, Submit(c) \/ PublishChunk(c) \/ PublishFails(c)
      PROVE  TimescaleFirst'
  BY <1>1, <1>3, ClientFrame DEF writer, stores, tracked
<1> QED
  BY <1>1, <1>2, <1>3 DEF Next, vars, writer, stores, tracked

\* insert_to_listenstore() writes Timescale before the listens database: no order of failures, redeliveries and
\* writers leaves a row that only the listens database has, but for the batches that Timescale could not store.
THEOREM TimescaleHasAllCorrect == Spec => []TimescaleHasAll
<1> DEFINE Inv == PartsOK /\ TimescaleFirst
<1>1. Init => TimescaleFirst
  BY DEF Init, TimescaleFirst, TimescaleHasAll
<1>2. Inv /\ [Next]_vars => Inv'
  BY TypeStep, TimescaleFirstStep
<1>3. Inv => TimescaleHasAll
  BY DEF TimescaleFirst
<1> QED
  BY <1>1, <1>2, <1>3, TypeInit, PTL DEF Spec

-----------------------------------------------------------------------------
(* One writer implements ListenDelivery.                                   *)

\* A recording gets its MSID once, and no listen a second row.
Registered ==
    /\ earliest = msids /\ \A r \in Recordings : msids[r] \in {0, 1}
    /\ \A x \in ldb : x.msid = 1
    /\ \A w \in Writers :
          /\ pc[w] = "register" => \A r \in DOMAIN found[w] : found[w][r] = earliest[r]
          /\ pc[w] \in Writing => \A i \in DOMAIN data[w] : data[w][i].msid = 1

LEMMA MembersOf ==
  ASSUME NEW S, NEW s \in Seq(S)
  PROVE  ToSet(s) \subseteq S /\ (s # <<>> => ToSet(s) # {})
<1>1. \A i \in DOMAIN s : s[i] \in S
  OBVIOUS
<1>2. ASSUME s # <<>> PROVE s[1] \in ToSet(s)
  <2>1. Len(s) > 0 /\ 1 \in DOMAIN s
    BY <1>2
  <2> QED
    BY <2>1 DEF ToSet
<1> QED
  BY <1>1, <1>2 DEF ToSet

LEMMA RegisteredStep ==
  ASSUME OneWriter, PartsOK, Registered, [Next]_vars
  PROVE  Registered'
<1>1. CASE UNCHANGED <<msids, earliest, ldb, pc, found, data>>
  BY <1>1 DEF Registered
<1>2. ASSUME NEW c \in Clients, Submit(c) \/ PublishChunk(c) \/ PublishFails(c)
      PROVE  Registered'
  BY <1>1, <1>2, ClientFrame DEF stores, writer
<1>3. ASSUME NEW w \in Writers, WriterStep(w) \/ Fail(w) \/ Crash(w)
      PROVE  Registered'
  <2>1. \A v \in Writers : v = w
    BY DEF OneWriter
  <2>2. pc \in [Writers -> Pcs]
    BY DEF PartsOK, DeliveriesOK
  <2>3. CASE Lookup(w)
    <3>1. UNCHANGED <<msids, earliest, ldb>> /\ pc'[w] = "register"
      BY <2>2, <2>3 DEF Lookup, stores, Goto
    <3>2. \A r \in DOMAIN found'[w] : found'[w][r] = earliest[r]
      BY <2>3 DEF Lookup, PartsOK, DeliveriesOK
    <3> QED
      BY <2>1, <3>1, <3>2 DEF Registered, Writing
  <2>4. CASE Register(w)
    <3>1. /\ BatchOK(w)' /\ UNCHANGED ldb /\ pc'[w] = "timescale" /\ pc[w] = "register" /\ UNCHANGED incoming
          /\ msids' \in [Recordings -> Nat] /\ earliest' \in [Recordings -> Nat]
          /\ UNCHANGED <<found, msg>>
      BY <2>2, <2>4, RegisterBatch DEF Register, queues, Goto
    <3>2. Body(w)' = Body(w) /\ Body(w) \in Seq(Listens)
      BY <3>1, BodyType DEF Body
    <3>3. found[w] \in [{l.rec : l \in ToSet(Body(w))} -> Nat] /\ DOMAIN found[w] \subseteq Recordings
      <4>1. found[w] \in [{l.rec : l \in ToSet(Body(w))} -> Nat]
        BY <3>1 DEF PartsOK, WorkOK
      <4>2. ToSet(Body(w)) \subseteq Listens
        BY <3>2, MembersOf
      <4> QED
        BY <4>1, <4>2 DEF Recordings
    <3>4. \A r \in DOMAIN found[w] : found[w][r] = msids[r] /\ earliest[r] = msids[r]
      BY <3>1 DEF Registered
    <3>5. \A r \in Missing(w) : earliest[r] = 0 /\ msids[r] = 0
      BY <3>4 DEF Missing
    <3>6. \A r \in Recordings : msids'[r] = IF r \in Missing(w) THEN 1 ELSE msids[r]
      BY <2>4, <3>3, <3>5 DEF Register, Missing, PartsOK, StoresOK
    <3>7. \A r \in Recordings : earliest'[r] = msids'[r]
      <4>1. PICK E \in SUBSET {r \in Missing(w) : earliest[r] # 0} :
               earliest' = [r \in Recordings |->
                              IF r \in E \/ (r \in Missing(w) /\ earliest[r] = 0) THEN msids'[r] ELSE earliest[r]]
        BY <2>4 DEF Register
      <4> QED
        BY <3>5, <3>6, <4>1 DEF Registered
    <3>8. earliest' = msids'
      BY <3>1, <3>7
    <3>9. \A r \in Recordings : msids'[r] \in {0, 1}
      BY <3>6 DEF Registered
    <3>10. \A r \in DOMAIN found[w] : Msid(w, r) = 1
      BY <3>3, <3>4, <3>6 DEF Msid, Missing, Registered
    <3>11. \A i \in DOMAIN data'[w] : data'[w][i].msid = 1
      <4>1. DOMAIN data'[w] = DOMAIN Body(w)
        BY <3>1, <3>2 DEF BatchOK
      <4>2. \A i \in DOMAIN Body(w) : data'[w][i].msid = Msid(w, Body(w)[i].rec)
        BY <2>4, RegisterBatch
      <4>3. \A i \in DOMAIN Body(w) : Body(w)[i].rec \in DOMAIN found[w]
        BY <3>3 DEF ToSet
      <4> QED
        BY <3>10, <4>1, <4>2, <4>3
    <3> QED
      BY <2>1, <3>1, <3>8, <3>9, <3>11 DEF Registered
  <2>5. CASE InsertListens(w)
    <3>1. /\ UNCHANGED <<msids, earliest, data>> /\ ldb' = ldb \cup ToSet(data[w])
          /\ pc[w] \in Writing /\ pc'[w] # "register"
      BY <2>2, <2>5 DEF InsertListens, Goto, Writing
    <3>2. \A x \in ToSet(data[w]) : x.msid = 1
      BY <3>1 DEF Registered, ToSet
    <3> QED
      BY <2>1, <3>1, <3>2 DEF Registered
  <2>6. CASE InsertTimescale(w) \/ Account(w) \/ UpdateRecent(w) \/ PublishUnique(w)
    <3>1. UNCHANGED <<msids, earliest, ldb, data>> /\ pc[w] \in Writing /\ pc'[w] # "register"
      BY <2>2, <2>6 DEF InsertTimescale, Account, UpdateRecent, AddRecent, CountRecent, PruneRecent, PublishUnique,
           stores, Goto, Writing
    <3> QED
      BY <2>1, <3>1 DEF Registered
  <2>7. CASE Deliver(w) \/ PublishRejection(w) \/ Ack(w) \/ Fail(w) \/ Crash(w)
    <3>1. UNCHANGED <<msids, earliest, ldb>> /\ pc'[w] \notin Writing \cup {"register"}
      BY <2>2, <2>7 DEF Deliver, PublishRejection, Ack, Fail, Crash, Forget, stores, Goto, Writing
    <3> QED
      BY <2>1, <3>1 DEF Registered
  <2> QED
    BY <1>3, <2>3, <2>4, <2>5, <2>6, <2>7 DEF WriterStep
<1> QED
  BY <1>1, <1>2, <1>3 DEF Next, vars, stores, writer

\* Rows of the listens database are told apart by what was submitted.
LEMMA StripInjective ==
  ASSUME Registered, PartsOK, NEW x \in ldb, NEW y \in ldb, Strip(x) = Strip(y)
  PROVE  x = y
<1>1. x \in Rows /\ y \in Rows /\ x.msid = y.msid
  BY DEF PartsOK, StoresOK, Registered
<1>2. x.user = y.user /\ x.at = y.at /\ x.rec = y.rec
  BY DEF Strip
<1> QED
  BY <1>1, <1>2 DEF Rows

RefinementInv == PartsOK /\ AllSettled /\ Reports /\ Distinct /\ Registered

LEMMA OpenListens ==
  ASSUME PartsOK
  PROVE  Open \subseteq Listens
<1>1. ASSUME NEW m \in DOMAIN incoming
      PROVE  ToSet(incoming[m].body) \subseteq Listens
  <2>1. incoming[m] \in Messages
    BY DEF PartsOK, StoresOK, RequestsOK
  <2>2. incoming[m].body \in Seq(Listens)
    BY <2>1 DEF Messages
  <2> QED
    BY <2>2, MembersOf
<1> QED
  BY <1>1 DEF Open

\* What reaches the queue is accepted.
LEMMA PublishAccepts ==
  ASSUME RefinementInv, NEW c \in Clients, PublishChunk(c) \/ PublishFails(c)
  PROVE  Delivery!Next \/ UNCHANGED Delivery!vars
<1>1. PICK n \in 0..2 : Enqueue(c, n)
  BY DEF PublishChunk, PublishFails
<1>2. PartsOK /\ api[c] = "sending"
  BY <1>1 DEF Enqueue, RefinementInv
<1>3. UNCHANGED <<Stored, Rejected, AnnouncedListens>>
  BY DEF PublishChunk, PublishFails, stores, Stored, Rejected, AnnouncedListens
<1>4. /\ \A m \in DOMAIN incoming : m \in DOMAIN incoming' /\ incoming'[m] = incoming[m]
      /\ \A m \in DOMAIN incoming' \ DOMAIN incoming : incoming'[m] = [body |-> NextChunk(c), state |-> "queued"]
      /\ incoming' \in Seq(Messages) /\ Len(incoming') = Len(incoming) + n
  BY <1>1, <1>2, EnqueueEffect
<1>5. CASE DOMAIN incoming' = DOMAIN incoming
  <2>1. Open' = Open
    BY <1>4, <1>5 DEF Open
  <2> QED
    BY <1>3, <2>1 DEF Delivery!vars
<1>6. CASE DOMAIN incoming' # DOMAIN incoming
  <2> DEFINE S == ToSet(NextChunk(c))
  <2>1. PICK m \in DOMAIN incoming' : m \notin DOMAIN incoming
    BY <1>4, <1>6
  <2>2. S \subseteq Open'
    BY <1>4, <2>1 DEF Open
  <2>3. Open' = Open \cup S
    BY <1>4, <2>2 DEF Open
  <2>4. NextChunk(c) \in Seq(Listens) /\ NextChunk(c) # <<>>
    BY <1>2, ChunkOf
  <2>5. S \in (SUBSET Listens) \ {{}}
    BY <2>4, MembersOf
  <2>6. Delivery!Accept(S)
    BY <1>3, <2>3 DEF Delivery!Accept
  <2> QED
    BY <2>5, <2>6 DEF Delivery!Next
<1> QED
  BY <1>5, <1>6

\* The insertion stores what was open and is not stored yet.
LEMMA InsertStores ==
  ASSUME RefinementInv, NEW w \in Writers, InsertListens(w)
  PROVE  Delivery!Next \/ UNCHANGED Delivery!vars
<1>1. PartsOK /\ pc[w] # "idle" /\ pc[w] \in Writing /\ UNCHANGED <<incoming, unique, rejection>>
  BY DEF RefinementInv, InsertListens, Writing, queues
<1>2. UNCHANGED <<Open, Rejected, AnnouncedListens>>
  BY <1>1 DEF Open, Rejected, AnnouncedListens
<1>3. BatchOK(w) /\ msg[w] \in DOMAIN incoming /\ incoming[msg[w]].state = "unacked"
  BY <1>1 DEF PartsOK, WorkOK, DeliveriesOK
<1>4. ToSet(Body(w)) \subseteq Open
  BY <1>3 DEF Body, Open
<1>5. \A x \in ToSet(data[w]) : Strip(x) \in ToSet(Body(w))
  BY <1>3 DEF BatchOK, ToSet
<1> DEFINE S == {Strip(x) : x \in ToSet(data[w])} \ Stored
<1>6. Stored' = Stored \cup S
  BY DEF InsertListens, Stored
<1>7. S \subseteq Open \ Stored
  BY <1>4, <1>5
<1> HIDE DEF S
<1>8. CASE S = {}
  BY <1>2, <1>6, <1>8 DEF Delivery!vars
<1>9. CASE S # {}
  <2>1. S \in (SUBSET Listens) \ {{}}
    BY <1>1, <1>7, <1>9, OpenListens
  <2>2. Delivery!Store(S)
    BY <1>2, <1>6, <1>7 DEF Delivery!Store
  <2> QED
    BY <2>1, <2>2 DEF Delivery!Next
<1> QED
  BY <1>8, <1>9

LEMMA RejectionRejects ==
  ASSUME RefinementInv, NEW w \in Writers, PublishRejection(w)
  PROVE  Delivery!Next
<1>1. PartsOK /\ pc[w] # "idle" /\ UNCHANGED <<incoming, unique, ldb>>
  BY DEF RefinementInv, PublishRejection, stores
<1>2. UNCHANGED <<Open, Stored, AnnouncedListens>>
  BY <1>1 DEF Open, Stored, AnnouncedListens
<1>3. Rejected' = Rejected \cup ToSet(Body(w))
  BY <1>1, RejectionSettles
<1>4. ToSet(Body(w)) \subseteq Open
  BY <1>1 DEF Body, Open, PartsOK, DeliveriesOK
<1>5. ToSet(Body(w)) # {}
  BY <1>1, BodyType, MembersOf
<1>6. ToSet(Body(w)) \in (SUBSET Listens) \ {{}}
  BY <1>1, <1>4, <1>5, OpenListens
<1>7. Delivery!Reject(ToSet(Body(w)))
  BY <1>2, <1>3, <1>4 DEF Delivery!Reject
<1> QED
  BY <1>6, <1>7 DEF Delivery!Next

\* An acknowledgement lets go of what is stored or rejected.
LEMMA AckSettles ==
  ASSUME RefinementInv, NEW w \in Writers, Ack(w)
  PROVE  Delivery!Next \/ UNCHANGED Delivery!vars
<1>1. PartsOK /\ UNCHANGED <<unique, ldb, rejection>>
  BY DEF RefinementInv, Ack, stores
<1>2. UNCHANGED <<Stored, Rejected, AnnouncedListens>>
  BY <1>1 DEF Stored, Rejected, AnnouncedListens
<1>3. ToSet(Body(w)) \subseteq Stored \cup Rejected
  BY DEF RefinementInv, AllSettled, Settled, Ack
<1>4. /\ DOMAIN incoming' = DOMAIN incoming
      /\ \A m \in DOMAIN incoming : incoming'[m].body = incoming[m].body
      /\ \A m \in DOMAIN incoming : incoming'[m].state = "acked" => incoming[m].state = "acked" \/ m = msg[w]
      /\ \A m \in DOMAIN incoming : incoming[m].state = "acked" => incoming'[m].state = "acked"
  BY <1>1, QueueFrame DEF WriterStep
<1>5. Open' \subseteq Open
  BY <1>4 DEF Open
<1>6. Open \ Open' \subseteq ToSet(Body(w))
  <2>1. \A m \in DOMAIN incoming : incoming[m].state # "acked" /\ m # msg[w] => ToSet(incoming[m].body) \subseteq Open'
    BY <1>4 DEF Open
  <2> QED
    BY <2>1 DEF Open, Body
<1> DEFINE S == Open \ Open'
<1>7. Open' = Open \ S /\ S \subseteq Stored \cup Rejected
  BY <1>3, <1>5, <1>6
<1>8. CASE S = {}
  <2>1. Open' = Open
    BY <1>5, <1>8
  <2> QED
    BY <1>2, <2>1 DEF Delivery!vars
<1>9. CASE S # {}
  <2>1. S \in (SUBSET Listens) \ {{}}
    BY <1>1, <1>9, OpenListens
  <2>2. Delivery!Settle(S)
    BY <1>2, <1>7 DEF Delivery!Settle
  <2> QED
    BY <2>1, <2>2 DEF Delivery!Next
<1> QED
  BY <1>8, <1>9

\* A message of the unique queue as its consumers tell it.
StripMessage(f) == [i \in DOMAIN f |-> Strip(f[i])]

\* A publication announces the stored listens that no message has announced.
LEMMA PublicationAnnounces ==
  ASSUME RefinementInv, NEW w \in Writers, PublishUnique(w)
  PROVE  Delivery!Next
<1>1. PartsOK /\ pc[w] = "publish" /\ UNCHANGED <<incoming, rejection, ldb>>
  BY DEF RefinementInv, PublishUnique, stores
<1>2. UNCHANGED <<Open, Stored, Rejected>>
  BY <1>1 DEF Open, Stored, Rejected
<1>3. BatchOK(w) /\ msg[w] \in DOMAIN incoming /\ inserted[w] # {} /\ inserted[w] \subseteq ToSet(data[w])
  BY <1>1 DEF PartsOK, WorkOK, DeliveriesOK, Writing, Reporting
<1> DEFINE D == {i \in DOMAIN data[w] : data[w][i] \in inserted[w]}
           row == Restrict(data[w], D)
           new == StripMessage(row)
           told == [m \in DOMAIN unique |-> StripMessage(unique[m])]
           n == Len(unique)
<1>4. /\ unique \in Seq(Announcements) /\ unique' \in Seq(Announcements)
      /\ n \in Nat /\ DOMAIN unique = 1..n /\ DOMAIN unique' = 1..(n + 1)
      /\ \A m \in 1..n : unique'[m] = unique[m]
      /\ unique'[n + 1] = row /\ Range(row) = inserted[w]
  BY <1>1, AnnouncesInserted DEF RefinementInv, Reports
<1>5. AnnouncedListens = told /\ AnnouncedListens' = [m \in DOMAIN unique' |-> StripMessage(unique'[m])]
  BY DEF AnnouncedListens, StripMessage
<1>6. /\ DOMAIN new = D /\ \A i \in D : new[i] = Strip(data[w][i])
      /\ Range(new) = {Strip(x) : x \in inserted[w]}
  <2>1. DOMAIN row = D /\ \A i \in D : row[i] = data[w][i]
    BY DEF Restrict
  <2>2. DOMAIN new = D /\ \A i \in D : new[i] = Strip(row[i])
    BY <2>1 DEF StripMessage
  <2>3. inserted[w] = {row[i] : i \in D}
    BY <1>4, <2>1 DEF Range
  <2>4. Range(new) = {Strip(row[i]) : i \in D}
    BY <2>2 DEF Range
  <2>5. {Strip(row[i]) : i \in D} = {Strip(x) : x \in inserted[w]}
    <3> HIDE DEF D, row
    <3> QED
      BY <2>3
  <2> QED
    BY <2>1, <2>2, <2>4, <2>5
<1>7. told \in Seq({StripMessage(f) : f \in Announcements}) /\ Len(told) = n /\ DOMAIN told = 1..n
  <2>1. \A m \in 1..n : unique[m] \in Announcements
    BY <1>4
  <2> QED
    BY <1>4, <2>1
<1>8. AnnouncedListens' = Append(told, new)
  <2>1. \A m \in 1..n : StripMessage(unique'[m]) = told[m]
    BY <1>4
  <2>2. DOMAIN AnnouncedListens' = 1..(n + 1) /\ \A m \in 1..(n + 1) : AnnouncedListens'[m] = StripMessage(unique'[m])
    BY <1>4, <1>5
  <2> DEFINE S == {StripMessage(f) : f \in Announcements}
  <2>3. new \in S /\ \A m \in 1..(n + 1) : StripMessage(unique'[m]) \in S
    <3>1. \A m \in 1..(n + 1) : unique'[m] \in Announcements
      BY <1>4
    <3>2. n + 1 \in 1..(n + 1)
      BY <1>4
    <3> QED
      BY <1>4, <3>1, <3>2
  <2>4. StripMessage(unique'[n + 1]) = new
    BY <1>4
  <2> HIDE DEF told, new, n, S
  <2>5. told \in Seq(S) /\ Len(told) = n
    BY <1>7 DEF S
  <2>6. AnnouncedListens' \in Seq(S) /\ Len(AnnouncedListens') = n + 1
    <3>1. Len(unique') = n + 1 /\ n + 1 \in Nat
      BY <1>4, <1>5
    <3>2. AnnouncedListens' \in [1..(n + 1) -> S]
      BY <1>5, <2>2, <2>3
    <3> QED
      BY <3>1, <3>2
  <2>7. /\ Append(told, new) \in Seq(S) /\ Len(Append(told, new)) = n + 1
        /\ \A m \in 1..n : Append(told, new)[m] = told[m]
        /\ Append(told, new)[n + 1] = new
    BY <2>3, <2>5, AppendProperties
  <2>8. ASSUME NEW m \in 1..(n + 1)
        PROVE  AnnouncedListens'[m] = Append(told, new)[m]
    <3>1. m \in 1..n \/ m = n + 1
      BY <1>4
    <3> QED
      BY <2>1, <2>2, <2>4, <2>7, <3>1
  <2> QED
    BY <2>6, <2>7, <2>8, SeqEqual
<1>9. IsInjective(new)
  <2>1. IsInjective(Body(w))
    BY <1>3 DEF RefinementInv, Distinct, Body
  <2>2. \A i \in D : new[i] = Body(w)[i] /\ i \in DOMAIN Body(w)
    BY <1>3, <1>6 DEF BatchOK
  <2> QED
    BY <1>6, <2>1, <2>2 DEF IsInjective
<1>10. Range(new) # {} /\ Range(new) \subseteq Stored
  <2>1. inserted[w] \subseteq ldb
    BY DEF RefinementInv, Reports
  <2> HIDE DEF D, row, new
  <2>2. {Strip(x) : x \in inserted[w]} # {}
    BY <1>3
  <2>3. {Strip(x) : x \in inserted[w]} \subseteq Stored
    BY <2>1 DEF Stored
  <2> QED
    BY <1>6, <2>2, <2>3
<1>11. \A m \in 1..n : Range(told[m]) \cap Range(new) = {}
  <2>1. SUFFICES ASSUME NEW m \in 1..n, NEW i \in DOMAIN told[m], told[m][i] \in Range(new)
                 PROVE  FALSE
    BY DEF Range
  <2>2. i \in DOMAIN unique[m] /\ told[m][i] = Strip(unique[m][i])
    BY <1>4, <2>1 DEF StripMessage
  <2>3. PICK x \in inserted[w] : Strip(x) = Strip(unique[m][i])
    BY <1>6, <2>1, <2>2
  <2>4. unique[m][i] \in Announced
    BY <1>4, <2>2 DEF Announced, Range
  <2>5. unique[m][i] \in ldb /\ x \in ldb /\ x \notin Announced
    BY <2>3, <2>4 DEF RefinementInv, Reports
  <2>6. x = unique[m][i]
    BY <1>1, <2>3, <2>5, StripInjective DEF RefinementInv
  <2> QED
    BY <2>4, <2>5, <2>6
<1> HIDE DEF D, row, new, told, n
<1>12. Last(AnnouncedListens') = new /\ AnnouncedListens' # <<>>
  BY <1>4, <1>7, <1>8 DEF Last
<1>13. Delivery!IsInjective(new) /\ Delivery!Last(AnnouncedListens') = new
  BY <1>9, <1>12 DEF IsInjective, Delivery!IsInjective, Last, Delivery!Last
<1>14. Range(new) \cap Delivery!Told = {}
  BY <1>5, <1>7, <1>11 DEF Delivery!Told, Delivery!Range, Range
<1>15. Range(new) = Delivery!Range(new)
  BY DEF Delivery!Range, Range
<1>16. Delivery!Announce
  BY <1>2, <1>5, <1>8, <1>10, <1>12, <1>13, <1>14, <1>15 DEF Delivery!Announce
<1> QED
  BY <1>16 DEF Delivery!Next

\* The other steps of a writer are its own business.
LEMMA StutteringStep ==
  ASSUME PartsOK,
         \/ UNCHANGED vars
         \/ \E c \in Clients : Submit(c)
         \/ \E w \in Writers : \/ Deliver(w) \/ Lookup(w) \/ Register(w) \/ InsertTimescale(w)
                               \/ Account(w) \/ UpdateRecent(w) \/ Fail(w) \/ Crash(w)
  PROVE  UNCHANGED Delivery!vars
<1>1. UNCHANGED <<unique, ldb, rejection>>
  BY DEF vars, stores, queues, Submit, Deliver, Lookup, Register, InsertTimescale, Account, UpdateRecent, AddRecent,
       CountRecent, PruneRecent, Fail, Crash
<1>2. UNCHANGED <<Stored, Rejected, AnnouncedListens>>
  BY <1>1 DEF Stored, Rejected, AnnouncedListens
<1>3. CASE UNCHANGED incoming
  BY <1>2, <1>3 DEF Open, Delivery!vars
<1>4. ASSUME NEW w \in Writers, Deliver(w) \/ Crash(w)
      PROVE  UNCHANGED Delivery!vars
  <2>1. /\ DOMAIN incoming' = DOMAIN incoming
        /\ \A m \in DOMAIN incoming : /\ incoming'[m].body = incoming[m].body
                                      /\ incoming'[m].state = "acked" <=> incoming[m].state = "acked"
    <3>1. CASE Deliver(w)
      <4>1. PICK m \in DOMAIN incoming : incoming[m].state = "queued" /\ incoming' = [incoming EXCEPT ![m].state = "unacked"]
        BY <3>1 DEF Deliver
      <4> QED
        BY <4>1, StateEffect
    <3>2. CASE Crash(w)
      <4>1. msg[w] \in DOMAIN incoming /\ incoming[msg[w]].state = "unacked"
        BY <3>2 DEF Crash, PartsOK, DeliveriesOK
      <4> QED
        BY <3>2, <4>1, StateEffect DEF Crash
    <3> QED
      BY <1>4, <3>1, <3>2
  <2>2. Open' = Open
    BY <2>1 DEF Open
  <2> QED
    BY <1>2, <2>2 DEF Delivery!vars
<1> QED
  BY <1>3, <1>4 DEF vars, queues, Submit, Lookup, Register, InsertTimescale, Account, UpdateRecent, AddRecent,
       CountRecent, PruneRecent, Fail

LEMMA DeliveryStep ==
  ASSUME RefinementInv, [Next]_vars
  PROVE  [Delivery!Next]_Delivery!vars
<1>1. ASSUME NEW c \in Clients, PublishChunk(c) \/ PublishFails(c)
      PROVE  [Delivery!Next]_Delivery!vars
  BY <1>1, PublishAccepts
<1>2. ASSUME NEW w \in Writers, InsertListens(w) \/ PublishRejection(w) \/ Ack(w) \/ PublishUnique(w)
      PROVE  [Delivery!Next]_Delivery!vars
  BY <1>2, InsertStores, RejectionRejects, AckSettles, PublicationAnnounces
<1>3. \/ UNCHANGED vars
      \/ \E c \in Clients : Submit(c)
      \/ \E w \in Writers : \/ Deliver(w) \/ Lookup(w) \/ Register(w) \/ InsertTimescale(w)
                            \/ Account(w) \/ UpdateRecent(w) \/ Fail(w) \/ Crash(w)
      \/ \E c \in Clients : PublishChunk(c) \/ PublishFails(c)
      \/ \E w \in Writers : InsertListens(w) \/ PublishRejection(w) \/ Ack(w) \/ PublishUnique(w)
  BY DEF Next, WriterStep
<1> QED
  BY <1>1, <1>2, <1>3, StutteringStep DEF RefinementInv

\* The pipeline of one writer, fed with batches that do not repeat a listen, keeps the promise of ListenDelivery
\* whatever fails: what the API accepted is let go of only once it is stored or rejected, and what the unique queue
\* announces is stored, and announced once.
THEOREM DeliveryRefined ==
  ASSUME OneWriter, RepeatFree
  PROVE  Spec => DeliverySpec
<1>1. Init => RefinementInv /\ Delivery!Init
  <2>1. Init => Registered
    BY DEF Init, Registered, Writing
  <2>2. Init => AllSettled
    BY DEF Init, AllSettled, Settled, Reporting
  <2>3. Init => Delivery!Init
    BY DEF Init, Open, Stored, Rejected, AnnouncedListens, Delivery!Init
  <2> QED
    BY <2>1, <2>2, <2>3, TypeInit, ReportsInit, DistinctInit DEF RefinementInv
<1>2. RefinementInv /\ [Next]_vars => RefinementInv'
  BY TypeStep, SettledStep, ReportsStep, DistinctStep, RegisteredStep DEF RefinementInv
<1>3. RefinementInv /\ [Next]_vars => [Delivery!Next]_Delivery!vars
  BY DeliveryStep
<1> QED
  BY <1>1, <1>2, <1>3, PTL DEF Spec, DeliverySpec, Delivery!Spec

\* MessyBrainzWriter looks an MSID up before it registers one: with one writer no redelivery, retry or crash between the
\* two makes it register a recording twice, so that a listen submitted again is recognised as a duplicate.
THEOREM OneMsidCorrect ==
  ASSUME OneWriter
  PROVE  Spec => []OneMsid
<1>1. Init => PartsOK /\ Registered
  BY TypeInit DEF Init, Registered, Writing
<1>2. PartsOK /\ Registered /\ [Next]_vars => PartsOK' /\ Registered'
  BY TypeStep, RegisteredStep
<1>3. Registered => OneMsid
  BY DEF Registered, OneMsid
<1> QED
  BY <1>1, <1>2, <1>3, PTL DEF Spec

-----------------------------------------------------------------------------
(* ListensImporters: the importers of external services, which feed the    *)
(* pipeline.  What insert_payload accepts from them is queued.             *)

\* The rows of external_service_oauth and listens_importer, and the user's view of what was imported.
ConnectionOK ==
    /\ issued \in Nat /\ changes \in Nat /\ valid \subseteq 1..issued
    /\ oauth \in {Absent} \cup [id : 1..changes, token : 0..issued]
    /\ importer \in {Absent} \cup [oauth : Nat, latest : 0..played, error : {"none", "retry", "final"}]
    /\ importer # Absent => importer.oauth = 0 \/ Joined
    /\ web \in {Idle} \cup [at : {"refresh", "store"}, token : 0..issued]

PlaysOK == played \in Nat /\ queued \subseteq 1..played /\ since \in Nat

\* The user's turn in the importer's batch.
TurnOK ==
    /\ run \in {Idle, [at |-> "refused"]}
               \cup [at : {"user", "store", "plays"}, latest : 0..played, token : 0..issued]
               \cup [at : {"page"}, latest : 0..played, page : Nat]
               \cup [at : {"record"}, latest : 0..played, page : Nat \ {0}, newest : 0..played]
               \cup [at : {"recent"}, newest : 0..played, omitted : SUBSET (1..played)]
    /\ overtaken \in BOOLEAN
    /\ overtaken => Working

ImportTypes == ConnectionOK /\ PlaysOK /\ TurnOK

\* The plays after s, up to l, are among q.
Behind(s, q, l) == \A p \in Nat : s < p /\ p <= l => p \in q

\* What lies behind the recorded time has been accepted.
RecordedKept == Joined => Behind(since, queued \cup excused, importer.latest)

\* A turn that nothing has overtaken goes from the recorded time to the newest play without leaving one out: the
\* pages before this one hold all the later plays.
TurnKept ==
    ~overtaken =>
        /\ run.at \in {"user", "store", "plays", "page", "record"} => Behind(since, queued \cup excused, run.latest)
        /\ run.at = "page" => Behind(run.latest, queued, played - run.page * PageSize)
        /\ run.at = "record" => /\ Behind(run.latest, queued, played - (run.page - 1) * PageSize)
                                /\ run.newest <= played - (run.page - 1) * PageSize
        /\ run.at = "recent" => Behind(since, queued \cup excused \cup run.omitted, run.newest)

ImportInv == ImportTypes /\ RecordedKept /\ TurnKept

-----------------------------------------------------------------------------

LEMMA BehindMore ==
  ASSUME NEW s, NEW q, NEW r, q \subseteq r, NEW l \in Int, NEW k \in Int, k <= l, Behind(s, q, l)
  PROVE  Behind(s, r, k)
  BY DEF Behind

LEMMA BehindJoins ==
  ASSUME NEW s \in Nat, NEW l \in Nat, NEW m \in Int, NEW q, NEW e,
         Behind(s, q \cup e, l), Behind(l, q, m)
  PROVE  Behind(s, q \cup e, m)
  BY DEF Behind

\* The plays after a time are counted, and the pages hold them all.
LEMMA PagesCover ==
  ASSUME played \in Nat, NEW latest \in 0..played
  PROVE  /\ total_pages(latest) \in Nat
         /\ played - total_pages(latest) * PageSize <= latest
<1> USE PageAssumption
<1>1. After(latest) = (latest + 1)..played
  BY DEF After
<1>2. Cardinality(After(latest)) = played - latest
  <2>1. Cardinality((latest + 1)..played) = IF latest + 1 > played THEN 0 ELSE played - (latest + 1) + 1
    BY FS_Interval
  <2> QED
    BY <1>1, <2>1
<1> DEFINE n == played - latest + PageSize - 1
<1>3. n \in Nat /\ n \div PageSize \in Nat /\ n < (n \div PageSize + 1) * PageSize
  <2>1. n \in Nat
    OBVIOUS
  <2> HIDE DEF n
  <2> QED
    BY <2>1
<1>4. n \div PageSize = total_pages(latest)
  BY <1>2 DEF total_pages
<1>5. (n \div PageSize + 1) * PageSize = (n \div PageSize) * PageSize + PageSize
  BY <1>3
<1> QED
  BY <1>3, <1>4, <1>5

LEMMA ImportInit == ImportersInit => ImportInv
<1> SUFFICES ASSUME ImportersInit PROVE ImportInv
  OBVIOUS
<1>1. ConnectionOK /\ PlaysOK /\ TurnOK
  BY DEF ImportersInit, ConnectionOK, PlaysOK, TurnOK, Idle, Working
<1>2. RecordedKept /\ TurnKept
  BY DEF ImportersInit, RecordedKept, TurnKept, Joined, Idle
<1> QED
  BY <1>1, <1>2 DEF ImportInv, ImportTypes

-----------------------------------------------------------------------------
(* The pages, and their newest plays. *)

LEMMA NewestIsIn ==
  ASSUME NEW plays, NEW m \in plays, \A q \in plays : q <= m
  PROVE  Newest(plays) \in plays
  BY DEF Newest

\* The newest play on a page is the one that its number counts to.
LEMMA NewestOnPage ==
  ASSUME played \in Nat, NEW latest \in 0..played, NEW page \in Nat \ {0},
         Page(latest, page) # {}
  PROVE  Newest(Page(latest, page)) \in Page(latest, page)
<1> USE PageAssumption
<1> DEFINE b == (page - 1) * PageSize
<1>1. b \in Nat /\ page * PageSize = b + PageSize
  <2>1. \A x \in Nat : x * PageSize \in Nat /\ (x + 1) * PageSize = x * PageSize + PageSize
    OBVIOUS
  <2>2. page - 1 \in Nat /\ (page - 1) + 1 = page
    OBVIOUS
  <2> QED
    BY <2>1, <2>2
<1>2. Page(latest, page) = {p \in 1..played : p > latest /\ b <= played - p /\ played - p < b + PageSize}
  BY <1>1 DEF Page, After
<1> HIDE DEF b
<1>3. PICK p \in 1..played : p > latest /\ b <= played - p
  BY <1>2
<1>4. played - b \in Page(latest, page) /\ \A q \in Page(latest, page) : q <= played - b
  BY <1>1, <1>2, <1>3
<1> QED
  BY <1>4, NewestIsIn

\* A page has the plays between it and the pages that are still to come.
LEMMA PageCovers ==
  ASSUME played \in Nat, NEW latest \in 0..played, NEW page \in Nat \ {0},
         NEW q, Behind(latest, q, played - page * PageSize)
  PROVE  /\ Behind(latest, q \cup Page(latest, page), played - (page - 1) * PageSize)
         /\ \A p \in Page(latest, page) :
               p \in 1..played /\ latest < p /\ p <= played - (page - 1) * PageSize
<1> USE PageAssumption
<1>1. (page - 1) * PageSize \in Nat /\ page * PageSize \in Nat
  <2>1. \A x \in Nat : x * PageSize \in Nat
    OBVIOUS
  <2>2. page - 1 \in Nat
    OBVIOUS
  <2> QED
    BY <2>1, <2>2
<1> DEFINE a == page * PageSize
           b == (page - 1) * PageSize
<1>2. Page(latest, page) = {p \in 1..played : p > latest /\ b <= played - p /\ played - p < a}
  BY DEF Page, After
<1>3. a \in Nat /\ b \in Nat /\ Behind(latest, q, played - a)
  BY <1>1
<1> HIDE DEF a, b
<1>4. Behind(latest, q \cup Page(latest, page), played - b)
  BY <1>2, <1>3 DEF Behind
<1>5. \A p \in Page(latest, page) : p \in 1..played /\ latest < p /\ p <= played - b
  BY <1>2, <1>3
<1> QED
  BY <1>4, <1>5 DEF b

LEMMA NewestOfSome ==
  ASSUME played \in Nat, NEW plays \in SUBSET (1..played), plays # {}
  PROVE  Newest(plays) \in plays
<1>1. \A p \in plays : played - p \in Nat /\ p \in Nat
  OBVIOUS
<1> DEFINE T == {played - p : p \in plays}
<1>2. T \subseteq Nat /\ T # {}
  BY <1>1
<1>3. PICK x \in T : \A y \in T : ~(<<y, x>> \in OpToRel(<, Nat))
  <2> HIDE DEF T
  <2> QED
    BY <1>2, NatLessThanWellFounded, WFMin
<1>4. PICK p \in plays : x = played - p
  BY <1>3
<1>5. ASSUME NEW q \in plays PROVE q <= p
  <2>1. played - q \in Nat /\ played - p \in Nat /\ ~(played - q < played - p)
    BY <1>1, <1>3, <1>4 DEF OpToRel
  <2> QED
    BY <1>1, <2>1
<1> QED
  BY <1>5, NewestIsIn

\* The plays of an answer and those that it omitted are all there is behind the newest of them.
Omitted(latest, plays) == {p \in After(latest) \ plays : p < Newest(plays)}

LEMMA RecentCovers ==
  ASSUME played \in Nat, NEW latest \in 0..played, NEW plays \in Recent(latest), plays # {}
  PROVE  /\ Newest(plays) \in 0..played /\ Omitted(latest, plays) \in SUBSET (1..played)
         /\ \A q : Behind(latest, q \cup plays \cup Omitted(latest, plays), Newest(plays))
<1>1. After(latest) = {p \in 1..played : p > latest} /\ plays \in SUBSET (1..played)
  BY DEF After, Recent
<1>2. Newest(plays) \in plays
  BY <1>1, NewestOfSome
<1>3. PICK newest : newest = Newest(plays)
  OBVIOUS
<1>4. newest \in 1..played /\ newest \in plays
  BY <1>1, <1>2, <1>3
<1>5. Omitted(latest, plays) = {p \in 1..played : p > latest /\ p \notin plays /\ p < newest}
  BY <1>1, <1>3 DEF Omitted
<1>6. ASSUME NEW p \in Nat, latest < p, p <= newest
      PROVE  p \in plays \cup Omitted(latest, plays)
  BY <1>4, <1>5, <1>6
<1> QED
  BY <1>3, <1>4, <1>5, <1>6 DEF Behind

-----------------------------------------------------------------------------
(* Type correctness. *)

\* A status leaves the time and the connection alone.
LEMMA StatusEffect ==
  ASSUME ConnectionOK, NEW error \in {"none", "retry", "final"}, update_status(error)
  PROVE  \/ importer = Absent /\ importer' = Absent
         \/ /\ importer # Absent
            /\ importer' = [oauth |-> importer.oauth, latest |-> importer.latest, error |-> error]
<1>1. CASE importer = Absent
  BY <1>1 DEF update_status
<1>2. CASE importer # Absent
  BY <1>2 DEF update_status, ConnectionOK
<1> QED
  BY <1>1, <1>2

\* So does a recorded time the connection.
LEMMA LatestEffect ==
  ASSUME ConnectionOK, NEW latest, importer' = WithLatest(latest)
  PROVE  \/ importer = Absent /\ importer' = [oauth |-> 0, latest |-> latest, error |-> "none"]
         \/ /\ importer # Absent
            /\ importer' = [oauth |-> importer.oauth, latest |-> latest, error |-> importer.error]
<1>1. CASE importer = Absent
  BY <1>1 DEF WithLatest
<1>2. CASE importer # Absent
  BY <1>2 DEF WithLatest, ConnectionOK
<1> QED
  BY <1>1, <1>2

\* Withdrawn tokens are forgotten by the rows that refer to them.
LEMMA RevokeEffect ==
  ASSUME ConnectionOK, revoke_user
  PROVE  /\ oauth' = Absent
         /\ \/ importer = Absent /\ importer' = Absent
            \/ /\ importer # Absent
               /\ importer' = [oauth |-> 0, latest |-> importer.latest, error |-> importer.error]
<1>1. CASE importer = Absent
  BY <1>1 DEF revoke_user
<1>2. CASE importer # Absent
  BY <1>2 DEF revoke_user, ConnectionOK
<1> QED
  BY <1>1, <1>2

LEMMA TokenEffect ==
  ASSUME ConnectionOK, NEW new, update_token(new)
  PROVE  \/ oauth = Absent /\ oauth' = Absent
         \/ oauth # Absent /\ oauth' = [id |-> oauth.id, token |-> new]
<1>1. CASE oauth = Absent
  BY <1>1 DEF update_token
<1>2. CASE oauth # Absent
  BY <1>2 DEF update_token, ConnectionOK
<1> QED
  BY <1>1, <1>2

\* A new refresh token is one that was issued.
LEMMA RefreshEffect ==
  ASSUME ConnectionOK, NEW token, NEW new, Refreshed(token, new)
  PROVE  issued' \in Nat /\ issued <= issued' /\ valid' \subseteq 1..issued' /\ new \in 1..issued'
<1>1. token \in 1..issued /\ issued \in Nat
  BY DEF Refreshed, ConnectionOK
<1>2. CASE new = token /\ UNCHANGED <<valid, issued>>
  BY <1>1, <1>2 DEF ConnectionOK
<1>3. CASE new = issued + 1 /\ issued' = new /\ valid' = (valid \ {token}) \cup {new}
  BY <1>1, <1>3 DEF ConnectionOK
<1> QED
  BY <1>2, <1>3 DEF Refreshed

LEMMA PlaysStep == ASSUME ImportTypes, ImportersNext PROVE PlaysOK' /\ played <= played'
<1> USE DEF ImportTypes, PlaysOK
<1>1. CASE Play
  BY <1>1 DEF Play
<1>2. CASE music_services_connect
  BY <1>2 DEF music_services_connect, save_token, Ask
<1>3. CASE music_services_callback
  BY <1>3 DEF music_services_callback, save_token, Ask
<1>4. CASE delete_listens_history
  BY <1>4 DEF delete_listens_history, Ask
<1>5. CASE SubmitPage
  <2>1. played' = played /\ since' = since /\ queued' \subseteq queued \cup 1..played
    BY <1>5 DEF SubmitPage, external, history, Page, After
  <2> QED
    BY <2>1
<1>6. CASE SubmitRecent
  <2>1. played' = played /\ since' = since /\ queued' \subseteq queued \cup 1..played
    BY <1>6 DEF SubmitRecent, external, history, Recent, After
  <2> QED
    BY <2>1
<1>7. CASE Withdraw \/ Web \/ music_services_disconnect \/ refresh_service_token
  <2>1. UNCHANGED <<played, queued, since>>
    BY <1>7 DEF Withdraw, Web, WebRefreshed, WebStores, WebRefused, music_services_disconnect, Ask,
                refresh_service_token, external, history
  <2> QED
    BY <2>1
<1>8. CASE Fails \/ ImporterCrash \/ RefreshSpotify \/ StoreSpotify \/ RefusedSpotify \/ ReportRefused
  <2>1. UNCHANGED <<played, queued, since>>
    BY <1>8 DEF Fails, ImporterCrash, RefreshSpotify, StoreSpotify, RefusedSpotify, ReportRefused, external, history
  <2> QED
    BY <2>1
<1>9. CASE get_active_users_to_process \/ StartLastfm \/ RecordLatest \/ SyncedLastfm \/ RecordRecent
  <2>1. UNCHANGED <<played, queued, since>>
    BY <1>9 DEF get_active_users_to_process, StartLastfm, RecordLatest, SyncedLastfm, RecordRecent, external, history
  <2> QED
    BY <2>1
<1> QED
  BY <1>1, <1>2, <1>3, <1>4, <1>5, <1>6, <1>7, <1>8, <1>9 DEF ImportersNext, Change, Import

\* Rows that stay are as good as they were: tokens, requests and plays only become more.
LEMMA RowsStay ==
  ASSUME ConnectionOK, PlaysOK, issued' \in Nat, issued <= issued', changes' \in Nat, changes <= changes',
         played' \in Nat, played <= played', valid' \subseteq 1..issued'
  PROVE  /\ oauth \in {Absent} \cup [id : 1..changes', token : 0..issued']
         /\ importer \in {Absent} \cup [oauth : Nat, latest : 0..played', error : {"none", "retry", "final"}]
         /\ web \in {Idle} \cup [at : {"refresh", "store"}, token : 0..issued']
<1> USE DEF PlaysOK
<1>1. issued \in Nat /\ changes \in Nat /\ played \in Nat
  BY DEF ConnectionOK
<1>2. oauth \in {Absent} \cup [id : 1..changes', token : 0..issued']
  BY <1>1 DEF ConnectionOK
<1>3. importer \in {Absent} \cup [oauth : Nat, latest : 0..played', error : {"none", "retry", "final"}]
  BY <1>1 DEF ConnectionOK
<1>4. web \in {Idle} \cup [at : {"refresh", "store"}, token : 0..issued']
  BY <1>1 DEF ConnectionOK
<1> QED
  BY <1>2, <1>3, <1>4

\* What is connected is told apart from what is not.
LEMMA JoinedRow ==
  ASSUME ConnectionOK
  PROVE  /\ oauth # Absent => oauth.id \in 1..changes /\ oauth.token \in 0..issued
         /\ importer # Absent => /\ importer.oauth \in Nat /\ importer.latest \in 0..played
                                 /\ importer.error \in {"none", "retry", "final"}
         /\ Joined => importer.oauth # 0
         /\ importer # Absent /\ importer.oauth # 0 => Joined
  BY DEF ConnectionOK, Joined

\* A row of a connection, and one of none.
LEMMA RowIsThere ==
  ASSUME NEW i \in Nat, NEW t \in Nat, NEW l \in Nat, NEW e \in {"none", "retry", "final"}
  PROVE  [id |-> i, token |-> t] # Absent /\ [oauth |-> i, latest |-> l, error |-> e] # Absent
  BY RowAssumption

LEMMA ConnectionStep ==
  ASSUME ImportTypes, ImportersNext
  PROVE  ConnectionOK'
<1>1. ConnectionOK /\ PlaysOK /\ TurnOK /\ PlaysOK' /\ played <= played'
  BY PlaysStep DEF ImportTypes
<1>2. issued \in Nat /\ changes \in Nat /\ played \in Nat /\ played' \in Nat
  BY <1>1 DEF ConnectionOK, PlaysOK
<1> DEFINE More == /\ issued' \in Nat /\ issued <= issued' /\ changes' \in Nat /\ changes <= changes'
                   /\ valid' \subseteq 1..issued'
\* The rows are left alone.
<1>3. ASSUME More, oauth' = oauth, importer' = importer,
             web' \in {Idle} \cup [at : {"refresh", "store"}, token : 0..issued']
      PROVE  ConnectionOK'
  BY <1>1, <1>2, <1>3, RowsStay, JoinedRow DEF ConnectionOK, Joined
\* The time or the status is recorded.
<1>4. ASSUME UNCHANGED <<issued, valid, changes, oauth, web>>,
             \/ \E error \in {"none", "retry", "final"} : update_status(error)
             \/ \E latest \in 0..played : importer' = WithLatest(latest)
      PROVE  ConnectionOK'
  <2>1. More
    BY <1>1, <1>2, <1>4 DEF ConnectionOK
  <2>2. \/ importer' = Absent
        \/ \E latest \in 0..played, error \in {"none", "retry", "final"} :
              /\ importer' = [oauth |-> IF importer = Absent THEN 0 ELSE importer.oauth, latest |-> latest,
                              error |-> error]
    BY <1>1, <1>4, StatusEffect, LatestEffect, JoinedRow
  <2>3. importer' \in {Absent} \cup [oauth : Nat, latest : 0..played', error : {"none", "retry", "final"}]
    BY <1>1, <1>2, <2>2, JoinedRow
  <2>4. importer' # Absent => importer'.oauth = 0 \/ Joined'
    BY <1>1, <1>2, <1>4, <2>2, JoinedRow DEF Joined
  <2> QED
    BY <1>1, <1>2, <1>4, <2>1, <2>3, <2>4, RowsStay DEF ConnectionOK
\* The token is replaced, or there is none any more.
<1>5. ASSUME UNCHANGED <<issued, valid, changes, importer>>, web' \in {Idle, web},
             NEW new \in 0..issued, update_token(new)
      PROVE  ConnectionOK'
  <2>1. More
    BY <1>1, <1>2, <1>5 DEF ConnectionOK
  <2>2. \/ oauth = Absent /\ oauth' = Absent
        \/ oauth # Absent /\ oauth' = [id |-> oauth.id, token |-> new]
    BY <1>1, <1>5, TokenEffect
  <2>3. oauth' \in {Absent} \cup [id : 1..changes', token : 0..issued']
    BY <1>1, <1>5, <2>2, JoinedRow
  <2>4. Joined => Joined'
    BY <1>1, <1>2, <1>5, <2>2, JoinedRow, RowIsThere DEF Joined
  <2> QED
    BY <1>1, <1>2, <1>5, <2>1, <2>3, <2>4, RowsStay, JoinedRow DEF ConnectionOK
<1>6. ASSUME UNCHANGED <<issued, valid, changes>>, web' \in {Idle, web}, revoke_user
      PROVE  ConnectionOK'
  <2>1. More
    BY <1>1, <1>2, <1>6 DEF ConnectionOK
  <2>2. /\ oauth' = Absent
        /\ importer' = Absent \/ \E latest \in 0..played, error \in {"none", "retry", "final"} :
                                    importer' = [oauth |-> 0, latest |-> latest, error |-> error]
    BY <1>1, <1>6, RevokeEffect, JoinedRow
  <2>3. importer' \in {Absent} \cup [oauth : Nat, latest : 0..played', error : {"none", "retry", "final"}]
    BY <1>1, <1>2, <2>2
  <2> QED
    BY <1>1, <1>2, <1>6, <2>1, <2>2, <2>3, RowsStay DEF ConnectionOK
<1>7. CASE Play \/ Withdraw \/ WebRefreshed \/ refresh_service_token
  <2>1. CASE Play \/ Withdraw
    <3>1. /\ UNCHANGED <<issued, oauth, importer, web>> /\ changes' \in {changes, changes + 1}
          /\ valid' \in {{}, valid}
      BY <2>1 DEF Play, Withdraw
    <3>2. valid' \subseteq 1..issued' /\ web' \in {Idle} \cup [at : {"refresh", "store"}, token : 0..issued']
      BY <1>1, <3>1 DEF ConnectionOK
    <3> QED
      BY <1>2, <1>3, <3>1, <3>2
  <2>2. CASE refresh_service_token
    <3>1. UNCHANGED <<issued, valid, oauth, importer>> /\ changes' = changes + 1
      BY <2>2 DEF refresh_service_token, external
    <3>2. web' \in [at : {"refresh", "store"}, token : 0..issued]
      BY <1>1, <2>2, JoinedRow DEF refresh_service_token
    <3> QED
      BY <1>1, <1>2, <1>3, <3>1, <3>2 DEF ConnectionOK
  <2>3. CASE WebRefreshed
    <3>1. PICK new \in 1..MaxTokens : Refreshed(web.token, new) /\ web' = [at |-> "store", token |-> new]
      BY <2>3 DEF WebRefreshed
    <3>2. issued' \in Nat /\ issued <= issued' /\ valid' \subseteq 1..issued' /\ new \in 1..issued'
      BY <1>1, <3>1, RefreshEffect
    <3> QED
      BY <1>2, <1>3, <2>3, <3>1, <3>2 DEF WebRefreshed
  <2> QED
    BY <1>7, <2>1, <2>2, <2>3
<1>8. CASE music_services_connect \/ music_services_callback
  <2>1. PICK token, record_listens, latest :
           /\ token \in 0..issued' /\ record_listens \in BOOLEAN /\ latest \in 0..played
           /\ save_token(token, record_listens, latest)
           /\ issued' \in Nat /\ issued <= issued' /\ valid' \subseteq 1..issued'
    <3>1. CASE music_services_connect
      <4>1. issued' = issued /\ valid' = valid /\ \E latest \in 0..played : save_token(0, TRUE, latest)
        BY <3>1 DEF music_services_connect
      <4>2. 0 \in 0..issued' /\ issued' \in Nat /\ issued <= issued' /\ valid' \subseteq 1..issued'
        BY <1>1, <1>2, <4>1 DEF ConnectionOK
      <4> QED
        BY <4>1, <4>2
    <3>2. CASE music_services_callback
      <4>1. /\ issued' = issued + 1 /\ valid' = valid \cup {issued'}
            /\ \E record_listens \in BOOLEAN : save_token(issued', record_listens, 0)
        BY <3>2 DEF music_services_callback
      <4>2. /\ issued' \in 0..issued' /\ issued' \in Nat /\ issued <= issued' /\ valid' \subseteq 1..issued'
            /\ 0 \in 0..played
        BY <1>1, <1>2, <4>1 DEF ConnectionOK
      <4> QED
        BY <4>1, <4>2
    <3> QED
      BY <1>8, <3>1, <3>2
  <2>2. changes' = changes + 1 /\ played' = played /\ web' = web
    BY <1>8 DEF music_services_connect, music_services_callback, Ask
  <2>3. More
    BY <1>2, <2>1, <2>2
  <2> DEFINE id == IF oauth = Absent THEN changes' ELSE oauth.id
  <2>4. id \in 1..changes'
    BY <1>1, <1>2, <2>2, JoinedRow
  <2>5. oauth' = [id |-> id, token |-> token]
    BY <2>1 DEF save_token
  <2>6. importer' = IF record_listens THEN [oauth |-> id, latest |-> latest, error |-> "none"] ELSE importer
    BY <2>1 DEF save_token
  <2>7. oauth' \in [id : 1..changes', token : 0..issued'] /\ oauth' # Absent /\ oauth'.id = id
    <3>1. id \in Nat /\ token \in Nat
      BY <1>2, <2>1, <2>2, <2>4
    <3> HIDE DEF id
    <3> QED
      BY <2>1, <2>4, <2>5, <3>1, RowIsThere
  <2>8. CASE record_listens
    <3>1. importer' = [oauth |-> id, latest |-> latest, error |-> "none"] /\ id \in Nat /\ latest \in 0..played'
      BY <1>2, <2>1, <2>2, <2>4, <2>6, <2>8
    <3>2. importer'.oauth = id /\ importer' \in [oauth : Nat, latest : 0..played', error : {"none", "retry", "final"}]
      <4> HIDE DEF id
      <4> QED
        BY <3>1
    <3>3. importer' # Absent => Joined'
      BY <2>7, <3>2 DEF Joined
    <3> QED
      BY <1>1, <1>2, <2>2, <2>3, <2>7, <3>2, <3>3, RowsStay DEF ConnectionOK
  <2>9. CASE ~record_listens
    <3>1. importer' = importer
      BY <2>6, <2>9
    <3>2. importer # Absent /\ importer.oauth # 0 => Joined'
      BY <1>1, <2>7, <3>1, JoinedRow DEF Joined
    <3> QED
      BY <1>1, <1>2, <2>2, <2>3, <2>7, <3>1, <3>2, RowsStay DEF ConnectionOK
  <2> QED
    BY <2>1, <2>8, <2>9
<1>9. CASE music_services_disconnect
  <2>1. UNCHANGED <<issued, valid, web, played>> /\ changes' = changes + 1 /\ oauth' = Absent /\ importer' = Absent
    BY <1>9 DEF music_services_disconnect, Ask
  <2> QED
    BY <1>1, <1>2, <2>1, RowsStay DEF ConnectionOK
<1>10. CASE delete_listens_history
  <2>1. /\ UNCHANGED <<issued, valid, oauth, web, played>> /\ changes' = changes + 1
        /\ importer' = WithLatest(0)
    BY <1>10 DEF delete_listens_history, Ask
  <2>2. More
    BY <1>1, <1>2, <2>1 DEF ConnectionOK
  <2>3. /\ importer' \in [oauth : Nat, latest : 0..played', error : {"none", "retry", "final"}]
        /\ importer'.oauth = IF importer = Absent THEN 0 ELSE importer.oauth
    BY <1>1, <1>2, <2>1, LatestEffect, JoinedRow
  <2>4. importer' # Absent
    BY <1>2, <2>1, <2>3, RowAssumption
  <2>5. importer'.oauth = 0 \/ Joined'
    BY <1>1, <2>1, <2>3, <2>4, JoinedRow DEF Joined
  <2> QED
    BY <1>1, <1>2, <2>1, <2>2, <2>3, <2>5, RowsStay DEF ConnectionOK
<1>11. CASE WebStores \/ WebRefused
  <2>1. CASE WebStores
    <3>1. web.token \in 0..issued
      BY <1>1, <2>1 DEF WebStores, ConnectionOK, Idle
    <3> QED
      BY <1>5, <2>1, <3>1 DEF WebStores, external
  <2>2. CASE WebRefused
    BY <1>6, <2>2 DEF WebRefused, external
  <2> QED
    BY <1>11, <2>1, <2>2
<1>12. CASE Import \/ Fails \/ ImporterCrash
  <2>1. CASE get_active_users_to_process \/ SubmitPage \/ ImporterCrash
    <3>1. UNCHANGED <<issued, valid, oauth, importer, web, changes>>
      BY <2>1 DEF get_active_users_to_process, SubmitPage, ImporterCrash, external
    <3> QED
      BY <1>1, <1>2, <1>3, <3>1 DEF ConnectionOK
  <2>2. CASE StartLastfm \/ SyncedLastfm \/ ReportRefused
    BY <1>4, <2>2 DEF StartLastfm, SyncedLastfm, ReportRefused, external
  <2>3. CASE RecordLatest \/ RecordRecent
    <3>1. run.newest \in 0..played
      BY <1>1, <2>3 DEF RecordLatest, RecordRecent, TurnOK, Idle
    <3> QED
      BY <1>4, <2>3, <3>1 DEF RecordLatest, RecordRecent, external
  <2>4. CASE RefreshSpotify
    <3>1. \E token, new : Refreshed(token, new)
      BY <2>4 DEF RefreshSpotify
    <3>2. UNCHANGED <<oauth, importer, web, changes>>
      BY <2>4 DEF RefreshSpotify
    <3>3. issued' \in Nat /\ issued <= issued' /\ valid' \subseteq 1..issued'
      BY <1>1, <3>1, RefreshEffect
    <3>4. web' \in {Idle} \cup [at : {"refresh", "store"}, token : 0..issued']
      BY <1>1, <1>2, <3>2, <3>3 DEF ConnectionOK
    <3> QED
      BY <1>2, <1>3, <3>2, <3>3, <3>4
  <2>5. CASE StoreSpotify
    <3>1. run.token \in 0..issued
      BY <1>1, <2>5 DEF StoreSpotify, TurnOK, Idle
    <3> QED
      BY <1>5, <2>5, <3>1 DEF StoreSpotify, external
  <2>6. CASE RefusedSpotify
    BY <1>6, <2>6 DEF RefusedSpotify, external
  <2>7. CASE SubmitRecent \/ Fails
    <3>1. UNCHANGED <<issued, valid, oauth, web, changes>>
      BY <2>7 DEF SubmitRecent, Fails, external
    <3>2. importer' = importer \/ \E error \in {"none", "retry", "final"} : update_status(error)
      BY <2>7 DEF SubmitRecent, Fails
    <3>3. CASE importer' = importer
      BY <1>1, <1>2, <1>3, <3>1, <3>3 DEF ConnectionOK
    <3> QED
      BY <1>4, <3>1, <3>2, <3>3
  <2> QED
    BY <1>12, <2>1, <2>2, <2>3, <2>4, <2>5, <2>6, <2>7 DEF Import
<1> QED
  BY <1>7, <1>8, <1>9, <1>10, <1>11, <1>12 DEF ImportersNext, Change, Web

\* The batch: one lemma for the steps of the importer, and the others leave it where it is.
LEMMA TurnStays ==
  ASSUME TurnOK, PlaysOK, issued \in Nat, issued' \in Nat, issued <= issued', played' \in Nat, played <= played',
         run' = run
  PROVE  run' \in {Idle, [at |-> "refused"]}
                  \cup [at : {"user", "store", "plays"}, latest : 0..played', token : 0..issued']
                  \cup [at : {"page"}, latest : 0..played', page : Nat]
                  \cup [at : {"record"}, latest : 0..played', page : Nat \ {0}, newest : 0..played']
                  \cup [at : {"recent"}, newest : 0..played', omitted : SUBSET (1..played')]
<1> USE DEF PlaysOK
<1>1. CASE run \in {Idle, [at |-> "refused"]}
  BY <1>1
<1>2. CASE run \in [at : {"user", "store", "plays"}, latest : 0..played, token : 0..issued]
  <2>1. run \in [at : {"user", "store", "plays"}, latest : 0..played', token : 0..issued']
    BY <1>2
  <2> QED
    BY <2>1
<1>3. CASE run \in [at : {"page"}, latest : 0..played, page : Nat]
  <2>1. run \in [at : {"page"}, latest : 0..played', page : Nat]
    BY <1>3
  <2> QED
    BY <2>1
<1>4. CASE run \in [at : {"record"}, latest : 0..played, page : Nat \ {0}, newest : 0..played]
  <2>1. run \in [at : {"record"}, latest : 0..played', page : Nat \ {0}, newest : 0..played']
    BY <1>4
  <2> QED
    BY <2>1
<1>5. CASE run \in [at : {"recent"}, newest : 0..played, omitted : SUBSET (1..played)]
  <2>1. 0..played \subseteq 0..played' /\ SUBSET (1..played) \subseteq SUBSET (1..played')
    OBVIOUS
  <2>2. run \in [at : {"recent"}, newest : 0..played', omitted : SUBSET (1..played')]
    BY <1>5, <2>1
  <2> QED
    BY <2>2
<1> QED
  BY <1>1, <1>2, <1>3, <1>4, <1>5 DEF TurnOK

\* Where a turn is, its record has the fields of that place.
LEMMA TurnAt ==
  ASSUME TurnOK
  PROVE  /\ run.at \in {"user", "store", "plays"} => run.latest \in 0..played /\ run.token \in 0..issued
         /\ run.at = "page" => run = [at |-> "page", latest |-> run.latest, page |-> run.page]
                               /\ run.latest \in 0..played /\ run.page \in Nat
         /\ run.at = "record" => /\ run.latest \in 0..played /\ run.page \in Nat \ {0}
                                 /\ run.newest \in 0..played
         /\ run.at = "recent" => run.newest \in 0..played
         /\ run.at # "idle" => Working
         /\ run = Idle <=> run.at = "idle"
  BY DEF TurnOK, Idle, Working

LEMMA TurnStep ==
  ASSUME ImportTypes, ImportersNext
  PROVE  TurnOK'
<1>1. ConnectionOK /\ PlaysOK /\ TurnOK /\ ConnectionOK' /\ PlaysOK' /\ played <= played'
  BY PlaysStep, ConnectionStep DEF ImportTypes
<1>2. played \in Nat /\ played' \in Nat /\ issued \in Nat /\ issued' \in Nat
  BY <1>1 DEF ConnectionOK, PlaysOK
<1>3. overtaken \in BOOLEAN /\ (overtaken => Working)
  BY <1>1 DEF TurnOK
\* The turn is not at work on anything that these steps do.
<1>4. CASE Play \/ Withdraw \/ Change \/ Web
  <2>1. run' = run /\ overtaken' \in {overtaken, Working, overtaken \/ run.at \in {"page", "record"}}
    BY <1>4 DEF Play, Withdraw, Change, music_services_connect, music_services_callback, music_services_disconnect,
                delete_listens_history, Ask, refresh_service_token, Web, WebRefreshed, WebStores, WebRefused
  <2>2. issued <= issued'
    <3>1. CASE Play \/ Withdraw \/ music_services_connect \/ music_services_disconnect \/ delete_listens_history
               \/ refresh_service_token \/ WebStores \/ WebRefused
      <4>1. issued' = issued
        BY <3>1 DEF Play, Withdraw, music_services_connect, music_services_disconnect, delete_listens_history,
                    refresh_service_token, WebStores, WebRefused, external
      <4> QED
        BY <1>2, <4>1
    <3>2. CASE music_services_callback
      BY <1>2, <3>2 DEF music_services_callback
    <3>3. CASE WebRefreshed
      BY <1>1, <3>3, RefreshEffect DEF WebRefreshed
    <3> QED
      BY <1>4, <3>1, <3>2, <3>3 DEF Change, Web
  <2>3. overtaken' \in BOOLEAN /\ (overtaken' => run' # Idle)
    BY <1>1, <1>3, <2>1, TurnAt DEF Working
  <2> QED
    BY <1>1, <1>2, <2>1, <2>2, <2>3, TurnStays DEF TurnOK, Working
<1>5. ASSUME run' = Idle, overtaken' = FALSE
      PROVE  TurnOK'
  BY <1>5 DEF TurnOK, Working
<1>6. ASSUME overtaken' \in {overtaken, FALSE}, Working, run' # Idle,
             \/ run' = [at |-> "refused"]
             \/ run' \in [at : {"user", "store", "plays"}, latest : 0..played', token : 0..issued']
             \/ run' \in [at : {"page"}, latest : 0..played', page : Nat]
             \/ run' \in [at : {"record"}, latest : 0..played', page : Nat \ {0}, newest : 0..played']
             \/ run' \in [at : {"recent"}, newest : 0..played', omitted : SUBSET (1..played')]
      PROVE  TurnOK'
  BY <1>3, <1>6 DEF TurnOK, Working
<1>7. CASE Import
  <2>1. CASE get_active_users_to_process
    <3>1. CASE Joined /\ Selected(importer)
      <4>1. /\ run' = [at |-> "user", latest |-> importer.latest, token |-> oauth.token]
            /\ overtaken' = FALSE /\ UNCHANGED <<played, issued>>
        BY <2>1, <3>1 DEF get_active_users_to_process, external
      <4>2. importer.latest \in 0..played /\ oauth.token \in 0..issued
        BY <1>1, <3>1, JoinedRow DEF Joined
      <4> QED
        BY <4>1, <4>2 DEF TurnOK, Working
    <3>2. CASE ~(Joined /\ Selected(importer))
      BY <1>5, <2>1, <3>2 DEF get_active_users_to_process, EndBatch
    <3> QED
      BY <3>1, <3>2
  <2>2. CASE StartLastfm
    <3>1. /\ run.latest \in 0..played /\ Working /\ overtaken' = overtaken /\ played' = played
          /\ run' = [at |-> "page", latest |-> run.latest, page |-> total_pages(run.latest)]
      BY <1>1, <2>2, TurnAt DEF StartLastfm, external
    <3>2. total_pages(run.latest) \in Nat
      BY <1>2, <3>1, PagesCover
    <3> QED
      BY <1>6, <3>1, <3>2 DEF Idle
  <2>3. CASE SubmitPage
    <3>1. /\ run = [at |-> "page", latest |-> run.latest, page |-> run.page]
          /\ run.latest \in 0..played /\ run.page \in Nat \ {0} /\ Working
      BY <1>1, <2>3, TurnAt DEF SubmitPage
    <3> DEFINE plays == Page(run.latest, run.page)
    <3>2. overtaken' = overtaken /\ played' = played
      BY <2>3 DEF SubmitPage, external
    <3>3. CASE plays = {}
      <4>1. run' = [at |-> "page", latest |-> run.latest, page |-> run.page - 1]
        <5>1. run' = [run EXCEPT !.page = @ - 1]
          BY <2>3, <3>3 DEF SubmitPage
        <5> QED
          BY <3>1, <5>1
      <4> QED
        BY <1>6, <3>1, <3>2, <4>1 DEF Idle
    <3>4. CASE plays # {}
      <4>1. run' = [at |-> "record", latest |-> run.latest, page |-> run.page, newest |-> Newest(plays)]
        BY <2>3, <3>4 DEF SubmitPage
      <4>2. Newest(plays) \in 0..played
        BY <1>2, <3>1, <3>4, NewestOnPage DEF Page, After
      <4> HIDE DEF plays
      <4> QED
        BY <1>6, <3>1, <3>2, <4>1, <4>2 DEF Idle
    <3> QED
      BY <3>3, <3>4
  <2>4. CASE RecordLatest
    <3>1. /\ run.latest \in 0..played /\ run.page \in Nat \ {0} /\ Working
          /\ run' = [at |-> "page", latest |-> run.latest, page |-> run.page - 1]
          /\ overtaken' = overtaken /\ played' = played
      BY <1>1, <2>4, TurnAt DEF RecordLatest, NextPage, external
    <3> QED
      BY <1>6, <3>1 DEF Idle
  <2>5. CASE SyncedLastfm \/ ReportRefused \/ RecordRecent
    BY <1>5, <2>5 DEF SyncedLastfm, ReportRefused, RecordRecent, EndBatch
  <2>6. CASE RefreshSpotify
    <3>1. PICK new : Refreshed(run.token, new) /\ run' = [at |-> "store", latest |-> run.latest, token |-> new]
      BY <2>6 DEF RefreshSpotify
    <3>2. /\ run.latest \in 0..played /\ Working
          /\ overtaken' = overtaken /\ played' = played
      BY <1>1, <2>6, TurnAt DEF RefreshSpotify
    <3>3. new \in 0..issued'
      BY <1>1, <3>1, RefreshEffect
    <3> QED
      BY <1>6, <3>1, <3>2, <3>3 DEF Idle
  <2>7. CASE StoreSpotify
    <3>1. CASE oauth = Absent
      BY <1>5, <2>7, <3>1 DEF StoreSpotify, EndBatch
    <3>2. CASE oauth # Absent
      <4> DEFINE latest == IF Joined THEN importer.latest ELSE 0
      <4>1. /\ run' = [at |-> "plays", token |-> run.token, latest |-> latest]
            /\ overtaken' = overtaken /\ played' = played /\ issued' = issued
        BY <2>7, <3>2 DEF StoreSpotify, external
      <4>2. latest \in 0..played /\ run.token \in 0..issued /\ Working
        BY <1>1, <1>2, <2>7, TurnAt, JoinedRow DEF StoreSpotify, Joined
      <4> HIDE DEF latest
      <4> QED
        BY <1>6, <4>1, <4>2 DEF Idle
    <3> QED
      BY <3>1, <3>2
  <2>8. CASE RefusedSpotify
    <3>1. run' = [at |-> "refused"] /\ overtaken' = overtaken /\ Working
      BY <1>1, <2>8, TurnAt DEF RefusedSpotify
    <3> QED
      BY <1>6, <3>1 DEF Idle
  <2>9. CASE SubmitRecent
    <3>1. run.latest \in 0..played /\ Working /\ played' = played
      BY <1>1, <2>9, TurnAt DEF SubmitRecent, external
    <3>2. PICK plays \in Recent(run.latest) :
             IF plays = {}
             THEN EndBatch
             ELSE /\ run' = [at |-> "recent", newest |-> Newest(plays), omitted |-> Omitted(run.latest, plays)]
                  /\ overtaken' = overtaken
      BY <2>9 DEF SubmitRecent, Omitted
    <3>3. CASE plays = {}
      BY <1>5, <3>2, <3>3 DEF EndBatch
    <3>4. CASE plays # {}
      <4>1. Newest(plays) \in 0..played /\ Omitted(run.latest, plays) \in SUBSET (1..played)
        BY <1>2, <3>1, <3>4, RecentCovers
      <4>2. PICK newest, omitted : newest = Newest(plays) /\ omitted = Omitted(run.latest, plays)
        OBVIOUS
      <4>3. run' = [at |-> "recent", newest |-> newest, omitted |-> omitted] /\ overtaken' = overtaken
        BY <3>2, <3>4, <4>2
      <4>4. newest \in 0..played' /\ omitted \in SUBSET (1..played')
        BY <3>1, <4>1, <4>2
      <4>5. run' \in [at : {"recent"}, newest : 0..played', omitted : SUBSET (1..played')]
        BY <4>3, <4>4
      <4>6. run' # Idle
        BY <4>3 DEF Idle
      <4> QED
        BY <1>6, <3>1, <4>3, <4>5, <4>6
    <3> QED
      BY <3>3, <3>4
  <2> QED
    BY <1>7, <2>1, <2>2, <2>3, <2>4, <2>5, <2>6, <2>7, <2>8, <2>9 DEF Import
<1>8. CASE Fails \/ ImporterCrash
  BY <1>5, <1>8 DEF Fails, ImporterCrash, EndBatch
<1> QED
  BY <1>4, <1>7, <1>8 DEF ImportersNext

-----------------------------------------------------------------------------
(* No play is skipped. *)

\* The recorded time does not move, and nothing that was accepted is forgotten.
LEMMA RecordedStays ==
  ASSUME ConnectionOK, RecordedKept, since' = since, queued \cup excused \subseteq queued' \cup excused',
         Joined' => Joined /\ importer'.latest = importer.latest
  PROVE  RecordedKept'
<1>1. CASE Joined'
  <2>1. Behind(since, queued \cup excused, importer.latest) /\ importer'.latest = importer.latest
    BY <1>1 DEF RecordedKept
  <2>2. Behind(since, queued' \cup excused', importer'.latest)
    BY <2>1 DEF Behind
  <2> QED
    BY <2>2 DEF RecordedKept, Behind
<1> QED
  BY <1>1 DEF RecordedKept

\* A time that is recorded late excuses what it leaves out.
LEMMA NewestRecorded ==
  ASSUME ImportInv, importer' = WithLatest(run.newest), run.newest \in Nat,
         UNCHANGED <<oauth, queued, since>>,
         overtaken => 1..run.newest \ queued \subseteq excused',
         ~overtaken => Behind(since, queued \cup excused', run.newest)
  PROVE  RecordedKept'
<1>1. ConnectionOK /\ since \in Nat
  BY DEF ImportInv, ImportTypes, PlaysOK
<1>2. importer'.latest = run.newest
  <2>1. PICK newest : newest = run.newest
    OBVIOUS
  <2>2. importer' = WithLatest(newest)
    BY <2>1
  <2>3. importer'.latest = newest
    BY <1>1, <2>2, LatestEffect
  <2> QED
    BY <2>1, <2>3
<1>3. CASE overtaken
  <2>1. Behind(since, queued' \cup excused', run.newest)
    BY <1>1, <1>3 DEF Behind
  <2> QED
    BY <1>2, <2>1 DEF RecordedKept, Behind
<1>4. CASE ~overtaken
  BY <1>2, <1>4 DEF RecordedKept, Behind
<1> QED
  BY <1>3, <1>4

LEMMA RecordedStep ==
  ASSUME ImportInv, ImportersNext
  PROVE  RecordedKept'
<1>1. ConnectionOK /\ PlaysOK /\ TurnOK /\ RecordedKept /\ TurnKept
  BY DEF ImportInv, ImportTypes
\* What the external account and the importer do without the rows.
<1>2. CASE \/ Play \/ Withdraw \/ refresh_service_token \/ WebRefreshed
           \/ get_active_users_to_process \/ SubmitPage \/ RefreshSpotify \/ ImporterCrash
  <2>1. UNCHANGED <<oauth, importer, since, excused>> /\ queued \subseteq queued'
    <3>1. CASE Play \/ Withdraw \/ refresh_service_token \/ WebRefreshed
      BY <3>1 DEF Play, Withdraw, refresh_service_token, WebRefreshed, history
    <3>2. CASE get_active_users_to_process \/ SubmitPage \/ RefreshSpotify \/ ImporterCrash
      BY <3>2 DEF get_active_users_to_process, SubmitPage, RefreshSpotify, ImporterCrash, history
    <3> QED
      BY <1>2, <3>1, <3>2
  <2> QED
    BY <1>1, <2>1, RecordedStays DEF Joined
\* A status.
<1>3. CASE StartLastfm \/ SyncedLastfm \/ ReportRefused \/ SubmitRecent \/ Fails
  <2>1. UNCHANGED <<oauth, since, excused>> /\ queued \subseteq queued'
    BY <1>3 DEF StartLastfm, SyncedLastfm, ReportRefused, SubmitRecent, Fails, history
  <2>2. importer' = importer \/ \E error \in {"none", "retry", "final"} : update_status(error)
    BY <1>3 DEF StartLastfm, SyncedLastfm, ReportRefused, SubmitRecent, Fails
  <2>3. Joined' => Joined /\ importer'.latest = importer.latest
    BY <1>1, <2>1, <2>2, StatusEffect DEF Joined
  <2> QED
    BY <1>1, <2>1, <2>3, RecordedStays
\* Requests of the user: who connects anew says from where, and who deletes the history wants it all.
<1>4. CASE music_services_connect \/ music_services_callback
  <2>1. PICK token, record_listens, latest :
           /\ record_listens \in BOOLEAN /\ latest \in Nat
           /\ save_token(token, record_listens, latest)
    <3>1. CASE music_services_connect
      <4>1. \E latest \in 0..played : save_token(0, TRUE, latest)
        BY <3>1 DEF music_services_connect
      <4>2. 0..played \subseteq Nat
        BY <1>1 DEF PlaysOK
      <4> QED
        BY <4>1, <4>2
    <3>2. CASE music_services_callback
      BY <3>2 DEF music_services_callback
    <3> QED
      BY <1>4, <3>1, <3>2
  <2>2. UNCHANGED <<queued, excused>> /\ changes' = changes + 1
    BY <1>4 DEF music_services_connect, music_services_callback, Ask
  <2>3. CASE record_listens
    <3>1. importer'.latest = latest /\ since' = latest
      BY <2>1, <2>3 DEF save_token
    <3> QED
      BY <2>1, <3>1 DEF RecordedKept, Behind
  <2>4. CASE ~record_listens
    <3>1. importer' = importer /\ since' = since
      BY <2>1, <2>4 DEF save_token
    <3>2. oauth'.id \in Nat \ {0}
      BY <1>1, <2>1, <2>2, JoinedRow DEF save_token, ConnectionOK
    <3>3. Joined' => Joined
      BY <1>1, <3>1, <3>2, JoinedRow DEF Joined
    <3> QED
      BY <1>1, <2>2, <3>1, <3>3, RecordedStays
  <2> QED
    BY <2>1, <2>3, <2>4
<1>5. CASE music_services_disconnect
  BY <1>5 DEF music_services_disconnect, RecordedKept, Joined
<1>6. CASE delete_listens_history
  <2>1. importer'.latest = 0 /\ since' = 0
    BY <1>1, <1>6, LatestEffect DEF delete_listens_history
  <2> QED
    BY <2>1 DEF RecordedKept, Behind
\* The token.
<1>7. CASE WebStores \/ StoreSpotify
  <2>1. (\E new : update_token(new)) /\ UNCHANGED <<importer, queued, since, excused>>
    BY <1>7 DEF WebStores, StoreSpotify, history
  <2>2. Joined' => Joined
    BY <1>1, <2>1, TokenEffect DEF Joined
  <2> QED
    BY <1>1, <2>1, <2>2, RecordedStays
<1>8. CASE WebRefused \/ RefusedSpotify
  BY <1>8 DEF WebRefused, RefusedSpotify, revoke_user, RecordedKept, Joined
\* The newest play of a page is recorded.
<1>9. CASE RecordLatest
  <2>1. /\ run.latest \in 0..played /\ run.page \in Nat \ {0} /\ run.newest \in 0..played
        /\ played \in Nat /\ since \in Nat
    BY <1>1, <1>9, TurnAt DEF RecordLatest, PlaysOK
  <2>2. ASSUME ~overtaken PROVE Behind(since, queued \cup excused, run.newest)
    <3> DEFINE b == (run.page - 1) * PageSize
    <3>1. /\ Behind(since, queued \cup excused, run.latest)
          /\ Behind(run.latest, queued, played - b) /\ run.newest <= played - b
      BY <1>1, <1>9, <2>2 DEF TurnKept, RecordLatest
    <3>2. b \in Int
      BY <2>1, PageAssumption
    <3> HIDE DEF b
    <3>3. Behind(run.latest, queued, run.newest)
      BY <2>1, <3>1, <3>2 DEF Behind
    <3> QED
      BY <2>1, <3>1, <3>3, BehindJoins
  <2> QED
    BY <1>9, <2>1, <2>2, NewestRecorded DEF RecordLatest, external
<1>10. CASE RecordRecent
  <2>1. run.newest \in 0..played /\ played \in Nat
    BY <1>1, <1>10, TurnAt DEF RecordRecent, PlaysOK
  <2>2. /\ excused \cup run.omitted \subseteq excused'
        /\ overtaken => 1..run.newest \ queued \subseteq excused'
    BY <1>10 DEF RecordRecent
  <2>3. ~overtaken => Behind(since, queued \cup excused', run.newest)
    <3>1. ~overtaken => Behind(since, queued \cup excused \cup run.omitted, run.newest)
      BY <1>1, <1>10 DEF RecordRecent, TurnKept
    <3> QED
      BY <2>2, <3>1 DEF Behind
  <2> QED
    BY <1>10, <2>1, <2>2, <2>3, NewestRecorded DEF RecordRecent, external
<1> QED
  BY <1>2, <1>3, <1>4, <1>5, <1>6, <1>7, <1>8, <1>9, <1>10 DEF ImportersNext, Change, Web, Import

\* A turn that is where it was keeps what it had.
LEMMA TurnKeptStays ==
  ASSUME TurnKept, run' = run, since' = since, queued \subseteq queued', excused \subseteq excused',
         ~overtaken' => ~overtaken /\ (run.at \in {"page", "record"} => played' = played)
  PROVE  TurnKept'
<1>1. CASE ~overtaken'
  <2>1. \A s, l : Behind(s, queued \cup excused, l) => Behind(s, queued' \cup excused', l)
    BY DEF Behind
  <2>2. \A s, l : Behind(s, queued, l) => Behind(s, queued', l)
    BY DEF Behind
  <2>3. \A s, l, o : Behind(s, queued \cup excused \cup o, l) => Behind(s, queued' \cup excused' \cup o, l)
    BY DEF Behind
  <2>4. /\ run'.at \in {"user", "store", "plays", "page", "record"} =>
              Behind(since', queued' \cup excused', run'.latest)
        /\ run'.at = "page" => Behind(run'.latest, queued', played' - run'.page * PageSize)
        /\ run'.at = "record" => /\ Behind(run'.latest, queued', played' - (run'.page - 1) * PageSize)
                                 /\ run'.newest <= played' - (run'.page - 1) * PageSize
        /\ run'.at = "recent" => Behind(since', queued' \cup excused' \cup run'.omitted, run'.newest)
    BY <1>1, <2>1, <2>2, <2>3 DEF TurnKept
  <2> QED
    BY <2>4 DEF TurnKept, Behind
<1> QED
  BY <1>1 DEF TurnKept

LEMMA TurnKeptStep ==
  ASSUME ImportInv, ImportersNext
  PROVE  TurnKept'
<1>1. ConnectionOK /\ PlaysOK /\ TurnOK /\ RecordedKept /\ TurnKept /\ played \in Nat /\ since \in Nat
  BY DEF ImportInv, ImportTypes, PlaysOK
\* The turn is over, or there is none.
<1>2. ASSUME run' = Idle \/ overtaken' \/ run' = [at |-> "refused"]
      PROVE  TurnKept'
  BY <1>2 DEF TurnKept, Idle
<1>3. CASE \/ music_services_connect \/ music_services_callback \/ music_services_disconnect
           \/ delete_listens_history
  <2>1. overtaken' = Working /\ run' = run
    BY <1>3 DEF music_services_connect, music_services_callback, music_services_disconnect, delete_listens_history, Ask
  <2> QED
    BY <1>2, <2>1 DEF Working
<1>4. CASE Play \/ Withdraw \/ refresh_service_token \/ Web
  <2>1. UNCHANGED <<run, since, queued, excused>>
    BY <1>4 DEF Play, Withdraw, refresh_service_token, Web, WebRefreshed, WebStores, WebRefused, history
  <2>2. ~overtaken' => ~overtaken /\ (run.at \in {"page", "record"} => played' = played)
    BY <1>4 DEF Play, Withdraw, refresh_service_token, Web, WebRefreshed, WebStores, WebRefused, external
  <2> QED
    BY <1>1, <2>1, <2>2, TurnKeptStays
<1>5. CASE SyncedLastfm \/ ReportRefused \/ RecordRecent \/ RefusedSpotify \/ Fails \/ ImporterCrash
  BY <1>2, <1>5 DEF SyncedLastfm, ReportRefused, RecordRecent, RefusedSpotify, Fails, ImporterCrash, EndBatch
\* A turn starts from the recorded time.
<1>6. CASE get_active_users_to_process
  <2>1. CASE Joined /\ Selected(importer)
    <3>1. /\ run' = [at |-> "user", latest |-> importer.latest, token |-> oauth.token]
          /\ UNCHANGED <<queued, since, excused>>
      BY <1>6, <2>1 DEF get_active_users_to_process, history
    <3>2. Behind(since, queued \cup excused, importer.latest)
      BY <1>1, <2>1 DEF RecordedKept
    <3> QED
      BY <3>1, <3>2 DEF TurnKept, Behind
  <2>2. CASE ~(Joined /\ Selected(importer))
    BY <1>2, <1>6, <2>2 DEF get_active_users_to_process, EndBatch
  <2> QED
    BY <2>1, <2>2
\* No play is newer than the first page.
<1>7. CASE StartLastfm
  <2>1. /\ run.latest \in 0..played /\ UNCHANGED <<overtaken, played, queued, since, excused>>
        /\ run' = [at |-> "page", latest |-> run.latest, page |-> total_pages(run.latest)]
    BY <1>1, <1>7, TurnAt DEF StartLastfm, external, history
  <2> DEFINE n == total_pages(run.latest)
             b == n * PageSize
  <2>2. n \in Nat /\ played - b <= run.latest /\ b \in Int
    BY <1>1, <2>1, PagesCover, PageAssumption
  <2>3. run'.at = "page" /\ run'.latest = run.latest /\ run'.page = n
    BY <2>1
  <2>4. ~overtaken => Behind(since, queued \cup excused, run.latest)
    BY <1>1, <1>7 DEF TurnKept, StartLastfm
  <2>5. Behind(run.latest, queued, played - b)
    <3> HIDE DEF b
    <3> QED
      BY <1>1, <2>1, <2>2 DEF Behind
  <2> QED
    BY <2>1, <2>3, <2>4, <2>5 DEF TurnKept, Behind
<1>8. CASE SubmitPage
  <2>1. /\ run = [at |-> "page", latest |-> run.latest, page |-> run.page]
        /\ run.latest \in 0..played /\ run.page \in Nat \ {0}
        /\ UNCHANGED <<overtaken, played, since, excused>>
    BY <1>1, <1>8, TurnAt DEF SubmitPage, external, history
  <2>2. PICK plays : plays = Page(run.latest, run.page)
    OBVIOUS
  <2>3. PICK latest, page : latest = run.latest /\ page = run.page
    OBVIOUS
  <2>4. queued' = queued \cup plays
    BY <1>8, <2>2 DEF SubmitPage
  <2>5. SUFFICES ASSUME ~overtaken PROVE TurnKept'
    BY <1>2, <2>1
  <2>6. Behind(since, queued \cup excused, latest) /\ Behind(latest, queued, played - page * PageSize)
    BY <1>1, <1>8, <2>3, <2>5 DEF TurnKept, SubmitPage
  <2>7. PICK b : b = (page - 1) * PageSize
    OBVIOUS
  <2>8. /\ Behind(latest, queued \cup plays, played - b)
        /\ \A p \in plays : p <= played - b
    BY <1>1, <2>1, <2>2, <2>3, <2>6, <2>7, PageCovers
  <2>9. Behind(since, queued' \cup excused', latest) /\ Behind(latest, queued', played' - b)
    BY <2>1, <2>4, <2>6, <2>8 DEF Behind
  <2>10. CASE plays = {}
    <3>1. run' = [run EXCEPT !.page = @ - 1]
      BY <1>8, <2>2, <2>10 DEF SubmitPage
    <3>2. run'.at = "page" /\ run'.latest = latest /\ run'.page = page - 1
      BY <2>1, <2>3, <3>1
    <3> QED
      BY <2>1, <2>7, <2>9, <3>2 DEF TurnKept, Behind
  <2>11. CASE plays # {}
    <3>1. run' = [at |-> "record", latest |-> run.latest, page |-> run.page, newest |-> Newest(plays)]
      BY <1>8, <2>2, <2>11 DEF SubmitPage
    <3>2. Newest(plays) \in plays
      BY <1>1, <2>1, <2>2, <2>11, NewestOnPage
    <3>3. run'.at = "record" /\ run'.latest = latest /\ run'.page = page /\ run'.newest <= played' - b
      BY <2>1, <2>3, <2>8, <3>1, <3>2
    <3> QED
      BY <2>1, <2>7, <2>9, <3>3 DEF TurnKept, Behind
  <2> QED
    BY <2>10, <2>11
<1>9. CASE RecordLatest
  <2>1. /\ run' = [at |-> "page", latest |-> run.latest, page |-> run.page - 1]
        /\ UNCHANGED <<overtaken, played, queued, since>> /\ excused \subseteq excused'
    BY <1>9 DEF RecordLatest, NextPage, external
  <2>2. run'.at = "page" /\ run'.latest = run.latest /\ run'.page = run.page - 1
    BY <2>1
  <2>3. SUFFICES ASSUME ~overtaken PROVE TurnKept'
    BY <1>2, <2>1
  <2>4. /\ Behind(since, queued \cup excused, run.latest)
        /\ Behind(run.latest, queued, played - (run.page - 1) * PageSize)
    BY <1>1, <1>9, <2>3 DEF TurnKept, RecordLatest
  <2> QED
    BY <2>1, <2>2, <2>4 DEF TurnKept, Behind
<1>10. CASE RefreshSpotify
  <2>1. /\ run.at = "user" /\ run'.at = "store" /\ run'.latest = run.latest
        /\ UNCHANGED <<overtaken, queued, since, excused>>
    BY <1>10 DEF RefreshSpotify, history
  <2> QED
    BY <1>1, <2>1 DEF TurnKept, Behind
\* The user's row is read again, and the time with it.
<1>11. CASE StoreSpotify
  <2>1. CASE oauth = Absent
    BY <1>2, <1>11, <2>1 DEF StoreSpotify, EndBatch
  <2>2. CASE oauth # Absent
    <3>1. /\ run' = [at |-> "plays", token |-> run.token, latest |-> IF Joined THEN importer.latest ELSE 0]
          /\ UNCHANGED <<queued, since, excused>>
      BY <1>11, <2>2 DEF StoreSpotify, history
    <3>2. Behind(since, queued \cup excused, IF Joined THEN importer.latest ELSE 0)
      BY <1>1 DEF RecordedKept, Behind
    <3> QED
      BY <3>1, <3>2 DEF TurnKept, Behind
  <2> QED
    BY <2>1, <2>2
<1>12. CASE SubmitRecent
  <2>1. run.latest \in 0..played /\ UNCHANGED <<played, since, excused>>
    BY <1>1, <1>12, TurnAt DEF SubmitRecent, external, history
  <2>2. PICK plays \in Recent(run.latest) :
           IF plays = {}
           THEN EndBatch
           ELSE /\ queued' = queued \cup plays /\ overtaken' = overtaken
                /\ run' = [at |-> "recent", newest |-> Newest(plays), omitted |-> Omitted(run.latest, plays)]
    BY <1>12 DEF SubmitRecent, Omitted
  <2>3. CASE plays = {}
    BY <1>2, <2>2, <2>3 DEF EndBatch
  <2>4. CASE plays # {}
    <3>1. PICK latest, newest, omitted :
             latest = run.latest /\ newest = Newest(plays) /\ omitted = Omitted(run.latest, plays)
      OBVIOUS
    <3>2. /\ queued' = queued \cup plays /\ overtaken' = overtaken
          /\ run'.at = "recent" /\ run'.newest = newest /\ run'.omitted = omitted
      BY <2>2, <2>4, <3>1
    <3>3. SUFFICES ASSUME ~overtaken PROVE TurnKept'
      BY <1>2, <3>2
    <3>4. Behind(since, queued \cup excused, latest)
      BY <1>1, <1>12, <3>1, <3>3 DEF TurnKept, SubmitRecent
    <3>5. newest \in 0..played /\ Behind(latest, queued \cup plays \cup omitted, newest)
      BY <1>1, <2>1, <2>4, <3>1, RecentCovers
    <3>6. \A p \in Nat : since' < p /\ p <= newest => p \in queued' \cup excused' \cup omitted
      BY <1>1, <2>1, <3>1, <3>2, <3>4, <3>5 DEF Behind
    <3> QED
      BY <3>2, <3>6 DEF TurnKept, Behind
  <2> QED
    BY <2>3, <2>4
<1> QED
  BY <1>3, <1>4, <1>5, <1>6, <1>7, <1>8, <1>9, <1>10, <1>11, <1>12 DEF ImportersNext, Change, Import

-----------------------------------------------------------------------------
(* The theorems of the importers. *)

LEMMA ImportStep ==
  ASSUME ImportInv, [ImportersNext]_importersVars
  PROVE  ImportInv'
<1>1. CASE ImportersNext
  BY <1>1, PlaysStep, ConnectionStep, TurnStep, RecordedStep, TurnKeptStep DEF ImportInv, ImportTypes
<1>2. CASE UNCHANGED importersVars
  BY <1>2 DEF importersVars, ImportInv, ImportTypes, ConnectionOK, PlaysOK, TurnOK, RecordedKept, TurnKept, Behind,
              Joined, Working
<1> QED
  BY <1>1, <1>2

\* Every request of the user makes one more change, up to the bound.
LEMMA ChangesBounded ==
  /\ ImportersInit => changes <= MaxChanges
  /\ ImportInv /\ changes <= MaxChanges /\ [ImportersNext]_importersVars => (changes <= MaxChanges)'
<1>1. ImportersInit => changes <= MaxChanges
  BY ChangesAssumption DEF ImportersInit
<1>2. ASSUME ImportInv, changes <= MaxChanges, ImportersNext
      PROVE  changes' = changes \/ (changes < MaxChanges /\ changes' = changes + 1)
  <2>1. CASE Play \/ Withdraw \/ Web \/ Fails \/ ImporterCrash
    BY <2>1 DEF Play, Withdraw, Web, WebRefreshed, WebStores, WebRefused, Fails, ImporterCrash
  <2>2. CASE Change
    BY <2>2 DEF Change, music_services_connect, music_services_callback, music_services_disconnect,
                delete_listens_history, refresh_service_token, Ask
  <2>3. CASE Import
    BY <2>3 DEF Import, get_active_users_to_process, StartLastfm, SubmitPage, RecordLatest, SyncedLastfm,
                RefreshSpotify, StoreSpotify, RefusedSpotify, ReportRefused, SubmitRecent, RecordRecent
  <2> QED
    BY <1>2, <2>1, <2>2, <2>3 DEF ImportersNext
<1>3. ImportInv => changes \in Nat
  BY DEF ImportInv, ImportTypes, ConnectionOK
<1>4. ASSUME ImportInv, changes <= MaxChanges, [ImportersNext]_importersVars
      PROVE  (changes <= MaxChanges)'
  BY <1>2, <1>3, <1>4, ChangesAssumption DEF importersVars
<1> QED
  BY <1>1, <1>4

\* The row of listens_importer refers to the connection only while there is one, its time is that of a play, and
\* tokens are those that Spotify has issued, whatever interleaves.
THEOREM ImportersTypeCorrect == ImportersSpec => []ImportersTypeOK
<1>1. ImportInv /\ changes <= MaxChanges => ImportersTypeOK
  <2> SUFFICES ASSUME ImportInv, changes <= MaxChanges PROVE ImportersTypeOK
    OBVIOUS
  <2>1. ConnectionOK /\ PlaysOK /\ TurnOK
    BY DEF ImportInv, ImportTypes
  <2>2. oauth = Absent \/ (oauth.id \in 1..MaxChanges /\ oauth.token \in 0..issued)
    BY <2>1, ChangesAssumption, JoinedRow DEF ConnectionOK
  <2>3. importer = Absent \/ (/\ importer.oauth # 0 => Joined
                              /\ importer.latest \in 0..played
                              /\ importer.error \in {"none", "retry", "final"})
    BY <2>1, JoinedRow
  <2> QED
    BY <2>1, <2>2, <2>3 DEF ImportersTypeOK, ConnectionOK, PlaysOK, TurnOK
<1> QED
  BY <1>1, ImportInit, ImportStep, ChangesBounded, PTL DEF ImportersSpec

\* Whatever arrives, fails, is revoked or is asked for while a batch works: the plays up to the recorded time, from
\* the one that the user wants on, are accepted, or excused by what overtook their batch, or because Spotify's answer
\* had newer ones and no room for them.
THEOREM NoneSkippedCorrect == ImportersSpec => []NoneSkipped
<1>1. ImportInv => NoneSkipped
  BY DEF ImportInv, ImportTypes, PlaysOK, RecordedKept, NoneSkipped, Behind
<1> QED
  BY <1>1, ImportInit, ImportStep, PTL DEF ImportersSpec

===============================================================================
