--------------------------- MODULE ListensDBProofs ---------------------------
(***************************************************************************)
(* Theorems of ListensDB for every set of users, listens and sessions: the *)
(* type invariant and CountsRight, by the inductive invariant              *)
(* CountsInductive; BoundsRight, from what the holder of a metadata row    *)
(* knows of it (LockedBounds); NoInsertDeleteDeadlock, from the order of   *)
(* the row locks (LocksOrdered); and ResolvedListensGone, from what is     *)
(* still ahead of an insertion and of a deletion (DeletionInv).            *)
(***************************************************************************)
EXTENDS ListensDB, FiniteSetTheorems, SequenceTheorems, WellFoundedInduction, TLAPS

-----------------------------------------------------------------------------
(* Counting the rows of a user *)

LEMMA OfFinite ==
    ASSUME NEW S, IsFiniteSet(S), NEW u
    PROVE  IsFiniteSet(Of(S, u)) /\ Cardinality(Of(S, u)) \in Nat
  <1>1. Of(S, u) \in SUBSET S
    BY DEF Of
  <1>2. IsFiniteSet(Of(S, u))
    BY <1>1, FS_Subset
  <1> QED
    BY <1>2, FS_CardinalityType

\* Rows inserted into a table add to the count.
LEMMA OfUnion ==
    ASSUME NEW S, NEW T, IsFiniteSet(S), IsFiniteSet(T), S \cap T = {}, NEW u
    PROVE  Cardinality(Of(S \cup T, u)) = Cardinality(Of(S, u)) + Cardinality(Of(T, u))
  <1>1. Of(S \cup T, u) = Of(S, u) \cup Of(T, u) /\ Of(S, u) \cap Of(T, u) = {}
    BY DEF Of
  <1>2. IsFiniteSet(Of(S, u)) /\ IsFiniteSet(Of(T, u))
    BY OfFinite
  <1>3. Cardinality(Of(S, u)) \in Nat /\ Cardinality(Of(T, u)) \in Nat
    BY OfFinite
  <1>4. Cardinality({}) = 0
    BY FS_EmptySet
  <1>5. Cardinality(Of(S, u) \cup Of(T, u)) =
           Cardinality(Of(S, u)) + Cardinality(Of(T, u)) - Cardinality(Of(S, u) \cap Of(T, u))
    BY <1>2, FS_Union
  <1>6. Cardinality(Of(S, u) \cap Of(T, u)) = 0
    BY <1>1, <1>4
  <1>7. Cardinality(Of(S \cup T, u)) = Cardinality(Of(S, u) \cup Of(T, u))
    BY <1>1
  <1> QED
    BY <1>3, <1>5, <1>6, <1>7

\* Rows deleted from a table are taken off the count.
LEMMA OfDifference ==
    ASSUME NEW S, NEW T, IsFiniteSet(S), T \subseteq S, NEW u
    PROVE  Cardinality(Of(S \ T, u)) = Cardinality(Of(S, u)) - Cardinality(Of(T, u))
  <1>1. IsFiniteSet(T) /\ IsFiniteSet(S \ T)
    <2>1. T \in SUBSET S /\ (S \ T) \in SUBSET S
      OBVIOUS
    <2> QED
      BY <2>1, FS_Subset
  <1>2. (S \ T) \cup T = S /\ (S \ T) \cap T = {}
    OBVIOUS
  <1>3. Cardinality(Of(S, u)) = Cardinality(Of(S \ T, u)) + Cardinality(Of(T, u))
    BY <1>1, <1>2, OfUnion
  <1> QED
    BY <1>1, <1>3, OfFinite

\* A deletion of rows of other users leaves a user's rows as they are.
-----------------------------------------------------------------------------
(* Types *)

LEMMA BoundsType ==
    ASSUME NEW S \in SUBSET Times
    PROVE  Lowest(S) \in Times \cup {Null} /\ Highest(S) \in Times \cup {Null}
  BY DEF Lowest, Highest

LEMMA ActualType ==
    ASSUME NEW S \in SUBSET Row, IsFiniteSet(S), NEW u
    PROVE  Actual(Of(S, u)) \in MetaRow /\ Actual(Of(S, u)).count = Cardinality(Of(S, u))
  <1>1. {r.at : r \in Of(S, u)} \in SUBSET Times
    BY DEF Of, Row
  <1>2. Cardinality(Of(S, u)) \in Int
    BY OfFinite
  <1> QED
    BY <1>1, <1>2, BoundsType DEF Actual, MetaRow

LEMMA EmptyMetaType == EmptyMeta \in MetaRow /\ EmptyMeta.count = 0
  BY DEF EmptyMeta, MetaRow

\* NULL is no metadata row.
LEMMA NullNoMetaRow == Null \notin MetaRow
  BY NullAssumption DEF MetaRow

LEMMA StoredType ==
    ASSUME meta \in [Users -> MetaRow \cup {Null}], NEW u \in Users
    PROVE  Stored(u) \in MetaRow
  BY EmptyMetaType DEF Stored

\* The delete statements visit the rows of their snapshot, whatever the order.
LEMMA PlanType ==
    ASSUME NEW S \in SUBSET Row, IsFiniteSet(S), NEW q \in SetToSeqs(S)
    PROVE  q \in Seq(Row) /\ \A i \in DOMAIN q : q[i] \in S
  <1>1. Cardinality(S) \in Nat
    BY FS_CardinalityType
  <1>2. q \in [1..Cardinality(S) -> S]
    BY DEF SetToSeqs
  <1> QED
    BY <1>1, <1>2

LEMMA SubmittedType ==
    ASSUME NEW b \in Seq(Listen), NEW t \in Nat
    PROVE  Submitted(b, t) \in Seq(Row)
  <1>1. \A i \in 1..Len(b) : b[i] \in Listen
    OBVIOUS
  <1>2. DOMAIN b = 1..Len(b) /\ Len(b) \in Nat
    OBVIOUS
  <1>3. \A i \in 1..Len(b) :
           [user |-> b[i].user, at |-> b[i].at, msid |-> b[i].msid, created |-> t] \in Row
    BY <1>1 DEF Listen, Row
  <1> QED
    BY <1>2, <1>3 DEF Submitted

LEMMA ChunkType ==
    ASSUME NEW q \in Seq(Row)
    PROVE  Chunk(q) \in Seq(Row) /\ AfterChunk(q) \in Seq(Row)
  <1>1. InsertBatchSize \in Nat /\ InsertBatchSize >= 1
    BY BatchSizesAssumption
  <1>2. Len(q) \in Nat
    OBVIOUS
  <1>3. \A m, n \in Int : (1 <= m /\ n <= Len(q)) => SubSeq(q, m, n) \in Seq(Row)
    BY <1>2, SubSeqProperties
  <1> QED
    BY <1>1, <1>2, <1>3 DEF Chunk, AfterChunk

-----------------------------------------------------------------------------
(* The type invariant in four parts, with the finiteness that makes counts numbers *)

Calls == {"none", "insert", "deletePending", "deleteUser", "deleteAccount", "addMissing",
          "recalculate"}

TablesOK ==
    /\ live \in SUBSET Row /\ IsFiniteSet(live)
    /\ meta \in [Users -> MetaRow \cup {Null}]
    /\ request \in Seq(Requests)
    /\ history \in SUBSET [user : Users, max_created : Nat]

LocksOK ==
    /\ advisory \in Sessions \cup {Null}
    /\ mlock \in [Users -> Sessions \cup {Null}]
    /\ mnew \in [Users -> MetaRow \cup {Null}]

SessionsOK ==
    /\ op \in [Sessions -> Calls]
    /\ pc \in [Sessions -> {"idle", "compare", "running", "ready"}]
    /\ rows \in [Sessions -> Seq(Row)]
    /\ ins \in [Sessions -> SUBSET Row] /\ \A s \in Sessions : IsFiniteSet(ins[s])
    /\ del \in [Sessions -> SUBSET Row] /\ \A s \in Sessions : IsFiniteSet(del[s])
    /\ DOMAIN arg = Sessions /\ arg = [s \in Sessions |-> arg[s]]
    /\ \A s \in Sessions : arg[s] \in Args(op[s])

TrackedOK == now \in Nat /\ failures \in Nat /\ erased \in SUBSET Users /\ synced \in SUBSET Users

TypeInv == TablesOK /\ LocksOK /\ SessionsOK /\ TrackedOK

LEMMA TypeInvImplies == TypeInv => TypeOK /\ FiniteRows
  BY DEF TypeInv, TablesOK, LocksOK, SessionsOK, TrackedOK, TypeOK, FiniteRows, Calls

LEMMA StartType ==
    ASSUME SessionsOK, NEW s \in Sessions, NEW o \in Calls,
           NEW p \in {"idle", "compare", "running", "ready"}, NEW rs \in Seq(Row),
           NEW a \in Args(o), Start(s, o, p, rs, a)
    PROVE  SessionsOK'
  <1>1. IsFiniteSet({})
    BY FS_EmptySet
  <1>2. op' \in [Sessions -> Calls] /\ op'[s] = o /\ \A t \in Sessions \ {s} : op'[t] = op[t]
    BY DEF Start, SessionsOK
  <1>3. arg' = [arg EXCEPT ![s] = a]
    BY DEF Start
  <1>4. DOMAIN arg' = Sessions /\ arg'[s] = a /\ \A t \in Sessions \ {s} : arg'[t] = arg[t]
    BY <1>3 DEF SessionsOK
  <1>5. arg' = [t \in Sessions |-> arg'[t]]
    BY <1>3, <1>4 DEF SessionsOK
  <1>6. \A t \in Sessions : arg'[t] \in Args(op'[t])
    BY <1>2, <1>4 DEF SessionsOK
  <1> QED
    BY <1>1, <1>2, <1>4, <1>5, <1>6 DEF Start, SessionsOK

LEMMA FinishType ==
    ASSUME SessionsOK, NEW s \in Sessions, Finish(s)
    PROVE  SessionsOK'
  <1>1. <<>> \in Seq(Row) /\ Null \in Args("none") /\ "none" \in Calls
    BY DEF Args, Calls
  <1> QED
    BY <1>1, StartType DEF Finish

LEMMA StartBatchType ==
    ASSUME SessionsOK, NEW s \in Sessions, NEW U \in SUBSET Users, StartBatch(s, U)
    PROVE  SessionsOK'
  <1> DEFINE a == [batch |-> FirstUsers(U), todo |-> U \ FirstUsers(U), stale |-> {}]
  <1>1. a \in Args("recalculate") /\ <<>> \in Seq(Row) /\ "recalculate" \in Calls
    BY DEF Args, FirstUsers, Calls
  <1>2. Start(s, "recalculate", "compare", <<>>, a)
    BY DEF StartBatch
  <1> HIDE DEF a
  <1> QED
    BY <1>1, <1>2, StartType

LEMMA ReleaseType ==
    ASSUME LocksOK, NEW s \in Sessions, ReleaseLocks(s)
    PROVE  LocksOK'
  BY DEF LocksOK, ReleaseLocks

LEMMA WriteMetaType ==
    ASSUME LocksOK, NEW s \in Sessions, NEW u \in Users, NEW m \in MetaRow \cup {Null},
           WriteMeta(s, u, m), UNCHANGED advisory
    PROVE  LocksOK'
  BY DEF LocksOK, WriteMeta

\* What a session sees is a finite set of rows.
LEMMA ViewType ==
    ASSUME TablesOK, SessionsOK, NEW s \in Sessions
    PROVE  View(s) \in SUBSET Row /\ IsFiniteSet(View(s))
  <1>1. IsFiniteSet(live) /\ IsFiniteSet(ins[s]) /\ (live \ del[s]) \in SUBSET live
    BY DEF TablesOK, SessionsOK
  <1>2. IsFiniteSet(live \ del[s])
    BY <1>1, FS_Subset
  <1>3. IsFiniteSet(View(s))
    BY <1>1, <1>2, FS_Union DEF View
  <1> QED
    BY <1>3 DEF View, TablesOK, SessionsOK

LEMMA PublishType ==
    ASSUME TablesOK, LocksOK, SessionsOK, NEW s \in Sessions, Publish(s)
    PROVE  /\ live' \in SUBSET Row /\ IsFiniteSet(live')
           /\ meta' \in [Users -> MetaRow \cup {Null}]
           /\ LocksOK'
  <1>1. LocksOK'
    BY ReleaseType DEF Publish
  <1>2. live' \in SUBSET Row /\ IsFiniteSet(live')
    BY ViewType DEF Publish
  <1> QED
    BY <1>1, <1>2 DEF Publish, TablesOK, LocksOK

LEMMA TypeInit == Init => TypeInv
  <1> SUFFICES ASSUME Init PROVE TypeInv
    OBVIOUS
  <1>1. live \in SUBSET Row /\ IsFiniteSet(live)
    <2> DEFINE f == [l \in InitListens |->
                        [user |-> l.user, at |-> l.at, msid |-> l.msid, created |-> 0]]
    <2>1. live = {f[l] : l \in InitListens}
      BY DEF Init
    <2>2. f \in Surjection(InitListens, live)
      BY <2>1 DEF Surjection
    <2>3. IsFiniteSet(live)
      BY <2>2, InitListensAssumption, FS_Surjection
    <2>4. live \in SUBSET Row
      BY InitListensAssumption DEF Init, Listen, Row
    <2> QED
      BY <2>3, <2>4
  <1>2. meta \in [Users -> MetaRow \cup {Null}]
    <2>1. \A u \in Users : Actual(Of(live, u)) \in MetaRow
      BY <1>1, ActualType
    <2> QED
      BY <2>1, EmptyMetaType DEF Init
  <1>3. TablesOK
    BY <1>1, <1>2 DEF Init, TablesOK
  <1>4. LocksOK
    BY DEF Init, LocksOK
  <1>5. SessionsOK
    BY FS_EmptySet DEF Init, SessionsOK, Calls, Args
  <1>6. TrackedOK
    BY DEF Init, TrackedOK
  <1> QED
    BY <1>3, <1>4, <1>5, <1>6 DEF TypeInv

-----------------------------------------------------------------------------
(* The actions preserve the types, one by one *)

LEMMA BeginType ==
    ASSUME TypeInv, NEW s \in Sessions, Begin(s)
    PROVE  TypeInv'
  <1> USE DEF TypeInv
  <1>1. CASE BeginInsert(s)
    <2>1. now + 1 \in Nat
      BY DEF TrackedOK
    <2>2. PICK b \in Batches :
             Start(s, "insert", "running", Chunk(Submitted(b, now + 1)),
                   [rest |-> AfterChunk(Submitted(b, now + 1))])
      BY <1>1 DEF BeginInsert
    <2>3. Submitted(b, now + 1) \in Seq(Row)
      BY <2>1, BatchesAssumption, SubmittedType
    <2>4. [rest |-> AfterChunk(Submitted(b, now + 1))] \in Args("insert")
      BY <2>3, ChunkType DEF Args
    <2>5. SessionsOK'
      BY <2>2, <2>3, <2>4, ChunkType, StartType DEF Calls
    <2> QED
      BY <1>1, <2>1, <2>5 DEF BeginInsert, committed, locks, tracked, TablesOK, LocksOK, TrackedOK
  <1>2. CASE BeginDeletePending(s)
    <2> DEFINE D == {r \in live : \E i \in Pending : SameKey(request[i], r)}
    <2>1. PICK q \in SetToSeqs(D) :
             Start(s, "deletePending", "running", q, [pending |-> Pending])
      BY <1>2 DEF BeginDeletePending
    <2>2. D \in SUBSET live /\ D \in SUBSET Row /\ IsFiniteSet(D)
      BY FS_Subset DEF TablesOK
    <2>3. q \in Seq(Row)
      BY <2>2, PlanType
    <2>4. [pending |-> Pending] \in Args("deletePending")
      BY DEF Args, Pending, TablesOK
    <2>5. SessionsOK'
      BY <2>1, <2>3, <2>4, StartType DEF Calls
    <2> QED
      BY <1>2, <2>5 DEF BeginDeletePending, committed, tracked, TablesOK, LocksOK, TrackedOK
  <1>3. CASE BeginDeleteUser(s)
    <2>1. PICK o \in Ops \cap {"deleteUser", "deleteAccount"}, u \in Users, cutoff \in 0..now :
             \E q \in SetToSeqs({r \in Of(live, u) : r.created <= cutoff}) :
                Start(s, o, "running", q, [user |-> u, cutoff |-> cutoff])
      BY <1>3 DEF BeginDeleteUser
    <2> DEFINE D == {r \in Of(live, u) : r.created <= cutoff}
    <2>2. PICK q \in SetToSeqs(D) : Start(s, o, "running", q, [user |-> u, cutoff |-> cutoff])
      BY <2>1
    <2>3. D \in SUBSET live /\ D \in SUBSET Row /\ IsFiniteSet(D)
      BY FS_Subset DEF TablesOK, Of
    <2>4. q \in Seq(Row)
      BY <2>3, PlanType
    <2>5. [user |-> u, cutoff |-> cutoff] \in Args(o) /\ o \in Calls
      <3>1. now \in Nat /\ cutoff \in Nat
        BY DEF TrackedOK
      <3>2. o = "deleteUser" \/ o = "deleteAccount"
        OBVIOUS
      <3>3. Args("deleteUser") = [user : Users, cutoff : Nat]
            /\ Args("deleteAccount") = [user : Users, cutoff : Nat]
        BY DEF Args
      <3>4. [user |-> u, cutoff |-> cutoff] \in [user : Users, cutoff : Nat]
        BY <3>1
      <3> QED
        BY <3>2, <3>3, <3>4 DEF Calls
    <2>6. SessionsOK'
      BY <2>2, <2>4, <2>5, StartType
    <2> QED
      BY <1>3, <2>6 DEF BeginDeleteUser, committed, locks, tracked, TablesOK, LocksOK, TrackedOK
  <1>4. CASE BeginAddMissing(s)
    <2>1. PICK U \in SUBSET Users : Start(s, "addMissing", "running", <<>>, [todo |-> U])
      BY <1>4 DEF BeginAddMissing
    <2>2. [todo |-> U] \in Args("addMissing") /\ <<>> \in Seq(Row)
      BY DEF Args
    <2>3. SessionsOK'
      BY <2>1, <2>2, StartType DEF Calls
    <2> QED
      BY <1>4, <2>3 DEF BeginAddMissing, committed, locks, tracked, TablesOK, LocksOK, TrackedOK
  <1>5. CASE BeginRecalculate(s)
    <2>1. PICK U \in SUBSET Users : StartBatch(s, U)
      BY <1>5 DEF BeginRecalculate
    <2>2. SessionsOK'
      BY <2>1, StartBatchType
    <2> QED
      BY <1>5, <2>2 DEF BeginRecalculate, committed, locks, tracked, TablesOK, LocksOK, TrackedOK
  <1> QED
    BY <1>1, <1>2, <1>3, <1>4, <1>5 DEF Begin

\* Statements of the ingestion and deletion of rows.
LEMMA RowStepType ==
    ASSUME TypeInv, NEW s \in Sessions, InsertRow(s) \/ DeleteRow(s)
    PROVE  TypeInv'
  <1> USE DEF TypeInv
  <1>1. rows[s] \in Seq(Row) /\ rows[s] # <<>>
    BY DEF SessionsOK, InsertRow, DeleteRow
  <1>2. Head(rows[s]) \in Row /\ Tail(rows[s]) \in Seq(Row)
    BY <1>1
  <1>3. rows' \in [Sessions -> Seq(Row)]
    <2>1. rows' = [rows EXCEPT ![s] = Tail(rows[s])]
      BY DEF InsertRow, DeleteRow
    <2> QED
      BY <1>2, <2>1 DEF SessionsOK
  <1>4. ins' \in [Sessions -> SUBSET Row] /\ \A t \in Sessions : IsFiniteSet(ins'[t])
    <2>1. IsFiniteSet(ins[s])
      BY DEF SessionsOK
    <2>2. \A S, x : IsFiniteSet(S) => IsFiniteSet(S \cup {x})
      BY FS_AddElement
    <2>3. IsFiniteSet(ins[s] \cup {Head(rows[s])})
      BY <2>1, <2>2
    <2>4. PICK D \in SUBSET Row : IsFiniteSet(D) /\ ins' = [ins EXCEPT ![s] = D]
      <3>1. CASE InsertRow(s)
        <4>1. CASE \E x \in View(s) : SameKey(x, Head(rows[s]))
          BY <2>1, <3>1, <4>1 DEF InsertRow, SessionsOK
        <4>2. CASE ~(\E x \in View(s) : SameKey(x, Head(rows[s])))
          BY <1>2, <2>3, <3>1, <4>2 DEF InsertRow, SessionsOK
        <4> QED
          BY <4>1, <4>2
      <3>2. CASE DeleteRow(s)
        BY <2>1, <3>2 DEF DeleteRow, SessionsOK
      <3> QED
        BY <3>1, <3>2
    <2> QED
      BY <2>4 DEF SessionsOK
  <1>5. del' \in [Sessions -> SUBSET Row] /\ \A t \in Sessions : IsFiniteSet(del'[t])
    <2>1. IsFiniteSet(del[s])
      BY DEF SessionsOK
    <2>2. \A S, x : IsFiniteSet(S) => IsFiniteSet(S \cup {x})
      BY FS_AddElement
    <2>3. IsFiniteSet(del[s] \cup {Head(rows[s])})
      BY <2>1, <2>2
    <2>4. PICK D \in SUBSET Row : IsFiniteSet(D) /\ del' = [del EXCEPT ![s] = D]
      <3>1. CASE DeleteRow(s)
        <4>1. CASE Head(rows[s]) \notin live
          BY <2>1, <3>1, <4>1 DEF DeleteRow, SessionsOK
        <4>2. CASE ~(Head(rows[s]) \notin live)
          BY <1>2, <2>3, <3>1, <4>2 DEF DeleteRow, SessionsOK
        <4> QED
          BY <4>1, <4>2
      <3>2. CASE InsertRow(s)
        BY <2>1, <3>2 DEF InsertRow, SessionsOK
      <3> QED
        BY <3>1, <3>2
    <2> QED
      BY <2>4 DEF SessionsOK
  <1>6. UNCHANGED <<committed, locks, op, pc, arg, now, failures, tracked>>
    BY DEF InsertRow, DeleteRow
  <1> QED
    BY <1>3, <1>4, <1>5, <1>6
       DEF SessionsOK, committed, locks, tracked, TablesOK, LocksOK, TrackedOK

\* The values written to metadata rows are metadata rows.
LEMMA MetaValues ==
    ASSUME TypeInv, NEW s \in Sessions, NEW u \in Users
    PROVE  /\ WidenedMeta(s, u) \in MetaRow
           /\ WidenedMeta(s, u).count = Stored(u).count + Cardinality(Of(ins[s], u))
           /\ ReducedMeta(s, u) \in MetaRow
           /\ ReducedMeta(s, u).count = Stored(u).count - Cardinality(Of(del[s], u))
           /\ Stored(u) \in MetaRow
           /\ Actual(Of(View(s), u)) \in MetaRow
           /\ Actual(Of(View(s), u)).count = Cardinality(Of(View(s), u))
  <1> USE DEF TypeInv
  <1>1. Stored(u) \in MetaRow
    BY StoredType DEF TablesOK
  <1>2. Actual(Of(ins[s], u)) \in MetaRow
        /\ Actual(Of(ins[s], u)).count = Cardinality(Of(ins[s], u))
    BY ActualType DEF SessionsOK
  <1>3. Cardinality(Of(del[s], u)) \in Nat
    BY OfFinite DEF SessionsOK
  <1>4. Actual(Of(View(s), u)) \in MetaRow
        /\ Actual(Of(View(s), u)).count = Cardinality(Of(View(s), u))
    BY ViewType, ActualType
  <1>5. WidenedMeta(s, u) \in MetaRow
    BY <1>1, <1>2 DEF WidenedMeta, MetaRow, Least, Greatest
  <1>6. WidenedMeta(s, u).count = Stored(u).count + Cardinality(Of(ins[s], u))
    BY <1>2 DEF WidenedMeta
  <1>7. ReducedMeta(s, u) \in MetaRow
        /\ ReducedMeta(s, u).count = Stored(u).count - Cardinality(Of(del[s], u))
    BY <1>1, <1>3 DEF ReducedMeta, MetaRow
  <1> QED
    BY <1>1, <1>4, <1>5, <1>6, <1>7

\* Statements that lock and write metadata rows.
LEMMA MetaStepType ==
    ASSUME TypeInv, NEW s \in Sessions, AddCount(s) \/ SubtractCount(s) \/ LockMeta(s)
    PROVE  TypeInv'
  <1>1. PICK u \in Users, m \in MetaRow : WriteMeta(s, u, m)
    BY MetaValues DEF AddCount, SubtractCount, LockMeta
  <1>2. UNCHANGED <<committed, advisory, session, now, failures, tracked>>
    BY DEF AddCount, SubtractCount, LockMeta
  <1>3. LocksOK'
    BY <1>1, <1>2, WriteMetaType DEF TypeInv
  <1> QED
    BY <1>2, <1>3 DEF TypeInv, committed, session, tracked, TablesOK, SessionsOK, TrackedOK

LEMMA RefreshStepType ==
    ASSUME TypeInv, LockedMeta, NEW s \in Sessions,
           RefreshBounds(s) \/ RefreshMeta(s) \/ DropMeta(s)
    PROVE  TypeInv'
  <1>1. LocksOK'
    <2>1. CASE RefreshBounds(s)
      <3>1. \A u \in Users : Actual(Of(View(s), u)) \in MetaRow
        BY MetaValues
      <3>2. ASSUME NEW u \in Users, mlock[u] = s
            PROVE  [mnew[u] EXCEPT !.min = Actual(Of(View(s), u)).min,
                                   !.max = Actual(Of(View(s), u)).max] \in MetaRow \cup {Null}
        <4>1. mnew[u] \in MetaRow
          BY <2>1, <3>2 DEF RefreshBounds, LockedMeta, HoldsMeta, TypeInv, LocksOK
        <4> QED
          BY <3>1, <4>1 DEF MetaRow
      <3> QED
        BY <2>1, <3>2 DEF RefreshBounds, TypeInv, LocksOK
    <2>2. CASE RefreshMeta(s)
      <3>1. \A u \in Users : Actual(Of(View(s), u)) \in MetaRow
        BY MetaValues
      <3> QED
        BY <2>2, <3>1 DEF RefreshMeta, TypeInv, LocksOK
    <2>3. CASE DropMeta(s)
      BY <2>3, WriteMetaType DEF DropMeta, TypeInv, LocksOK, WriteMeta
    <2> QED
      BY <2>1, <2>2, <2>3
  <1>2. pc' = [pc EXCEPT ![s] = "ready"]
        /\ UNCHANGED <<committed, op, rows, ins, del, arg, now, failures, tracked>>
    BY DEF RefreshBounds, RefreshMeta, DropMeta
  <1> QED
    BY <1>1, <1>2 DEF TypeInv, committed, tracked, TablesOK, SessionsOK, TrackedOK

LEMMA ResolvedType ==
    ASSUME TypeInv, NEW s \in Sessions
    PROVE  Resolved(s) \in Seq(Requests)
  <1>1. request \in Seq(Requests)
    BY DEF TypeInv, TablesOK
  <1>2. DOMAIN request = 1..Len(request) /\ Len(request) \in Nat
        /\ \A i \in 1..Len(request) : request[i] \in Requests
    BY <1>1
  <1>3. \A i \in 1..Len(request) : \A st \in {"complete", "invalid"} :
           [request[i] EXCEPT !.status = st] \in Requests
    BY <1>2 DEF Requests
  <1>4. \A i \in 1..Len(request) : Resolved(s)[i] \in Requests
    BY <1>2, <1>3 DEF Resolved
  <1>5. Resolved(s) = [i \in 1..Len(request) |-> Resolved(s)[i]]
    BY <1>2 DEF Resolved
  <1> QED
    BY <1>2, <1>4, <1>5

\* Commits, rollbacks and the statement that adds missing rows.
LEMMA CommitStepType ==
    ASSUME TypeInv, NEW s \in Sessions,
           \/ CommitInsert(s) \/ CommitDeletePending(s) \/ CommitDeleteUser(s)
           \/ CommitAddMissing(s) \/ CommitRecalculate(s)
    PROVE  TypeInv'
  <1> USE DEF TypeInv
  <1>1. Publish(s)
    BY DEF CommitInsert, CommitDeletePending, CommitDeleteUser, CommitAddMissing,
           CommitRecalculate
  <1>2. /\ live' \in SUBSET Row /\ IsFiniteSet(live')
        /\ meta' \in [Users -> MetaRow \cup {Null}]
        /\ LocksOK'
    BY <1>1, PublishType
  <1>3. CASE CommitInsert(s)
    <2>1. arg[s] \in [rest : Seq(Row)]
      BY <1>3 DEF CommitInsert, SessionsOK, Args
    <2>2. [rest |-> AfterChunk(arg[s].rest)] \in Args("insert")
      BY <2>1, ChunkType DEF Args
    <2>3. SessionsOK'
      BY <1>3, <2>1, <2>2, ChunkType, StartType, FinishType DEF CommitInsert, Calls
    <2> QED
      BY <1>2, <1>3, <2>3 DEF CommitInsert, TablesOK, TrackedOK, tracked
  <1>4. CASE CommitDeletePending(s)
    <2>1. SessionsOK'
      BY <1>4, FinishType DEF CommitDeletePending
    <2> QED
      BY <1>2, <1>4, <2>1, ResolvedType DEF CommitDeletePending, TablesOK, TrackedOK, tracked
  <1>5. CASE CommitDeleteUser(s)
    <2>1. SessionsOK'
      BY <1>5, FinishType DEF CommitDeleteUser
    <2>2. arg[s] \in [user : Users, cutoff : Nat]
      <3>1. op[s] = "deleteUser" \/ op[s] = "deleteAccount"
        BY <1>5 DEF CommitDeleteUser
      <3>2. Args("deleteUser") = [user : Users, cutoff : Nat]
            /\ Args("deleteAccount") = [user : Users, cutoff : Nat]
        BY DEF Args
      <3> QED
        BY <3>1, <3>2 DEF SessionsOK
    <2>3. history' \in SUBSET [user : Users, max_created : Nat]
      BY <1>5, <2>2 DEF CommitDeleteUser, TablesOK
    <2>4. erased' \in SUBSET Users /\ synced' \in SUBSET Users
      BY <1>5, <2>2 DEF CommitDeleteUser, TrackedOK
    <2> QED
      BY <1>2, <1>5, <2>1, <2>3, <2>4 DEF CommitDeleteUser, TablesOK, TrackedOK
  <1>6. CASE CommitAddMissing(s)
    <2>1. SessionsOK'
      BY <1>6, FinishType DEF CommitAddMissing
    <2> QED
      BY <1>2, <1>6, <2>1 DEF CommitAddMissing, TablesOK, TrackedOK, tracked
  <1>7. CASE CommitRecalculate(s)
    <2>1. arg[s] \in [batch : SUBSET Users, todo : SUBSET Users, stale : SUBSET Users]
      BY <1>7 DEF CommitRecalculate, SessionsOK, Args
    <2>2. SessionsOK'
      BY <1>7, <2>1, FinishType, StartBatchType DEF CommitRecalculate
    <2> QED
      BY <1>2, <1>7, <2>1, <2>2 DEF CommitRecalculate, TablesOK, TrackedOK
  <1> QED
    BY <1>3, <1>4, <1>5, <1>6, <1>7

LEMMA OtherStepType ==
    ASSUME TypeInv,
           \/ QueueDeletion
           \/ \E s \in Sessions : AddMissingRow(s) \/ Compare(s) \/ Rollback(s) \/ DeadlockVictim(s)
    PROVE  TypeInv'
  <1> USE DEF TypeInv
  <1>1. CASE QueueDeletion
    <2>1. \A l \in Listen :
             [user |-> l.user, at |-> l.at, msid |-> l.msid, status |-> "pending"] \in Requests
      BY DEF Listen, Requests
    <2>2. request' \in Seq(Requests)
      BY <1>1, <2>1 DEF QueueDeletion, TablesOK
    <2> QED
      BY <1>1, <2>2 DEF QueueDeletion, TablesOK, LocksOK, SessionsOK, TrackedOK, locks, session
  <1>2. ASSUME NEW s \in Sessions, AddMissingRow(s) PROVE TypeInv'
    <2>1. arg[s] \in [todo : SUBSET Users] /\ op[s] = "addMissing"
      BY <1>2 DEF AddMissingRow, SessionsOK, Args
    <2>2. PICK u \in Users : arg' = [arg EXCEPT ![s].todo = @ \ {u}]
      BY <1>2 DEF AddMissingRow
    <2>3. arg'[s] \in Args("addMissing") /\ DOMAIN arg' = Sessions
          /\ \A t \in Sessions \ {s} : arg'[t] = arg[t]
      BY <2>1, <2>2 DEF SessionsOK, Args
    <2>4. arg' = [t \in Sessions |-> arg'[t]]
      BY <2>2, <2>3 DEF SessionsOK
    <2>5. SessionsOK'
      <3>1. \A t \in Sessions : arg'[t] \in Args(op[t])
        BY <2>1, <2>3 DEF SessionsOK
      <3> QED
        BY <1>2, <2>3, <2>4, <3>1 DEF AddMissingRow, SessionsOK
    <2>6. LocksOK'
      BY <1>2, EmptyMetaType DEF AddMissingRow, WriteMeta, LocksOK
    <2> QED
      BY <1>2, <2>5, <2>6 DEF AddMissingRow, committed, tracked, TablesOK, TrackedOK
  <1>3. ASSUME NEW s \in Sessions, Compare(s) PROVE TypeInv'
    <2>1. op[s] = "recalculate"
          /\ arg[s] \in [batch : SUBSET Users, todo : SUBSET Users, stale : SUBSET Users]
      BY <1>3 DEF Compare, SessionsOK, Args
    <2>2. PICK U \in SUBSET Users : arg' = [arg EXCEPT ![s].stale = U]
                                    /\ synced' = (synced \cup (arg[s].batch \ U)) \ erased
      <3> DEFINE U == {u \in arg[s].batch : meta[u] = Null \/ meta[u] # Actual(Of(live, u))}
      <3>1. U \in SUBSET Users
        BY <2>1
      <3> QED
        BY <1>3, <3>1 DEF Compare
    <2>3. arg'[s] \in Args("recalculate") /\ DOMAIN arg' = Sessions
          /\ \A t \in Sessions \ {s} : arg'[t] = arg[t]
      BY <2>1, <2>2 DEF SessionsOK, Args
    <2>4. arg' = [t \in Sessions |-> arg'[t]]
      BY <2>2, <2>3 DEF SessionsOK
    <2>5. SessionsOK'
      <3>1. \A t \in Sessions : arg'[t] \in Args(op[t])
        BY <2>1, <2>3 DEF SessionsOK
      <3> QED
        BY <1>3, <2>3, <2>4, <3>1 DEF Compare, SessionsOK
    <2> QED
      BY <1>3, <2>1, <2>2, <2>5 DEF Compare, committed, locks, TablesOK, LocksOK, TrackedOK
  <1>4. ASSUME NEW s \in Sessions, Rollback(s) \/ DeadlockVictim(s) PROVE TypeInv'
    <2>1. Finish(s) /\ ReleaseLocks(s) /\ UNCHANGED <<committed, now, tracked>>
      BY <1>4 DEF Rollback, DeadlockVictim, Abort
    <2>2. SessionsOK' /\ LocksOK'
      BY <2>1, FinishType, ReleaseType
    <2>3. failures' \in Nat
      BY <1>4 DEF Rollback, DeadlockVictim, TrackedOK
    <2> QED
      BY <2>1, <2>2, <2>3 DEF committed, tracked, TablesOK, TrackedOK
  <1> QED
    BY <1>1, <1>2, <1>3, <1>4

-----------------------------------------------------------------------------
(* The inductive invariant *)

IInv == TypeInv /\ CountsInductive

LEMMA IInvInit == Init => IInv
  <1> SUFFICES ASSUME Init PROVE IInv
    OBVIOUS
  <1>1. TypeInv
    BY TypeInit
  <1>2. FiniteRows
    BY <1>1, TypeInvImplies
  <1>3. RowsOwned /\ OwnUserOnly /\ IdleCalls /\ ReadyLocked /\ synced \cap erased = {}
    BY DEF Init, RowsOwned, OwnUserOnly, IdleCalls, ReadyLocked
  <1>4. LockedMeta
    BY NullAssumption DEF Init, LockedMeta, HoldsMeta
  <1>5. CountsRight
    <2> SUFFICES ASSUME NEW u \in synced PROVE Stored(u).count = Cardinality(Of(live, u))
      BY DEF CountsRight
    <2>1. Stored(u) = Actual(Of(live, u)) /\ u \in Users
      BY DEF Init
    <2> QED
      BY <2>1 DEF Actual
  <1> QED
    BY <1>1, <1>2, <1>3, <1>4, <1>5 DEF IInv, CountsInductive

\* What the transaction that s starts next may look like.
FreshCall(o, p, rs, a) ==
    /\ p \in {"idle", "compare", "running"}
    /\ p = "idle" <=> o = "none"
    /\ o \in {"deleteUser", "deleteAccount"} => \A i \in DOMAIN rs : rs[i].user = a.user

LEMMA StartOwned ==
    ASSUME IInv, NEW s \in Sessions, NEW o, NEW p, NEW rs, NEW a, Start(s, o, p, rs, a),
           FreshCall(o, p, rs, a), live' = live \/ live' = View(s)
    PROVE  RowsOwned' /\ OwnUserOnly' /\ IdleCalls'
  <1>1. /\ op' = [op EXCEPT ![s] = o] /\ op \in [Sessions -> Calls]
        /\ pc' = [pc EXCEPT ![s] = p] /\ DOMAIN pc = Sessions
        /\ rows' = [rows EXCEPT ![s] = rs] /\ DOMAIN rows = Sessions
        /\ ins' = [ins EXCEPT ![s] = {}] /\ DOMAIN ins = Sessions
        /\ del' = [del EXCEPT ![s] = {}] /\ DOMAIN del = Sessions
        /\ arg' = [arg EXCEPT ![s] = a] /\ DOMAIN arg = Sessions
    BY DEF Start, IInv, TypeInv, SessionsOK
  <1>2. RowsOwned /\ OwnUserOnly /\ IdleCalls
    BY DEF IInv, CountsInductive
  <1>3. RowsOwned'
    <2>1. \A t \in Sessions :
             /\ ins'[t] # {} => op'[t] = "insert"
             /\ del'[t] # {} => op'[t] \in Deletes
      BY <1>1, <1>2 DEF RowsOwned
    <2>2. \A t \in Sessions : ins'[t] \cap live' = {} /\ del'[t] \subseteq live'
      BY <1>1, <1>2 DEF RowsOwned, View
    <2>3. \A t, v \in Sessions : t # v => ins'[t] \cap ins'[v] = {} /\ del'[t] \cap del'[v] = {}
      BY <1>1, <1>2 DEF RowsOwned
    <2> QED
      BY <2>1, <2>2, <2>3 DEF RowsOwned
  <1>4. OwnUserOnly'
    BY <1>1, <1>2 DEF OwnUserOnly, FreshCall
  <1>5. IdleCalls'
    BY <1>1, <1>2 DEF IdleCalls, FreshCall
  <1> QED
    BY <1>3, <1>4, <1>5

\* A step of s that starts a new transaction and leaves it without locks does not disturb
\* what is known of the locks of the others.
LEMMA StartLocks ==
    ASSUME IInv, NEW s \in Sessions, NEW o, NEW p, NEW rs, NEW a, Start(s, o, p, rs, a),
           FreshCall(o, p, rs, a),
           \A u \in Users : mlock'[u] # s,
           \A u \in Users : mlock[u] # s => mlock'[u] = mlock[u] /\ mnew'[u] = mnew[u],
           \A u \in Users : mlock[u] # s => (u \in erased' \/ Of(live', u) = Of(live, u)),
           \A u \in Users : mlock[u] # s => meta'[u] = meta[u],
           \A u \in Users : mlock[u] = s => mlock'[u] = Null,
           erased \subseteq erased'
    PROVE  LockedMeta' /\ ReadyLocked'
  <1>1. /\ op' = [op EXCEPT ![s] = o] /\ op \in [Sessions -> Calls]
        /\ pc' = [pc EXCEPT ![s] = p] /\ DOMAIN pc = Sessions
        /\ rows' = [rows EXCEPT ![s] = rs] /\ DOMAIN rows = Sessions
        /\ ins' = [ins EXCEPT ![s] = {}] /\ DOMAIN ins = Sessions
        /\ del' = [del EXCEPT ![s] = {}] /\ DOMAIN del = Sessions
        /\ arg' = [arg EXCEPT ![s] = a] /\ DOMAIN arg = Sessions
    BY DEF Start, IInv, TypeInv, SessionsOK
  <1>2. LockedMeta /\ ReadyLocked /\ SessionsOK
    BY DEF IInv, CountsInductive, TypeInv
  <1>3. LockedMeta'
    <2> SUFFICES ASSUME NEW t \in Sessions, NEW u \in Users, mlock'[u] = t
                 PROVE  HoldsMeta(t, u)'
      BY DEF LockedMeta, HoldsMeta
    <2>1. t # s /\ mlock[u] = t /\ mnew'[u] = mnew[u] /\ meta'[u] = meta[u]
      BY NullAssumption
    <2>2. /\ op'[t] = op[t] /\ rows'[t] = rows[t] /\ ins'[t] = ins[t] /\ del'[t] = del[t]
          /\ pc'[t] = pc[t] /\ arg'[t] = arg[t]
      BY <1>1, <2>1
    <2>3. Stored(u)' = Stored(u)
      BY <2>1 DEF Stored
    <2>4. ASSUME u \notin erased' PROVE Of(View(t), u)' = Of(View(t), u)
      <3>1. Of(live', u) = Of(live, u)
        BY <2>1, <2>4
      <3> QED
        BY <2>2, <3>1 DEF View, Of
    <2> QED
      BY <1>2, <2>1, <2>2, <2>3, <2>4 DEF LockedMeta, HoldsMeta
  <1>4. ReadyLocked'
    <2> SUFFICES ASSUME NEW t \in Sessions, pc'[t] = "ready"
                 PROVE  (/\ rows[t] = <<>>
                         /\ op[t] = "deletePending" => \A r \in del[t] : mlock[r.user] = t
                         /\ op[t] = "deleteUser" => mlock[arg[t].user] = t
                         /\ op[t] = "recalculate" => \A u \in arg[t].stale : mlock[u] = t)'
      BY DEF ReadyLocked
    <2>1. t # s
      BY <1>1 DEF FreshCall
    <2>2. /\ op'[t] = op[t] /\ rows'[t] = rows[t] /\ del'[t] = del[t] /\ pc'[t] = pc[t]
          /\ arg'[t] = arg[t]
      BY <1>1, <2>1
    <2>3. \A u \in Users : mlock[u] = t => mlock'[u] = t
      BY <2>1
    <2>4. \A r \in del[t] : r.user \in Users
      BY <1>2 DEF SessionsOK, Row
    <2>5. op[t] = "deleteUser" => arg[t].user \in Users
      BY <1>2 DEF SessionsOK, Args
    <2>6. op[t] = "recalculate" => arg[t].stale \subseteq Users
      BY <1>2 DEF SessionsOK, Args
    <2> QED
      BY <1>2, <2>2, <2>3, <2>4, <2>5, <2>6 DEF ReadyLocked
  <1> QED
    BY <1>3, <1>4

\* Beginning a call: the session held nothing.
LEMMA BeginCounts ==
    ASSUME IInv, NEW s \in Sessions, Begin(s), TypeInv'
    PROVE  CountsInductive'
  <1>1. Idle(s) /\ UNCHANGED <<committed, mlock, mnew, erased, synced>>
    BY DEF Begin, BeginInsert, BeginDeletePending, BeginDeleteUser, BeginAddMissing,
           BeginRecalculate, locks, tracked
  <1>2. \E o, p, rs, a : Start(s, o, p, rs, a) /\ FreshCall(o, p, rs, a)
    <2>1. CASE BeginDeleteUser(s)
      <3>1. PICK o \in Ops \cap {"deleteUser", "deleteAccount"}, u \in Users, cutoff \in 0..now :
               \E q \in SetToSeqs({r \in Of(live, u) : r.created <= cutoff}) :
                  Start(s, o, "running", q, [user |-> u, cutoff |-> cutoff])
        BY <2>1 DEF BeginDeleteUser
      <3> DEFINE D == {r \in Of(live, u) : r.created <= cutoff}
      <3>2. PICK q \in SetToSeqs(D) :
               Start(s, o, "running", q, [user |-> u, cutoff |-> cutoff])
        BY <3>1
      <3>3. D \in SUBSET live /\ live \in SUBSET Row /\ IsFiniteSet(live)
        BY DEF Of, IInv, TypeInv, TablesOK
      <3>4. D \in SUBSET Row /\ IsFiniteSet(D)
        BY <3>3, FS_Subset
      <3>5. \A i \in DOMAIN q : q[i] \in D
        BY <3>4, PlanType
      <3>6. FreshCall(o, "running", q, [user |-> u, cutoff |-> cutoff])
        BY <3>5 DEF FreshCall, Of
      <3> QED
        BY <3>2, <3>6
    <2>2. CASE BeginInsert(s)
      BY <2>2 DEF BeginInsert, FreshCall
    <2>3. CASE BeginDeletePending(s)
      BY <2>3 DEF BeginDeletePending, FreshCall
    <2>4. CASE BeginAddMissing(s)
      BY <2>4 DEF BeginAddMissing, FreshCall
    <2>5. CASE BeginRecalculate(s)
      BY <2>5 DEF BeginRecalculate, StartBatch, FreshCall
    <2> QED
      BY <2>1, <2>2, <2>3, <2>4, <2>5 DEF Begin
  <1>3. PICK o, p, rs, a : Start(s, o, p, rs, a) /\ FreshCall(o, p, rs, a)
    BY <1>2
  <1>4. \A u \in Users : mlock[u] # s
    BY <1>1 DEF Idle, IInv, CountsInductive, LockedMeta, HoldsMeta, IdleCalls
  <1>5. live' = live /\ meta' = meta /\ mlock' = mlock /\ mnew' = mnew
        /\ erased' = erased /\ synced' = synced
    BY <1>1 DEF committed
  <1>6. RowsOwned' /\ OwnUserOnly' /\ IdleCalls'
    BY <1>3, <1>5, StartOwned
  <1>7. LockedMeta' /\ ReadyLocked'
    BY <1>3, <1>4, <1>5, StartLocks
  <1>8. CountsRight' /\ (synced \cap erased = {})'
    BY <1>5 DEF IInv, CountsInductive, CountsRight, Stored
  <1> QED
    BY <1>6, <1>7, <1>8, TypeInvImplies DEF CountsInductive, TypeInv, TablesOK, SessionsOK, FiniteRows

\* A rollback leaves the tables as they were committed.
LEMMA AbortCounts ==
    ASSUME IInv, NEW s \in Sessions, Rollback(s) \/ DeadlockVictim(s), TypeInv'
    PROVE  CountsInductive'
  <1>1. Finish(s) /\ ReleaseLocks(s) /\ UNCHANGED <<committed, now, tracked>>
    BY DEF Rollback, DeadlockVictim, Abort
  <1>2. Start(s, "none", "idle", <<>>, Null) /\ FreshCall("none", "idle", <<>>, Null)
    BY <1>1 DEF Finish, FreshCall
  <1>3. live' = live /\ meta' = meta /\ erased' = erased /\ synced' = synced
    BY <1>1 DEF committed, tracked
  <1>4. /\ \A u \in Users : mlock'[u] # s
        /\ \A u \in Users : mlock[u] # s => mlock'[u] = mlock[u] /\ mnew'[u] = mnew[u]
        /\ \A u \in Users : mlock[u] = s => mlock'[u] = Null
    BY <1>1, NullAssumption DEF ReleaseLocks
  <1>5. RowsOwned' /\ OwnUserOnly' /\ IdleCalls'
    BY <1>2, <1>3, StartOwned
  <1>6. LockedMeta' /\ ReadyLocked'
    BY <1>2, <1>3, <1>4, StartLocks
  <1>7. CountsRight' /\ (synced \cap erased = {})'
    BY <1>3 DEF IInv, CountsInductive, CountsRight, Stored
  <1> QED
    BY <1>5, <1>6, <1>7 DEF CountsInductive, TypeInv, TablesOK, SessionsOK, FiniteRows

\* Inserting or deleting a row: the row was free, and the session holds no metadata row yet.
LEMMA RowCounts ==
    ASSUME IInv, NEW s \in Sessions, InsertRow(s) \/ DeleteRow(s), TypeInv'
    PROVE  CountsInductive'
  <1> DEFINE h == Head(rows[s])
  <1>1. rows[s] # <<>> /\ rows[s] \in Seq(Row) /\ pc[s] = "running" /\ h \in Row
        /\ rows' = [rows EXCEPT ![s] = Tail(rows[s])] /\ DOMAIN rows = Sessions
    BY DEF InsertRow, DeleteRow, IInv, TypeInv, SessionsOK
  <1>2. UNCHANGED <<committed, locks, op, pc, arg, now, failures, tracked>>
    BY DEF InsertRow, DeleteRow
  <1>3. /\ live' = live /\ meta' = meta /\ mlock' = mlock /\ mnew' = mnew /\ erased' = erased
        /\ synced' = synced /\ op' = op /\ pc' = pc /\ arg' = arg
    BY <1>2 DEF committed, locks, tracked
  <1>4. RowsOwned /\ OwnUserOnly /\ LockedMeta /\ ReadyLocked
    BY DEF IInv, CountsInductive
  <1>5. DOMAIN ins = Sessions /\ DOMAIN del = Sessions
    BY DEF IInv, TypeInv, SessionsOK
  <1>6. \A t \in Sessions \ {s} : rows'[t] = rows[t] /\ ins'[t] = ins[t] /\ del'[t] = del[t]
    BY <1>1, <1>5 DEF InsertRow, DeleteRow
  <1>7. RowsOwned'
    <2>1. CASE InsertRow(s)
      <3>1. op[s] = "insert" /\ del' = del
        BY <2>1 DEF InsertRow
      <3>2. del[s] = {}
        BY <1>4, <3>1 DEF RowsOwned, Deletes
      <3>3. CASE ins' = ins
        BY <1>3, <1>4, <3>1, <3>3 DEF RowsOwned
      <3>4. CASE ~ \E x \in View(s) : SameKey(x, h)
        <4>1. ins'[s] = ins[s] \cup {h}
          BY <1>5, <2>1, <3>4 DEF InsertRow
        <4>2. h \notin live
          BY <3>2, <3>4 DEF View, SameKey
        <4>3. \A t \in Sessions \ {s} : h \notin ins[t]
          BY <2>1 DEF InsertRow, KeyHeldBy, SameKey
        <4> QED
          BY <1>3, <1>4, <1>6, <3>1, <4>1, <4>2, <4>3 DEF RowsOwned
      <3>5. CASE \E x \in View(s) : SameKey(x, h)
        <4>1. ins' = ins
          BY <2>1, <3>5 DEF InsertRow, IInv, TypeInv, SessionsOK
        <4> QED
          BY <3>3, <4>1
      <3> QED
        BY <3>4, <3>5
    <2>2. CASE DeleteRow(s)
      <3>1. op[s] \in Deletes /\ ins' = ins
        BY <2>2 DEF DeleteRow, Deletes
      <3>2. CASE h \notin live
        <4>1. del' = del
          BY <2>2, <3>2 DEF DeleteRow, IInv, TypeInv, SessionsOK
        <4> QED
          BY <1>3, <1>4, <3>1, <4>1 DEF RowsOwned
      <3>3. CASE h \in live
        <4>1. del'[s] = del[s] \cup {h}
          BY <1>5, <2>2, <3>3 DEF DeleteRow
        <4>2. \A t \in Sessions \ {s} : h \notin del[t]
          BY <2>2 DEF DeleteRow
        <4> QED
          BY <1>3, <1>4, <1>6, <3>1, <3>3, <4>1, <4>2 DEF RowsOwned
      <3> QED
        BY <3>2, <3>3
    <2> QED
      BY <2>1, <2>2
  <1>8. OwnUserOnly'
    <2> SUFFICES ASSUME op[s] \in {"deleteUser", "deleteAccount"}
                 PROVE  /\ \A i \in DOMAIN rows'[s] : rows'[s][i].user = arg[s].user
                        /\ \A r \in del'[s] : r.user = arg[s].user
      BY <1>3, <1>4, <1>6 DEF OwnUserOnly
    <2>1. rows'[s] = Tail(rows[s])
      BY <1>1
    <2>2. \A i \in 1..Len(rows[s]) : rows[s][i].user = arg[s].user
      BY <1>1, <1>4 DEF OwnUserOnly
    <2>3. \A i \in DOMAIN rows'[s] : rows'[s][i].user = arg[s].user
      <3>1. Len(Tail(rows[s])) = Len(rows[s]) - 1 /\ Tail(rows[s]) \in Seq(Row)
            /\ \A i \in 1..Len(Tail(rows[s])) : Tail(rows[s])[i] = rows[s][i + 1]
        BY <1>1
      <3> QED
        BY <1>1, <2>1, <2>2, <3>1
    <2>4. h.user = arg[s].user
      <3>1. h = rows[s][1] /\ 1 \in 1..Len(rows[s])
        BY <1>1
      <3> QED
        BY <2>2, <3>1
    <2>5. del'[s] \subseteq del[s] \cup {h}
      <3>1. ~InsertRow(s)
        BY DEF InsertRow
      <3> QED
        BY <1>5, <3>1 DEF DeleteRow
    <2> QED
      BY <1>4, <2>3, <2>4, <2>5 DEF OwnUserOnly
  <1>9. IdleCalls' /\ CountsRight' /\ (synced \cap erased = {})'
    BY <1>3 DEF IInv, CountsInductive, IdleCalls, CountsRight, Stored
  <1>10. \A u \in Users : mlock[u] # s
    BY <1>1, <1>4 DEF LockedMeta, HoldsMeta
  <1>11. LockedMeta'
    <2> SUFFICES ASSUME NEW t \in Sessions, NEW u \in Users, mlock[u] = t
                 PROVE  /\ rows'[t] = rows[t] /\ ins'[t] = ins[t] /\ del'[t] = del[t]
                        /\ Stored(u)' = Stored(u) /\ View(t)' = View(t)
      BY <1>3, <1>4 DEF LockedMeta, HoldsMeta
    <2> QED
      BY <1>3, <1>6, <1>10 DEF Stored, View
  <1>12. ReadyLocked'
    BY <1>1, <1>3, <1>4, <1>6 DEF ReadyLocked
  <1> QED
    BY <1>7, <1>8, <1>9, <1>11, <1>12 DEF CountsInductive, TypeInv, TablesOK, SessionsOK, FiniteRows

\* A commit publishes rows of users whose metadata rows it holds, together with metadata
\* that counts them; the only exception is the deletion of an account.
LEMMA PublishCounts ==
    ASSUME IInv, NEW s \in Sessions, Publish(s),
           NEW o, NEW p, NEW rs, NEW a, Start(s, o, p, rs, a), FreshCall(o, p, rs, a),
           \A r \in ins[s] \cup del[s] : mlock[r.user] = s \/ r.user \in erased',
           \A u \in Users : (mlock[u] = s /\ u \notin erased' /\ u \in synced') =>
              mnew[u] # Null /\ mnew[u].count = Cardinality(Of(live', u)),
           \A u \in synced' : u \in synced \/ mlock[u] = s,
           synced' \subseteq Users, erased \subseteq erased', synced' \cap erased' = {}, TypeInv'
    PROVE  CountsInductive'
  <1>1. /\ live' = View(s)
        /\ meta' = [u \in Users |-> IF mlock[u] = s THEN mnew[u] ELSE meta[u]]
        /\ mlock' = [u \in Users |-> IF mlock[u] = s THEN Null ELSE mlock[u]]
        /\ mnew' = [u \in Users |-> IF mlock[u] = s THEN Null ELSE mnew[u]]
    BY DEF Publish, ReleaseLocks
  <1>2. \A u \in Users : mlock[u] # s => u \in erased' \/ Of(live', u) = Of(live, u)
    <2> SUFFICES ASSUME NEW u \in Users, mlock[u] # s, u \notin erased'
                 PROVE  Of((live \ del[s]) \cup ins[s], u) = Of(live, u)
      BY <1>1 DEF View
    <2>1. \A r \in ins[s] \cup del[s] : r.user # u
      OBVIOUS
    <2> QED
      BY <2>1 DEF Of
  <1>3. RowsOwned' /\ OwnUserOnly' /\ IdleCalls'
    BY <1>1, StartOwned
  <1>4. LockedMeta' /\ ReadyLocked'
    BY <1>1, <1>2, NullAssumption, StartLocks
  <1>5. CountsRight'
    <2> SUFFICES ASSUME NEW u \in synced'
                 PROVE  (Stored(u).count = Cardinality(Of(live, u)))'
      BY DEF CountsRight
    <2>1. u \in Users /\ u \notin erased'
      OBVIOUS
    <2>2. CASE mlock[u] = s
      <3>1. meta'[u] = mnew[u] /\ mnew[u] # Null
            /\ mnew[u].count = Cardinality(Of(live', u))
        BY <1>1, <2>1, <2>2
      <3> QED
        BY <3>1 DEF Stored
    <2>3. CASE mlock[u] # s
      <3>1. u \in synced /\ meta'[u] = meta[u] /\ Of(live', u) = Of(live, u)
        BY <1>1, <1>2, <2>1, <2>3
      <3> QED
        BY <3>1 DEF Stored, CountsRight, IInv, CountsInductive
    <2> QED
      BY <2>2, <2>3
  <1> QED
    BY <1>3, <1>4, <1>5 DEF CountsInductive, TypeInv, TablesOK, SessionsOK, FiniteRows

LEMMA CommitCounts ==
    ASSUME IInv, NEW s \in Sessions, TypeInv',
           \/ CommitInsert(s) \/ CommitDeletePending(s) \/ CommitDeleteUser(s)
           \/ CommitAddMissing(s) \/ CommitRecalculate(s)
    PROVE  CountsInductive'
  <1> USE DEF IInv, CountsInductive, TypeInv
  <1>1. Publish(s) /\ live' = (live \ del[s]) \cup ins[s]
    BY DEF CommitInsert, CommitDeletePending, CommitDeleteUser, CommitAddMissing,
           CommitRecalculate, Publish, View
  <1>2. IsFiniteSet(live) /\ IsFiniteSet(ins[s]) /\ IsFiniteSet(del[s])
        /\ ins[s] \in SUBSET Row /\ del[s] \in SUBSET Row
    BY DEF TablesOK, SessionsOK
  <1>3. ins[s] \cap live = {} /\ del[s] \subseteq live
        /\ (ins[s] # {} => op[s] = "insert") /\ (del[s] # {} => op[s] \in Deletes)
    BY DEF RowsOwned
  <1>4. Finish(s) => Start(s, "none", "idle", <<>>, Null) /\ FreshCall("none", "idle", <<>>, Null)
    BY DEF Finish, FreshCall
  <1>5. synced' \subseteq Users /\ synced \subseteq Users
    BY DEF TrackedOK
  <1>6. \A r \in ins[s] \cup del[s] : r.user \in Users
    BY <1>2 DEF Row
  <1>7. CASE CommitInsert(s)
    <2>1. op[s] = "insert" /\ del[s] = {} /\ synced' = synced /\ erased' = erased
          /\ ToLock(s) = {}
      BY <1>3, <1>7 DEF CommitInsert, MetaLocked, tracked, Deletes
    <2>2. \A r \in ins[s] : mlock[r.user] = s
      BY <1>6, <2>1 DEF ToLock, Locked
    <2>3. ASSUME NEW u \in Users, mlock[u] = s, u \in synced'
          PROVE  mnew[u] # Null /\ mnew[u].count = Cardinality(Of(live', u))
      <3>1. mnew[u] # Null /\ mnew[u].count = Stored(u).count + Cardinality(Of(ins[s], u))
        BY <2>1, <2>3 DEF LockedMeta, HoldsMeta
      <3>2. Stored(u).count = Cardinality(Of(live, u))
        BY <2>1, <2>3 DEF CountsRight
      <3>3. live' = live \cup ins[s]
        BY <1>1, <2>1
      <3> QED
        BY <1>2, <1>3, <3>1, <3>2, <3>3, OfUnion
    <2>4. \E o, p, rs, a : Start(s, o, p, rs, a) /\ FreshCall(o, p, rs, a)
      BY <1>4, <1>7 DEF CommitInsert, FreshCall
    <2> QED
      BY <1>1, <1>5, <2>1, <2>2, <2>3, <2>4, PublishCounts
  <1>8. CASE CommitDeletePending(s)
    <2>1. op[s] = "deletePending" /\ ins[s] = {} /\ synced' = synced /\ erased' = erased
      BY <1>3, <1>8 DEF CommitDeletePending, tracked
    <2>2. \A r \in del[s] : mlock[r.user] = s
      <3>1. CASE pc[s] = "ready"
        BY <2>1, <3>1 DEF ReadyLocked
      <3>2. CASE del[s] = {}
        BY <3>2
      <3> QED
        BY <1>8, <3>1, <3>2 DEF CommitDeletePending
    <2>3. ASSUME NEW u \in Users, mlock[u] = s, u \in synced'
          PROVE  mnew[u] # Null /\ mnew[u].count = Cardinality(Of(live', u))
      <3>1. mnew[u] # Null /\ mnew[u].count = Stored(u).count - Cardinality(Of(del[s], u))
        BY <2>1, <2>3 DEF LockedMeta, HoldsMeta
      <3>2. Stored(u).count = Cardinality(Of(live, u))
        BY <2>1, <2>3 DEF CountsRight
      <3>3. live' = live \ del[s]
        BY <1>1, <2>1
      <3> QED
        BY <1>2, <1>3, <3>1, <3>2, <3>3, OfDifference
    <2> QED
      BY <1>1, <1>4, <1>5, <1>8, <2>1, <2>2, <2>3, PublishCounts DEF CommitDeletePending
  <1>9. CASE CommitDeleteUser(s)
    <2>1. /\ op[s] \in {"deleteUser", "deleteAccount"} /\ pc[s] = "ready" /\ ins[s] = {}
          /\ erased' = IF op[s] = "deleteAccount" THEN erased \cup {arg[s].user} ELSE erased
          /\ synced' = (synced \cup {arg[s].user}) \ erased'
      BY <1>3, <1>9 DEF CommitDeleteUser
    <2>2. \A r \in del[s] : r.user = arg[s].user
      BY <2>1 DEF OwnUserOnly
    <2>3. op[s] = "deleteUser" => mlock[arg[s].user] = s
      BY <2>1 DEF ReadyLocked
    <2>4. \A r \in ins[s] \cup del[s] : mlock[r.user] = s \/ r.user \in erased'
      BY <2>1, <2>2, <2>3
    <2>5. ASSUME NEW u \in Users, mlock[u] = s, u \notin erased', u \in synced'
          PROVE  mnew[u] # Null /\ mnew[u].count = Cardinality(Of(live', u))
      <3>1. CASE op[s] = "deleteUser"
        BY <1>1, <2>1, <2>5, <3>1 DEF LockedMeta, HoldsMeta, View
      <3>2. CASE op[s] = "deleteAccount"
        BY <1>1, <2>1, <2>5, <3>2 DEF LockedMeta, HoldsMeta, View
      <3> QED
        BY <2>1, <3>1, <3>2
    <2>6. \A u \in synced' : u \in synced \/ mlock[u] = s
      BY <2>1, <2>3
    <2> QED
      BY <1>1, <1>4, <1>5, <1>9, <2>1, <2>4, <2>5, <2>6, PublishCounts DEF CommitDeleteUser
  <1>10. CASE CommitAddMissing(s)
    <2>1. op[s] = "addMissing" /\ ins[s] = {} /\ del[s] = {} /\ synced' = synced
          /\ erased' = erased /\ live' = live
      BY <1>1, <1>3, <1>10 DEF CommitAddMissing, tracked, Deletes
    <2>2. ASSUME NEW u \in Users, mlock[u] = s, u \in synced'
          PROVE  mnew[u] # Null /\ mnew[u].count = Cardinality(Of(live', u))
      <3>1. mnew[u] # Null /\ mnew[u].count = 0 /\ meta[u] = Null
        BY <2>1, <2>2 DEF LockedMeta, HoldsMeta
      <3>2. Stored(u).count = Cardinality(Of(live, u)) /\ Stored(u) = EmptyMeta
        BY <2>1, <2>2, <3>1 DEF CountsRight, Stored
      <3> QED
        BY <2>1, <3>1, <3>2, EmptyMetaType
    <2> QED
      BY <1>1, <1>4, <1>5, <1>10, <2>1, <2>2, PublishCounts DEF CommitAddMissing
  <1>11. CASE CommitRecalculate(s)
    <2>1. op[s] = "recalculate" /\ ins[s] = {} /\ del[s] = {} /\ erased' = erased
          /\ live' = live /\ synced' = (synced \cup arg[s].stale) \ erased
          /\ (pc[s] = "ready" \/ arg[s].stale = {})
      BY <1>1, <1>3, <1>11 DEF CommitRecalculate, Deletes
    <2>2. \A u \in arg[s].stale : mlock[u] = s
      BY <2>1 DEF ReadyLocked
    <2>3. ASSUME NEW u \in Users, mlock[u] = s, u \in synced'
          PROVE  mnew[u] # Null /\ mnew[u].count = Cardinality(Of(live', u))
      <3>1. HoldsMeta(s, u)
        BY <2>3 DEF LockedMeta
      <3>2. u \notin erased /\ pc[s] = "ready" /\ View(s) = live'
        BY <1>1, <2>1, <2>3, <3>1 DEF HoldsMeta, View
      <3> QED
        BY <2>1, <3>1, <3>2 DEF HoldsMeta
    <2>4. \E o, p, rs, a : Start(s, o, p, rs, a) /\ FreshCall(o, p, rs, a)
      BY <1>4, <1>11 DEF CommitRecalculate, StartBatch, FreshCall
    <2>5. \A u \in synced' : u \in synced \/ mlock[u] = s
      BY <2>1, <2>2
    <2> QED
      BY <1>1, <1>5, <2>1, <2>3, <2>4, <2>5, PublishCounts
  <1> QED
    BY <1>7, <1>8, <1>9, <1>10, <1>11

\* Locking a metadata row: it was free, and its new value is what HoldsMeta asks for.
LEMMA MetaCounts ==
    ASSUME IInv, NEW s \in Sessions, AddCount(s) \/ SubtractCount(s) \/ LockMeta(s), TypeInv'
    PROVE  CountsInductive'
  <1> USE DEF IInv, CountsInductive
  <1>1. PICK u \in Users, m \in MetaRow :
           /\ NextToLock(s, u) /\ Free(s, u) /\ WriteMeta(s, u, m)
           /\ op[s] = "insert" => m.count = Stored(u).count + Cardinality(Of(ins[s], u))
           /\ op[s] = "deletePending" => m.count = Stored(u).count - Cardinality(Of(del[s], u))
    BY MetaValues DEF AddCount, SubtractCount, LockMeta
  <1>2. op[s] \in {"insert", "deletePending", "deleteUser", "recalculate"} /\ RowsDone(s)
    BY DEF AddCount, SubtractCount, LockMeta
  <1>3. UNCHANGED <<committed, advisory, session, now, failures, tracked>>
    BY DEF AddCount, SubtractCount, LockMeta
  <1>4. /\ live' = live /\ meta' = meta /\ op' = op /\ pc' = pc /\ rows' = rows /\ ins' = ins
        /\ del' = del /\ arg' = arg /\ erased' = erased /\ synced' = synced
    BY <1>3 DEF committed, session, tracked
  <1>5. /\ mlock' = [mlock EXCEPT ![u] = s] /\ mnew' = [mnew EXCEPT ![u] = m]
        /\ DOMAIN mlock = Users /\ DOMAIN mnew = Users /\ mlock[u] \in {Null, s}
    BY <1>1 DEF WriteMeta, Free, TypeInv, LocksOK
  <1>6. RowsOwned' /\ OwnUserOnly' /\ IdleCalls' /\ CountsRight' /\ (synced \cap erased = {})'
    BY <1>4 DEF RowsOwned, OwnUserOnly, IdleCalls, CountsRight, Stored
  <1>7. LockedMeta'
    <2> SUFFICES ASSUME NEW t \in Sessions, NEW v \in Users, mlock'[v] = t
                 PROVE  HoldsMeta(t, v)'
      BY DEF LockedMeta
    <2>1. Stored(v)' = Stored(v) /\ View(t)' = View(t)
      BY <1>4 DEF Stored, View
    <2>2. CASE v = u
      <3>1. t = s /\ mnew'[u] = m /\ m # Null
        BY <1>5, <2>2, NullNoMetaRow
      <3>2. op[s] = "recalculate" => u \in arg[s].stale
        BY <1>1 DEF NextToLock, ToLock
      <3> QED
        BY <1>1, <1>2, <1>4, <2>1, <2>2, <3>1, <3>2 DEF HoldsMeta, RowsDone
    <2>3. CASE v # u
      <3>1. mlock[v] = t /\ mnew'[v] = mnew[v]
        BY <1>5, <2>3
      <3> QED
        BY <1>4, <2>1, <3>1 DEF HoldsMeta, LockedMeta
    <2> QED
      BY <2>2, <2>3
  <1>8. ReadyLocked'
    <2>1. \A t \in Sessions, v \in Users : pc[t] = "ready" /\ mlock[v] = t => mlock'[v] = t
      BY <1>2, <1>5, NullAssumption DEF RowsDone
    <2> SUFFICES ASSUME NEW t \in Sessions, pc[t] = "ready"
                 PROVE  /\ op[t] = "deletePending" => \A r \in del[t] : mlock'[r.user] = t
                        /\ op[t] = "deleteUser" => mlock'[arg[t].user] = t
                        /\ op[t] = "recalculate" => \A v \in arg[t].stale : mlock'[v] = t
      BY <1>4 DEF ReadyLocked
    <2>2. \A r \in del[t] : r.user \in Users
      BY DEF TypeInv, SessionsOK, Row
    <2>3. op[t] = "deleteUser" => arg[t].user \in Users
      BY DEF TypeInv, SessionsOK, Args
    <2>4. op[t] = "recalculate" => arg[t].stale \subseteq Users
      BY DEF TypeInv, SessionsOK, Args
    <2> QED
      BY <2>1, <2>2, <2>3, <2>4 DEF ReadyLocked
  <1> QED
    BY <1>6, <1>7, <1>8 DEF TypeInv, TablesOK, SessionsOK, FiniteRows

\* The second statement on the locked rows: the call becomes ready to commit.
LEMMA RefreshCounts ==
    ASSUME IInv, NEW s \in Sessions, RefreshBounds(s) \/ RefreshMeta(s), TypeInv'
    PROVE  CountsInductive'
  <1> USE DEF IInv, CountsInductive
  <1>1. MetaLocked(s) /\ UNCHANGED <<committed, advisory, mlock, op, rows, ins, del, arg, now,
                                     failures, tracked>>
    BY DEF RefreshBounds, RefreshMeta
  <1>2. /\ live' = live /\ meta' = meta /\ mlock' = mlock /\ op' = op /\ rows' = rows
        /\ ins' = ins /\ del' = del /\ arg' = arg /\ erased' = erased /\ synced' = synced
    BY <1>1 DEF committed, tracked
  <1>3. pc' = [pc EXCEPT ![s] = "ready"] /\ DOMAIN pc = Sessions
    BY DEF RefreshBounds, RefreshMeta, TypeInv, SessionsOK
  <1>4. pc[s] = "running" /\ rows[s] = <<>> /\ ToLock(s) = {}
    BY <1>1 DEF MetaLocked, RowsDone
  <1>5. RowsOwned' /\ OwnUserOnly' /\ CountsRight' /\ (synced \cap erased = {})'
    BY <1>2 DEF RowsOwned, OwnUserOnly, CountsRight, Stored
  <1>6. IdleCalls'
    BY <1>2, <1>3, <1>4 DEF IdleCalls
  <1>7. ASSUME NEW u \in Users, mlock[u] = s PROVE HoldsMeta(s, u)'
    <2>1. HoldsMeta(s, u)
      BY <1>7 DEF LockedMeta
    <2>2. Stored(u)' = Stored(u) /\ View(s)' = View(s) /\ pc'[s] = "ready"
      BY <1>2, <1>3 DEF Stored, View
    <2>3. CASE RefreshBounds(s)
      <3>1. op[s] = "deletePending"
        BY <2>3 DEF RefreshBounds
      <3>2. mnew[u] \in MetaRow
        BY <2>1, <3>1 DEF HoldsMeta, TypeInv, LocksOK
      <3>3. mnew'[u] = [mnew[u] EXCEPT !.min = Actual(Of(View(s), u)).min,
                                       !.max = Actual(Of(View(s), u)).max]
        BY <1>7, <2>3 DEF RefreshBounds
      <3>4. mnew'[u].count = mnew[u].count
        BY <3>2, <3>3 DEF MetaRow
      <3>5. mnew'[u] # Null
        <4>1. Actual(Of(View(s), u)) \in MetaRow
          BY MetaValues
        <4>2. mnew'[u] \in MetaRow
          BY <3>2, <3>3, <4>1 DEF MetaRow
        <4> QED
          BY <4>2, NullNoMetaRow
      <3> QED
        BY <1>2, <2>1, <2>2, <3>1, <3>4, <3>5 DEF HoldsMeta
    <2>4. CASE RefreshMeta(s)
      <3>1. op[s] \in {"deleteUser", "recalculate"}
        BY <2>4 DEF RefreshMeta
      <3>2. mnew'[u] = Actual(Of(View(s), u))
        BY <1>7, <2>4 DEF RefreshMeta
      <3>3. mnew'[u] # Null /\ mnew'[u].count = Cardinality(Of(View(s), u))
        BY <3>2, MetaValues, NullNoMetaRow
      <3> QED
        BY <1>2, <2>1, <2>2, <3>1, <3>3 DEF HoldsMeta
    <2> QED
      BY <2>3, <2>4
  <1>8. ASSUME NEW t \in Sessions, NEW u \in Users, mlock[u] = t, t # s PROVE HoldsMeta(t, u)'
    <2>1. mnew'[u] = mnew[u]
      BY <1>8 DEF RefreshBounds, RefreshMeta, TypeInv, LocksOK
    <2>2. Stored(u)' = Stored(u) /\ View(t)' = View(t) /\ pc'[t] = pc[t]
      BY <1>2, <1>3, <1>8 DEF Stored, View
    <2> QED
      BY <1>2, <1>8, <2>1, <2>2 DEF HoldsMeta, LockedMeta
  <1>9. LockedMeta'
    BY <1>2, <1>7, <1>8 DEF LockedMeta
  <1>10. ReadyLocked'
    <2>1. op[s] = "deletePending" => \A r \in del[s] : mlock[r.user] = s
      <3>1. \A r \in del[s] : r.user \in Users
        BY DEF TypeInv, SessionsOK, Row
      <3> QED
        BY <1>4, <3>1 DEF ToLock, Locked
    <2>2. op[s] = "deleteUser" => mlock[arg[s].user] = s
      <3>1. op[s] = "deleteUser" => arg[s].user \in Users
        BY DEF TypeInv, SessionsOK, Args
      <3> QED
        BY <1>4, <3>1 DEF ToLock, Locked
    <2>3. op[s] = "recalculate" => \A u \in arg[s].stale : mlock[u] = s
      <3>1. op[s] = "recalculate" => arg[s].stale \subseteq Users
        BY DEF TypeInv, SessionsOK, Args
      <3> QED
        BY <1>4, <3>1 DEF ToLock, Locked
    <2> QED
      BY <1>2, <1>3, <1>4, <2>1, <2>2, <2>3 DEF ReadyLocked
  <1> QED
    BY <1>5, <1>6, <1>9, <1>10 DEF TypeInv, TablesOK, SessionsOK, FiniteRows

\* Deleting the metadata row of an account: it was free, if it exists at all.
LEMMA DropCounts ==
    ASSUME IInv, NEW s \in Sessions, DropMeta(s), TypeInv'
    PROVE  CountsInductive'
  <1> USE DEF IInv, CountsInductive
  <1> DEFINE d == arg[s].user
  <1>1. /\ UNCHANGED <<committed, advisory, op, rows, ins, del, arg, now, failures, tracked>>
        /\ op[s] = "deleteAccount" /\ pc[s] = "running" /\ rows[s] = <<>>
        /\ pc' = [pc EXCEPT ![s] = "ready"] /\ DOMAIN pc = Sessions
    BY DEF DropMeta, RowsDone, TypeInv, SessionsOK
  <1>2. /\ live' = live /\ meta' = meta /\ op' = op /\ rows' = rows
        /\ ins' = ins /\ del' = del /\ arg' = arg /\ erased' = erased /\ synced' = synced
    BY <1>1 DEF committed, tracked
  <1>3. d \in Users
    BY <1>1 DEF TypeInv, SessionsOK, Args
  <1>4. /\ \A u \in Users : mlock[u] \notin {Null, s} => mlock'[u] = mlock[u]
        /\ \A u \in Users : mlock'[u] # s => mlock'[u] = mlock[u] /\ mnew'[u] = mnew[u]
        /\ \A u \in Users : mlock'[u] = s => mlock[u] = s \/ u = d
    <2>1. CASE mlock' = mlock /\ mnew' = mnew
      BY <2>1
    <2>2. CASE Free(s, d) /\ WriteMeta(s, d, Null)
      BY <1>3, <2>2 DEF Free, WriteMeta, TypeInv, LocksOK
    <2> QED
      BY <2>1, <2>2 DEF DropMeta
  <1>5. RowsOwned' /\ OwnUserOnly' /\ CountsRight' /\ (synced \cap erased = {})'
    BY <1>2 DEF RowsOwned, OwnUserOnly, CountsRight, Stored
  <1>6. IdleCalls'
    BY <1>1, <1>2 DEF IdleCalls
  <1>7. ASSUME NEW u \in Users, mlock'[u] = s PROVE HoldsMeta(s, u)'
    <2>1. u = d
      BY <1>1, <1>4, <1>7 DEF LockedMeta, HoldsMeta
    <2> QED
      BY <1>1, <1>2, <2>1 DEF HoldsMeta
  <1>8. ASSUME NEW t \in Sessions, NEW u \in Users, mlock'[u] = t, t # s PROVE HoldsMeta(t, u)'
    <2>1. mlock[u] = t /\ mnew'[u] = mnew[u]
      BY <1>4, <1>8
    <2>2. Stored(u)' = Stored(u) /\ View(t)' = View(t) /\ pc'[t] = pc[t]
      BY <1>1, <1>2, <1>8 DEF Stored, View
    <2> QED
      BY <1>2, <1>8, <2>1, <2>2 DEF HoldsMeta, LockedMeta
  <1>9. LockedMeta'
    BY <1>7, <1>8 DEF LockedMeta
  <1>10. ReadyLocked'
    <2> SUFFICES ASSUME NEW t \in Sessions, pc[t] = "ready"
                 PROVE  /\ op[t] = "deletePending" => \A r \in del[t] : mlock'[r.user] = t
                        /\ op[t] = "deleteUser" => mlock'[arg[t].user] = t
                        /\ op[t] = "recalculate" => \A v \in arg[t].stale : mlock'[v] = t
      BY <1>1, <1>2 DEF ReadyLocked
    <2>1. \A v \in Users : mlock[v] = t => mlock'[v] = t
      BY <1>1, <1>4, NullAssumption
    <2>2. \A r \in del[t] : r.user \in Users
      BY DEF TypeInv, SessionsOK, Row
    <2>3. op[t] = "deleteUser" => arg[t].user \in Users
      BY DEF TypeInv, SessionsOK, Args
    <2>4. op[t] = "recalculate" => arg[t].stale \subseteq Users
      BY DEF TypeInv, SessionsOK, Args
    <2> QED
      BY <2>1, <2>2, <2>3, <2>4 DEF ReadyLocked
  <1> QED
    BY <1>5, <1>6, <1>9, <1>10 DEF TypeInv, TablesOK, SessionsOK, FiniteRows

\* Adding a missing metadata row: a new row counts no listens, as no row does.
LEMMA MissingCounts ==
    ASSUME IInv, NEW s \in Sessions, AddMissingRow(s), TypeInv'
    PROVE  CountsInductive'
  <1> USE DEF IInv, CountsInductive
  <1>1. /\ UNCHANGED <<committed, advisory, op, pc, rows, ins, del, now, failures, tracked>>
        /\ op[s] = "addMissing" /\ pc[s] = "running" /\ rows[s] = <<>>
    BY DEF AddMissingRow, RowsDone
  <1>2. PICK u \in Users :
           /\ Free(s, u)
           /\ IF meta[u] = Null THEN WriteMeta(s, u, EmptyMeta) ELSE UNCHANGED <<mlock, mnew>>
           /\ arg' = [arg EXCEPT ![s].todo = @ \ {u}]
    BY DEF AddMissingRow
  <1>3. /\ live' = live /\ meta' = meta /\ op' = op /\ pc' = pc /\ rows' = rows
        /\ ins' = ins /\ del' = del /\ erased' = erased /\ synced' = synced
    BY <1>1 DEF committed, tracked
  <1>4. \A t \in Sessions \ {s} : arg'[t] = arg[t]
    BY <1>2 DEF TypeInv, SessionsOK
  <1>5. /\ \A v \in Users : mlock[v] \notin {Null, s} => mlock'[v] = mlock[v]
        /\ \A v \in Users : mlock'[v] # s => mlock'[v] = mlock[v] /\ mnew'[v] = mnew[v]
        /\ \A v \in Users : mlock'[v] = s => \/ mlock[v] = s /\ mnew'[v] = mnew[v]
                                             \/ meta[v] = Null /\ mnew'[v] = EmptyMeta
    <2>1. CASE mlock' = mlock /\ mnew' = mnew
      BY <2>1
    <2>2. CASE meta[u] = Null /\ WriteMeta(s, u, EmptyMeta)
      BY <1>2, <2>2 DEF Free, WriteMeta, TypeInv, LocksOK
    <2> QED
      BY <1>2, <2>1, <2>2
  <1>6. RowsOwned' /\ IdleCalls' /\ CountsRight' /\ (synced \cap erased = {})'
    BY <1>3 DEF RowsOwned, IdleCalls, CountsRight, Stored
  <1>7. OwnUserOnly'
    BY <1>1, <1>3, <1>4 DEF OwnUserOnly
  <1>8. ASSUME NEW v \in Users, mlock'[v] = s PROVE HoldsMeta(s, v)'
    <2>1. CASE mlock[v] = s /\ mnew'[v] = mnew[v]
      BY <1>1, <1>3, <2>1 DEF HoldsMeta, LockedMeta
    <2>2. CASE meta[v] = Null /\ mnew'[v] = EmptyMeta
      <3>1. mnew'[v] # Null /\ mnew'[v].count = 0
        BY <2>2, EmptyMetaType, NullNoMetaRow DEF EmptyMeta
      <3> QED
        BY <1>1, <1>3, <2>2, <3>1 DEF HoldsMeta
    <2> QED
      BY <1>5, <1>8, <2>1, <2>2
  <1>9. ASSUME NEW t \in Sessions, NEW v \in Users, mlock'[v] = t, t # s PROVE HoldsMeta(t, v)'
    <2>1. mlock[v] = t /\ mnew'[v] = mnew[v] /\ arg'[t] = arg[t]
      BY <1>4, <1>5, <1>9
    <2>2. Stored(v)' = Stored(v) /\ View(t)' = View(t)
      BY <1>3 DEF Stored, View
    <2> QED
      BY <1>3, <1>9, <2>1, <2>2 DEF HoldsMeta, LockedMeta
  <1>10. LockedMeta'
    BY <1>8, <1>9 DEF LockedMeta
  <1>11. ReadyLocked'
    <2> SUFFICES ASSUME NEW t \in Sessions, pc[t] = "ready"
                 PROVE  /\ op[t] = "deletePending" => \A r \in del[t] : mlock'[r.user] = t
                        /\ op[t] = "deleteUser" => mlock'[arg'[t].user] = t
                        /\ op[t] = "recalculate" => \A v \in arg'[t].stale : mlock'[v] = t
      BY <1>3 DEF ReadyLocked
    <2>1. t # s /\ arg'[t] = arg[t]
      BY <1>1, <1>4
    <2>2. \A v \in Users : mlock[v] = t => mlock'[v] = t
      BY <1>5, <2>1, NullAssumption
    <2>3. \A r \in del[t] : r.user \in Users
      BY DEF TypeInv, SessionsOK, Row
    <2>4. op[t] = "deleteUser" => arg[t].user \in Users
      BY DEF TypeInv, SessionsOK, Args
    <2>5. op[t] = "recalculate" => arg[t].stale \subseteq Users
      BY DEF TypeInv, SessionsOK, Args
    <2> QED
      BY <2>1, <2>2, <2>3, <2>4, <2>5 DEF ReadyLocked
  <1> QED
    BY <1>6, <1>7, <1>10, <1>11 DEF TypeInv, TablesOK, SessionsOK, FiniteRows

\* The unlocked comparison locks nothing; the users it does not list have the right counts.
LEMMA CompareCounts ==
    ASSUME IInv, NEW s \in Sessions, Compare(s), TypeInv'
    PROVE  CountsInductive'
  <1> USE DEF IInv, CountsInductive
  <1> DEFINE stale == {u \in arg[s].batch : meta[u] = Null \/ meta[u] # Actual(Of(live, u))}
  <1>1. /\ op[s] = "recalculate" /\ pc[s] = "compare"
        /\ arg' = [arg EXCEPT ![s].stale = stale]
        /\ synced' = (synced \cup (arg[s].batch \ stale)) \ erased
        /\ pc' = [pc EXCEPT ![s] = "running"]
        /\ UNCHANGED <<committed, locks, op, rows, ins, del, now, failures, erased, targets>>
    BY DEF Compare
  <1>2. /\ live' = live /\ meta' = meta /\ mlock' = mlock /\ mnew' = mnew /\ op' = op
        /\ rows' = rows /\ ins' = ins /\ del' = del /\ erased' = erased
    BY <1>1 DEF committed, locks
  <1>3. \A t \in Sessions \ {s} : arg'[t] = arg[t] /\ pc'[t] = pc[t]
    BY <1>1 DEF TypeInv, SessionsOK
  <1>4. pc'[s] = "running"
    BY <1>1 DEF TypeInv, SessionsOK
  <1>5. \A u \in Users : mlock[u] # s
    BY <1>1 DEF LockedMeta, HoldsMeta
  <1>6. RowsOwned' /\ (synced \cap erased = {})'
    BY <1>1, <1>2 DEF RowsOwned
  <1>7. OwnUserOnly' /\ IdleCalls'
    BY <1>1, <1>2, <1>3, <1>4 DEF OwnUserOnly, IdleCalls
  <1>8. LockedMeta'
    <2> SUFFICES ASSUME NEW t \in Sessions, NEW u \in Users, mlock[u] = t
                 PROVE  HoldsMeta(t, u)'
      BY <1>2 DEF LockedMeta
    <2>1. t # s /\ arg'[t] = arg[t] /\ pc'[t] = pc[t]
      BY <1>3, <1>5
    <2>2. Stored(u)' = Stored(u) /\ View(t)' = View(t)
      BY <1>2 DEF Stored, View
    <2> QED
      BY <1>2, <2>1, <2>2 DEF HoldsMeta, LockedMeta
  <1>9. ReadyLocked'
    BY <1>2, <1>3, <1>4 DEF ReadyLocked
  <1>10. CountsRight'
    <2> SUFFICES ASSUME NEW u \in synced'
                 PROVE  Stored(u).count = Cardinality(Of(live, u))
      BY <1>2 DEF CountsRight, Stored
    <2>1. CASE u \in synced
      BY <2>1 DEF CountsRight
    <2>2. CASE u \in arg[s].batch \ stale
      <3>1. meta[u] # Null /\ meta[u] = Actual(Of(live, u))
        BY <2>2
      <3> QED
        BY <3>1 DEF Stored, Actual
    <2> QED
      BY <1>1, <2>1, <2>2
  <1> QED
    BY <1>6, <1>7, <1>8, <1>9, <1>10 DEF TypeInv, TablesOK, SessionsOK, FiniteRows

\* Queueing a request, or doing nothing, touches nothing the invariant is about.
LEMMA QuietCounts ==
    ASSUME IInv, QueueDeletion \/ UNCHANGED vars, TypeInv'
    PROVE  CountsInductive'
  <1> USE DEF IInv, CountsInductive
  <1>1. /\ live' = live /\ meta' = meta /\ mlock' = mlock /\ mnew' = mnew /\ op' = op
        /\ pc' = pc /\ rows' = rows /\ ins' = ins /\ del' = del /\ arg' = arg
        /\ erased' = erased /\ synced' = synced
    BY DEF QueueDeletion, vars, committed, locks, session, tracked
  <1>2. RowsOwned' /\ OwnUserOnly' /\ IdleCalls' /\ ReadyLocked'
    BY <1>1 DEF RowsOwned, OwnUserOnly, IdleCalls, ReadyLocked
  <1>3. LockedMeta'
    <2>1. \A s \in Sessions, u \in Users : HoldsMeta(s, u)' <=> HoldsMeta(s, u)
      <3>1. \A s \in Sessions : View(s)' = View(s)
        BY <1>1 DEF View
      <3>2. \A u \in Users : Stored(u)' = Stored(u)
        BY <1>1 DEF Stored
      <3> QED
        BY <1>1, <3>1, <3>2 DEF HoldsMeta
    <2> QED
      BY <1>1, <2>1 DEF LockedMeta
  <1>4. CountsRight' /\ (synced \cap erased = {})'
    BY <1>1 DEF CountsRight, Stored
  <1> QED
    BY <1>2, <1>3, <1>4 DEF TypeInv, TablesOK, SessionsOK, FiniteRows

LEMMA IInvStep == IInv /\ [Next]_vars => IInv'
  <1> SUFFICES ASSUME IInv, [Next]_vars PROVE IInv'
    OBVIOUS
  <1>1. TypeInv /\ LockedMeta
    BY DEF IInv, CountsInductive
  <1>2. CASE UNCHANGED vars
    <2>1. TypeInv'
      BY <1>1, <1>2 DEF vars, committed, locks, session, tracked, TypeInv, TablesOK, LocksOK,
                        SessionsOK, TrackedOK
    <2> QED
      BY <1>2, <2>1, QuietCounts DEF IInv
  <1>3. CASE QueueDeletion
    BY <1>1, <1>3, OtherStepType, QuietCounts DEF IInv
  <1>4. ASSUME NEW s \in Sessions, Begin(s) PROVE IInv'
    BY <1>1, <1>4, BeginType, BeginCounts DEF IInv
  <1>5. ASSUME NEW s \in Sessions, Step(s) PROVE IInv'
    <2>1. CASE InsertRow(s) \/ DeleteRow(s)
      BY <1>1, <2>1, RowStepType, RowCounts DEF IInv
    <2>2. CASE AddCount(s) \/ SubtractCount(s) \/ LockMeta(s)
      BY <1>1, <2>2, MetaStepType, MetaCounts DEF IInv
    <2>3. CASE RefreshBounds(s) \/ RefreshMeta(s)
      BY <1>1, <2>3, RefreshStepType, RefreshCounts DEF IInv
    <2>4. CASE DropMeta(s)
      BY <1>1, <2>4, RefreshStepType, DropCounts DEF IInv
    <2>5. CASE \/ CommitInsert(s) \/ CommitDeletePending(s) \/ CommitDeleteUser(s)
               \/ CommitAddMissing(s) \/ CommitRecalculate(s)
      BY <1>1, <2>5, CommitStepType, CommitCounts DEF IInv
    <2>6. CASE AddMissingRow(s)
      BY <1>1, <2>6, OtherStepType, MissingCounts DEF IInv
    <2>7. CASE Compare(s)
      BY <1>1, <2>7, OtherStepType, CompareCounts DEF IInv
    <2> QED
      BY <1>5, <2>1, <2>2, <2>3, <2>4, <2>5, <2>6, <2>7 DEF Step
  <1>6. ASSUME NEW s \in Sessions, Rollback(s) \/ DeadlockVictim(s) PROVE IInv'
    BY <1>1, <1>6, OtherStepType, AbortCounts DEF IInv
  <1> QED
    BY <1>2, <1>3, <1>4, <1>5, <1>6 DEF Next

-----------------------------------------------------------------------------
(* Theorems *)

\* Type correctness of the tables, the locks and the local state of the sessions, for any
\* number of users, sessions and listens.
THEOREM TypeCorrect == Spec => []TypeOK
  <1>1. IInv => TypeOK
    BY TypeInvImplies DEF IInv
  <1> QED
    BY IInvInit, IInvStep, <1>1, PTL DEF Spec

\* The inductive invariant: uncommitted rows are owned by one transaction and the locked
\* metadata rows are as far from the committed ones as those rows say.
THEOREM CountsInductiveCorrect == Spec => []CountsInductive
  <1>1. IInv => CountsInductive
    BY DEF IInv
  <1> QED
    BY IInvInit, IInvStep, <1>1, PTL DEF Spec

\* A listen count that is right stays right, whatever insertions, deletions, repairs,
\* rollbacks and deadlocks interleave, until the account is deleted.
THEOREM CountsCorrect == Spec => []CountsRight
  <1>1. IInv => CountsRight
    BY DEF IInv, CountsInductive
  <1> QED
    BY IInvInit, IInvStep, <1>1, PTL DEF Spec

-----------------------------------------------------------------------------
(* What a step of one session leaves alone of the others                     *)

CommitStep(s) ==
    \/ CommitInsert(s) \/ CommitDeletePending(s) \/ CommitDeleteUser(s)
    \/ CommitAddMissing(s) \/ CommitRecalculate(s)

StartStep(s) == Begin(s) \/ CommitStep(s) \/ Rollback(s) \/ DeadlockVictim(s)

SessionStep(s) == Begin(s) \/ Step(s) \/ Rollback(s) \/ DeadlockVictim(s)

\* A transaction that begins or ends leaves its session without locks and uncommitted rows.
LEMMA StartFrame ==
    ASSUME IInv, NEW s \in Sessions, StartStep(s)
    PROVE  /\ \E o, p, rs, a : Start(s, o, p, rs, a) /\ p \in {"idle", "compare", "running"}
           /\ \A u \in Users : mlock'[u] # s
           /\ \A u \in Users : mlock[u] # s => mlock'[u] = mlock[u] /\ mnew'[u] = mnew[u]
           /\ \A u \in Users : mlock[u] = s => mlock'[u] = Null
  <1>1. CASE Begin(s)
    <2>1. mlock' = mlock /\ mnew' = mnew
      BY <1>1 DEF Begin, BeginInsert, BeginDeletePending, BeginDeleteUser, BeginAddMissing,
                  BeginRecalculate, locks
    <2>2. Idle(s)
      BY <1>1 DEF Begin, BeginInsert, BeginDeletePending, BeginDeleteUser, BeginAddMissing,
                  BeginRecalculate
    <2>3. \A u \in Users : mlock[u] # s
      BY <2>2 DEF Idle, IInv, CountsInductive, LockedMeta, HoldsMeta, IdleCalls
    <2>4. \E o, p, rs, a : Start(s, o, p, rs, a) /\ p \in {"idle", "compare", "running"}
      BY <1>1 DEF Begin, BeginInsert, BeginDeletePending, BeginDeleteUser, BeginAddMissing,
                  BeginRecalculate, StartBatch
    <2> QED
      BY <2>1, <2>3, <2>4
  <1>2. CASE CommitStep(s) \/ Rollback(s) \/ DeadlockVictim(s)
    <2>1. ReleaseLocks(s)
      BY <1>2 DEF CommitStep, CommitInsert, CommitDeletePending, CommitDeleteUser, CommitAddMissing,
                  CommitRecalculate, Publish, Rollback, DeadlockVictim, Abort
    <2>2. \E o, p, rs, a : Start(s, o, p, rs, a) /\ p \in {"idle", "compare", "running"}
      BY <1>2 DEF CommitStep, CommitInsert, CommitDeletePending, CommitDeleteUser, CommitAddMissing,
                  CommitRecalculate, StartBatch, Finish, Rollback, DeadlockVictim, Abort
    <2> QED
      BY <2>1, <2>2, NullAssumption DEF ReleaseLocks
  <1> QED
    BY <1>1, <1>2 DEF StartStep

LEMMA SessionFrame ==
    ASSUME IInv, NEW s \in Sessions, SessionStep(s), NEW t \in Sessions, t # s
    PROVE  /\ op'[t] = op[t] /\ pc'[t] = pc[t] /\ rows'[t] = rows[t] /\ ins'[t] = ins[t]
           /\ del'[t] = del[t] /\ arg'[t] = arg[t]
           /\ \A u \in Users : mlock'[u] = t <=> mlock[u] = t
           /\ \A u \in Users : mlock[u] = t => mnew'[u] = mnew[u]
  <1>1. /\ DOMAIN op = Sessions /\ DOMAIN pc = Sessions /\ DOMAIN rows = Sessions
        /\ DOMAIN ins = Sessions /\ DOMAIN del = Sessions /\ DOMAIN arg = Sessions
        /\ DOMAIN mlock = Users /\ DOMAIN mnew = Users
    BY DEF IInv, TypeInv, SessionsOK, LocksOK
  <1>2. CASE StartStep(s)
    <2>1. PICK o, p, rs, a : Start(s, o, p, rs, a)
      BY <1>2, StartFrame
    <2>2. /\ op'[t] = op[t] /\ pc'[t] = pc[t] /\ rows'[t] = rows[t] /\ ins'[t] = ins[t]
          /\ del'[t] = del[t] /\ arg'[t] = arg[t]
      BY <1>1, <2>1 DEF Start
    <2>3. \A u \in Users : mlock'[u] = t <=> mlock[u] = t
      BY <1>2, StartFrame, NullAssumption
    <2>4. \A u \in Users : mlock[u] = t => mnew'[u] = mnew[u]
      BY <1>2, StartFrame
    <2> QED
      BY <2>2, <2>3, <2>4
  <1>3. CASE InsertRow(s) \/ DeleteRow(s)
    BY <1>1, <1>3 DEF InsertRow, DeleteRow, locks
  <1>4. CASE AddCount(s) \/ SubtractCount(s) \/ LockMeta(s)
    <2>1. UNCHANGED session /\ \E u \in Users : \E m : Free(s, u) /\ WriteMeta(s, u, m)
      BY <1>4 DEF AddCount, SubtractCount, LockMeta
    <2> QED
      BY <1>1, <2>1, NullAssumption DEF Free, WriteMeta, session
  <1>5. CASE RefreshBounds(s) \/ RefreshMeta(s)
    <2>1. UNCHANGED <<mlock, op, rows, ins, del, arg>> /\ pc' = [pc EXCEPT ![s] = "ready"]
      BY <1>5 DEF RefreshBounds, RefreshMeta
    <2>2. \A u \in Users : mlock[u] = t => mnew'[u] = mnew[u]
      <3>1. CASE RefreshBounds(s)
        BY <3>1 DEF RefreshBounds
      <3>2. CASE RefreshMeta(s)
        BY <3>2 DEF RefreshMeta
      <3> QED
        BY <1>5, <3>1, <3>2
    <2> QED
      BY <1>1, <2>1, <2>2
  <1>6. CASE DropMeta(s)
    <2>1. \/ UNCHANGED <<mlock, mnew>>
          \/ \E u \in Users : \E m : Free(s, u) /\ WriteMeta(s, u, m)
      <3>1. arg[s].user \in Users
        BY <1>6 DEF DropMeta, IInv, TypeInv, SessionsOK, Args
      <3> QED
        BY <1>6, <3>1 DEF DropMeta
    <2>2. /\ \A u \in Users : mlock'[u] = t <=> mlock[u] = t
          /\ \A u \in Users : mlock[u] = t => mnew'[u] = mnew[u]
      BY <1>1, <2>1, NullAssumption DEF Free, WriteMeta
    <2> QED
      BY <1>1, <1>6, <2>2 DEF DropMeta
  <1>7. CASE AddMissingRow(s)
    <2>1. \/ UNCHANGED <<mlock, mnew>>
          \/ \E u \in Users : \E m : Free(s, u) /\ WriteMeta(s, u, m)
      BY <1>7 DEF AddMissingRow
    <2>2. /\ \A u \in Users : mlock'[u] = t <=> mlock[u] = t
          /\ \A u \in Users : mlock[u] = t => mnew'[u] = mnew[u]
      BY <1>1, <2>1, NullAssumption DEF Free, WriteMeta
    <2>3. arg'[t] = arg[t]
      BY <1>1, <1>7 DEF AddMissingRow
    <2> QED
      BY <1>1, <1>7, <2>2, <2>3 DEF AddMissingRow
  <1>8. CASE Compare(s)
    BY <1>1, <1>8 DEF Compare, locks
  <1> QED
    BY <1>2, <1>3, <1>4, <1>5, <1>6, <1>7, <1>8 DEF SessionStep, Step, StartStep, CommitStep

-----------------------------------------------------------------------------
(* Deadlocks                                                                 *)

\* Metadata rows are locked in user_id order, and a session that deletes an account locks
\* one, after which it waits for nothing.
OrderKept(s, u) ==
    /\ op[s] = "deleteAccount" => pc[s] = "ready"
    /\ \A v \in ToLock(s) : u < v

LocksOrdered == \A s \in Sessions, u \in Users : mlock[u] = s => OrderKept(s, u)

LEMMA OrderStep ==
    ASSUME IInv, LocksOrdered, NEW s \in Sessions, SessionStep(s)
    PROVE  LocksOrdered'
  <1>1. /\ DOMAIN op = Sessions /\ DOMAIN pc = Sessions /\ DOMAIN arg = Sessions
        /\ DOMAIN mlock = Users /\ DOMAIN mnew = Users
    BY DEF IInv, TypeInv, SessionsOK, LocksOK
  <1>2. ASSUME NEW t \in Sessions, t # s, NEW u \in Users, mlock'[u] = t
        PROVE  OrderKept(t, u)'
    <2>1. /\ op'[t] = op[t] /\ pc'[t] = pc[t] /\ ins'[t] = ins[t] /\ del'[t] = del[t]
          /\ arg'[t] = arg[t] /\ \A v \in Users : mlock'[v] = t <=> mlock[v] = t
      BY <1>2, SessionFrame
    <2>2. Locked(t)' = Locked(t)
      BY <2>1 DEF Locked
    <2>3. ToLock(t)' = ToLock(t)
      BY <2>1, <2>2 DEF ToLock
    <2> QED
      BY <1>2, <2>1, <2>3 DEF LocksOrdered, OrderKept
  <1>3. ASSUME NEW u \in Users, mlock'[u] = s
        PROVE  OrderKept(s, u)'
    <2>1. CASE StartStep(s)
      BY <1>3, <2>1, StartFrame
    <2>2. CASE InsertRow(s) \/ DeleteRow(s) \/ Compare(s)
      <3>1. mlock' = mlock /\ (rows[s] # <<>> \/ pc[s] = "compare")
        BY <2>2 DEF InsertRow, DeleteRow, Compare, locks
      <3> QED
        BY <1>3, <3>1 DEF IInv, CountsInductive, LockedMeta, HoldsMeta
    <2>3. CASE AddCount(s) \/ SubtractCount(s) \/ LockMeta(s)
      <3>1. PICK v \in Users : /\ NextToLock(s, v) /\ mlock' = [mlock EXCEPT ![v] = s]
                               /\ UNCHANGED <<op, ins, del, arg>>
                               /\ op[s] \in {"insert", "deletePending", "deleteUser", "recalculate"}
        BY <2>3 DEF AddCount, SubtractCount, LockMeta, WriteMeta, session
      <3>2. Locked(s)' = Locked(s) \cup {v}
        BY <1>1, <3>1 DEF Locked
      <3>3. ToLock(s)' = ToLock(s) \ {v}
        BY <3>1, <3>2 DEF ToLock
      <3>4. ToLock(s) \subseteq Users
        BY <3>1 DEF ToLock, IInv, TypeInv, SessionsOK, Row, Args
      <3>5. \A x \in ToLock(s) \ {v} : v < x
        <4>1. \A x \in ToLock(s) : v <= x /\ x \in Nat
          BY <3>1, <3>4, UsersAssumption DEF NextToLock
        <4> QED
          BY <4>1, UsersAssumption
      <3>6. \A x \in ToLock(s)' : u < x
        <4>1. CASE u = v
          BY <3>3, <3>5, <4>1
        <4>2. CASE u # v
          <5>1. mlock[u] = s
            BY <1>1, <1>3, <3>1, <4>2
          <5> QED
            BY <3>3, <5>1 DEF LocksOrdered, OrderKept
        <4> QED
          BY <4>1, <4>2
      <3> QED
        BY <3>1, <3>6 DEF OrderKept
    <2>4. CASE RefreshBounds(s) \/ RefreshMeta(s)
      <3>1. UNCHANGED <<mlock, op, ins, del, arg>> /\ op[s] # "deleteAccount"
        BY <2>4 DEF RefreshBounds, RefreshMeta
      <3>2. ToLock(s)' = ToLock(s)
        BY <3>1 DEF ToLock, Locked
      <3> QED
        BY <1>3, <3>1, <3>2 DEF LocksOrdered, OrderKept
    <2>5. CASE DropMeta(s)
      <3>1. op'[s] = "deleteAccount" /\ pc'[s] = "ready"
        BY <1>1, <2>5 DEF DropMeta
      <3>2. ToLock(s)' = {}
        BY <3>1 DEF ToLock
      <3> QED
        BY <3>1, <3>2 DEF OrderKept
    <2>6. CASE AddMissingRow(s)
      <3>1. PICK v \in Users : /\ NextToLock(s, v) /\ arg' = [arg EXCEPT ![s].todo = @ \ {v}]
                               /\ mlock' = mlock \/ mlock' = [mlock EXCEPT ![v] = s]
                               /\ op' = op /\ op[s] = "addMissing"
        BY <2>6 DEF AddMissingRow, WriteMeta
      <3>2. ToLock(s)' = ToLock(s) \ {v} /\ ToLock(s) \subseteq Users
        BY <1>1, <3>1 DEF ToLock, IInv, TypeInv, SessionsOK, Args
      <3>3. \A x \in ToLock(s) \ {v} : v < x
        <4>1. \A x \in ToLock(s) : v <= x /\ x \in Nat
          BY <3>1, <3>2, UsersAssumption DEF NextToLock
        <4> QED
          BY <4>1, UsersAssumption
      <3>4. \A x \in ToLock(s)' : u < x
        <4>1. CASE u = v
          BY <3>2, <3>3, <4>1
        <4>2. CASE u # v
          <5>1. mlock[u] = s
            BY <1>1, <1>3, <3>1, <4>2
          <5> QED
            BY <3>2, <5>1 DEF LocksOrdered, OrderKept
        <4> QED
          BY <4>1, <4>2
      <3> QED
        BY <3>1, <3>4 DEF OrderKept
    <2> QED
      BY <2>1, <2>2, <2>3, <2>4, <2>5, <2>6 DEF SessionStep, Step, StartStep, CommitStep
  <1> QED
    BY <1>2, <1>3 DEF LocksOrdered

\* Who waits for a metadata row waits for a session past its rows.
LEMMA RowPhase ==
    ASSUME IInv, NEW s \in Sessions, NEW t \in Sessions, WaitsFor(s, t), pc[t] = "running"
    PROVE  rows[s] = <<>> => rows[t] = <<>>
  <1> SUFFICES ASSUME rows[s] = <<>> PROVE rows[t] = <<>>
    OBVIOUS
  <1>1. \E u \in Users : mlock[u] = t
    BY DEF WaitsFor, IInv, TypeInv, SessionsOK, Args
  <1> QED
    BY <1>1 DEF IInv, CountsInductive, LockedMeta, HoldsMeta

LEMMA LeastNatural ==
  ASSUME NEW T \in SUBSET Nat, T # {}
  PROVE  \E x \in T : \A y \in T : x <= y
<1> DEFINE R == OpToRel(<, Nat)
<1>1. \A x, y \in Nat : y < x => <<y, x>> \in R
  BY DEF OpToRel
<1>2. IsWellFoundedOn(R, Nat)
  BY NatLessThanWellFounded
<1> HIDE DEF R
<1>3. PICK x \in T : \A y \in T : ~ (<<y, x>> \in R)
  BY <1>2, WFMin
<1>4. \A y \in T : ~ (y < x)
  BY <1>1, <1>3
<1> QED
  BY <1>4

\* No deadlock is about metadata rows: locked in order, they leave no cycle.
LEMMA OrderedNotStuck ==
    ASSUME IInv, LocksOrdered, NEW C \in SUBSET Sessions, Deadlock(C)
    PROVE  \A s \in C : rows[s] # <<>>
  <1> DEFINE L == {s \in C : rows[s] = <<>>}
  <1> SUFFICES ASSUME L # {} PROVE FALSE
    OBVIOUS
  <1>1. C # {} /\ \A s \in C : pc[s] = "running" /\ \E t \in C : WaitsFor(s, t)
    BY DEF Deadlock, Stuck, WaitsFor
  <1>2. \A D \in SUBSET C : D # {} /\ (\A s \in D : \E t \in D : WaitsFor(s, t)) => D = C
    BY DEF Deadlock, Stuck
  <1>3. \A s \in L : \E t \in L : WaitsFor(s, t)
    BY <1>1, RowPhase
  <1>4. L = C
    BY <1>2, <1>3
  <1>5. \A s \in C : rows[s] = <<>> /\ pc[s] = "running"
    BY <1>1, <1>4
  <1>7. \A s \in C : (\E u \in Users : mlock[u] = s) => op[s] # "deleteAccount"
    BY <1>5 DEF LocksOrdered, OrderKept
  \* Sessions that another one of the cycle waits for: all of them.
  <1> DEFINE H == {s \in C : \E u \in Users : mlock[u] = s}
  <1>8. H # {} /\ \A s \in C : \E t \in H : WaitsFor(s, t)
    <2>1. ASSUME NEW s \in C PROVE \E t \in H : WaitsFor(s, t)
      <3>1. PICK t \in C : WaitsFor(s, t)
        BY <1>1
      <3>2. \E u \in Users : mlock[u] = t
        BY <1>5, <3>1 DEF WaitsFor, IInv, TypeInv, SessionsOK, Args
      <3> QED
        BY <3>1, <3>2
    <2> QED
      BY <1>1, <2>1
  <1>9. H = C
    BY <1>2, <1>8
  <1>10. \A s \in C : op[s] # "deleteAccount"
    BY <1>7, <1>9
  <1>11. \A s \in C : \E t \in C : WaitsFor(s, t) /\ \E u \in Users : NextToLock(s, u) /\ mlock[u] = t
    BY <1>1, <1>5, <1>10 DEF WaitsFor
  <1> DEFINE W == {u \in Users : \E s \in C : NextToLock(s, u)}
  <1>12. W \in SUBSET Nat /\ W # {}
    BY <1>1, <1>11, UsersAssumption
  <1>13. PICK m \in W : \A u \in W : m <= u
    BY <1>12, LeastNatural
  <1> DEFINE D == {s \in C : ~ NextToLock(s, m)}
  <1>14. ASSUME NEW s \in C PROVE \E t \in D : WaitsFor(s, t)
    <2>1. PICK t \in C, u \in Users : WaitsFor(s, t) /\ NextToLock(s, u) /\ mlock[u] = t
      BY <1>11
    <2>2. \A v \in ToLock(t) : u < v
      BY <2>1 DEF LocksOrdered, OrderKept
    <2>3. m <= u /\ m \in Nat /\ u \in Nat
      BY <1>13, <2>1, UsersAssumption
    <2>4. ~ NextToLock(t, m)
      BY <2>2, <2>3 DEF NextToLock
    <2> QED
      BY <2>1, <2>4
  <1>15. D # {}
    BY <1>1, <1>14
  <1>16. D = C
    BY <1>2, <1>14, <1>15
  <1> QED
    BY <1>13, <1>16

\* Who waits for a deleted row waits for a deletion.
LEMMA MixedNotStuck == IInv /\ LocksOrdered => NoInsertDeleteDeadlock
  <1> SUFFICES ASSUME IInv, LocksOrdered, NEW C \in SUBSET Sessions, Deadlock(C),
                      NEW s \in C, NEW t \in C, op[s] = "insert", op[t] # "insert"
               PROVE  FALSE
    BY DEF NoInsertDeleteDeadlock
  <1>1. \A r \in C : rows[r] # <<>> /\ \E q \in C : WaitsFor(r, q)
    BY OrderedNotStuck DEF Deadlock, Stuck
  <1>2. \A D \in SUBSET C : D # {} /\ (\A r \in D : \E q \in D : WaitsFor(r, q)) => D = C
    BY DEF Deadlock, Stuck
  <1> DEFINE D == {r \in C : op[r] # "insert"}
  <1>3. ASSUME NEW r \in D PROVE \E q \in D : WaitsFor(r, q)
    <2>1. PICK q \in C : WaitsFor(r, q)
      BY <1>1
    <2>2. del[q] # {}
      BY <1>1, <2>1 DEF WaitsFor, RowsDone
    <2>3. op[q] \in Deletes
      BY <2>2 DEF IInv, CountsInductive, RowsOwned
    <2> QED
      BY <2>1, <2>3 DEF Deletes
  <1>4. D = C
    BY <1>2, <1>3
  <1> QED
    BY <1>4

\* No cycle of waiting transactions contains both an ingestion and a deletion: the rows of a
\* transaction come before the metadata rows, and those are locked in the order of their users.
THEOREM NoInsertDeleteDeadlockCorrect == Spec => []NoInsertDeleteDeadlock
  <1> DEFINE Inv == IInv /\ LocksOrdered
  <1>1. Init => LocksOrdered
    BY NullAssumption DEF Init, LocksOrdered
  <1>2. Inv /\ [Next]_vars => Inv'
    <2> SUFFICES ASSUME IInv, LocksOrdered, [Next]_vars PROVE LocksOrdered'
      BY IInvStep
    <2>1. CASE QueueDeletion \/ UNCHANGED vars
      <3>1. UNCHANGED <<op, pc, ins, del, arg, mlock>>
        BY <2>1 DEF QueueDeletion, vars, locks, session
      <3>2. \A s \in Sessions : ToLock(s)' = ToLock(s)
        BY <3>1 DEF ToLock, Locked
      <3> QED
        BY <3>1, <3>2 DEF LocksOrdered, OrderKept
    <2> QED
      BY <2>1, OrderStep DEF Next, SessionStep
  <1> QED
    BY <1>1, <1>2, IInvInit, MixedNotStuck, PTL DEF Spec

-----------------------------------------------------------------------------
(* Deletion requests                                                         *)

\* The batches in which no listen comes twice.
NoRepeats == \A b \in Batches : IsInjective(b)

\* The rows that an insertion has still to insert, and all it may yet add to the table.
Ahead(s) == IF op[s] = "insert" THEN ToSet(rows[s]) \cup ToSet(arg[s].rest) ELSE {}

Ours(s) == Ahead(s) \cup ins[s]

Seen == live \cup UNION {targets[i] : i \in DOMAIN targets}

\* A row comes into the table once: it is new to the table and to the requests until it does.
NewRows ==
    /\ \A r \in Seen : r.created \in 0..now
    /\ \A s \in Sessions :
          /\ \A r \in Ours(s) : r.created \in 0..now
          /\ Ours(s) \cap Seen = {}
          /\ Ahead(s) \cap ins[s] = {}
          /\ op[s] = "insert" => /\ IsInjective(rows[s]) /\ IsInjective(arg[s].rest)
                                 /\ ToSet(rows[s]) \cap ToSet(arg[s].rest) = {}
    /\ \A s, t \in Sessions : s # t => Ours(s) \cap Ours(t) = {}

\* A deletion in progress has deleted or has still to delete the listens of the requests of its
\* snapshot.
Targeted ==
    /\ targets \in Seq(SUBSET Row) /\ DOMAIN targets = DOMAIN request
    /\ \A i \in DOMAIN request : \A r \in targets[i] : SameKey(request[i], r)
    /\ \A s \in Sessions : op[s] = "deletePending" =>
          /\ arg[s].pending \subseteq DOMAIN request
          /\ \A i \in arg[s].pending : targets[i] \cap live \subseteq ToSet(rows[s]) \cup del[s]

LEMMA ChunkSplit ==
    ASSUME NEW q \in Seq(Row), IsInjective(q)
    PROVE  /\ IsInjective(Chunk(q)) /\ IsInjective(AfterChunk(q))
           /\ ToSet(Chunk(q)) \cap ToSet(AfterChunk(q)) = {}
           /\ ToSet(Chunk(q)) \cup ToSet(AfterChunk(q)) \subseteq ToSet(q)
  <1> DEFINE n == IF Len(q) < InsertBatchSize THEN Len(q) ELSE InsertBatchSize
             a == SubSeq(q, 1, n)
             b == SubSeq(q, InsertBatchSize + 1, Len(q))
  <1>1. /\ Len(q) \in Nat /\ InsertBatchSize \in Nat \ {0} /\ DOMAIN q = 1..Len(q)
        /\ \A i \in 1..Len(q) : q[i] \in Row
    BY BatchSizesAssumption, LenProperties
  <1>2. n \in Nat /\ n <= Len(q) /\ n <= InsertBatchSize
    BY <1>1
  <1>3. DOMAIN a = 1..n /\ \A i \in 1..n : a[i] = q[i]
    <2>1. \A i \in 1..n : q[i] \in Row
      BY <1>1, <1>2
    <2> HIDE DEF n
    <2>2. a \in Seq(Row) /\ Len(a) = n /\ \A i \in 1..n : a[i] = q[i]
      <3>1. /\ SubSeq(q, 1, n) \in Seq(Row)
            /\ Len(SubSeq(q, 1, n)) = IF 1 <= n THEN n - 1 + 1 ELSE 0
            /\ \A i \in 1..(n - 1 + 1) : SubSeq(q, 1, n)[i] = q[1 + i - 1]
        BY <1>1, <1>2, <2>1, SubSeqProperties
      <3> QED
        BY <1>2, <3>1
    <2> QED
      BY <2>2, LenProperties
  <1>4. \A i \in DOMAIN b : InsertBatchSize + i \in 1..Len(q) /\ i \in Nat \ {0} /\ b[i] = q[InsertBatchSize + i]
    <2> DEFINE m == InsertBatchSize + 1
    <2>1. m \in Nat \ {0} /\ \A i \in m..Len(q) : q[i] \in Row
      BY <1>1
    <2>2. /\ SubSeq(q, m, Len(q)) \in Seq(Row)
          /\ Len(SubSeq(q, m, Len(q))) = IF m <= Len(q) THEN Len(q) - m + 1 ELSE 0
          /\ \A i \in 1..(Len(q) - m + 1) : SubSeq(q, m, Len(q))[i] = q[m + i - 1]
      <3> HIDE DEF m
      <3> QED
        BY <1>1, <2>1, SubSeqProperties
    <2>3. DOMAIN b = 1..Len(b)
      BY <2>2, LenProperties
    <2>4. Len(b) = IF m <= Len(q) THEN Len(q) - m + 1 ELSE 0
      BY <2>2
    <2>5. \A i \in 1..Len(b) : i \in 1..(Len(q) - m + 1) /\ i \in Nat \ {0} /\ m + i - 1 = InsertBatchSize + i
      BY <1>1, <2>1, <2>4
    <2>6. \A i \in 1..(Len(q) - m + 1) : b[i] = q[m + i - 1]
      BY <2>2
    <2>7. \A i \in 1..(Len(q) - m + 1) : m + i - 1 \in 1..Len(q)
      BY <1>1, <2>1
    <2> HIDE DEF b, m
    <2> QED
      BY <2>3, <2>5, <2>6, <2>7
  <1>5. a = Chunk(q) /\ b = AfterChunk(q)
    BY DEF Chunk, AfterChunk
  <1> HIDE DEF a, b, n
  <1>6. IsInjective(a)
    BY <1>1, <1>2, <1>3 DEF IsInjective
  <1>7. IsInjective(b)
    <2> SUFFICES ASSUME NEW i \in DOMAIN b, NEW j \in DOMAIN b, b[i] = b[j] PROVE i = j
      BY DEF IsInjective
    <2>1. q[InsertBatchSize + i] = q[InsertBatchSize + j]
      BY <1>4
    <2>2. InsertBatchSize + i = InsertBatchSize + j
      BY <1>1, <1>4, <2>1 DEF IsInjective
    <2> QED
      BY <1>1, <1>4, <2>2
  <1>8. ToSet(a) \cap ToSet(b) = {}
    <2> SUFFICES ASSUME NEW i \in DOMAIN a, NEW j \in DOMAIN b, a[i] = b[j] PROVE FALSE
      BY DEF ToSet
    <2>1. q[i] = q[InsertBatchSize + j] /\ i \in 1..Len(q)
      BY <1>1, <1>2, <1>3, <1>4
    <2>2. i = InsertBatchSize + j
      BY <1>1, <1>4, <2>1 DEF IsInjective
    <2> QED
      BY <1>1, <1>2, <1>3, <1>4, <2>2
  <1>9. ToSet(a) \subseteq ToSet(q)
    BY <1>1, <1>2, <1>3 DEF ToSet
  <1>10. ToSet(b) \subseteq ToSet(q)
    BY <1>1, <1>4 DEF ToSet
  <1> QED
    BY <1>5, <1>6, <1>7, <1>8, <1>9, <1>10

\* The rows of a batch, all new.
LEMMA SubmittedSplit ==
    ASSUME NoRepeats, NEW b \in Batches, NEW t \in Nat
    PROVE  /\ Submitted(b, t) \in Seq(Row) /\ IsInjective(Submitted(b, t))
           /\ \A r \in ToSet(Submitted(b, t)) : r.created = t
  <1>1. b \in Seq(Listen) /\ IsInjective(b)
    BY BatchesAssumption DEF NoRepeats
  <1>2. Submitted(b, t) \in Seq(Row)
    BY <1>1, SubmittedType
  <1>3. \A i \in DOMAIN b : b[i] \in Listen
    BY <1>1
  <1>4. \A i, j \in DOMAIN b : b[i].user = b[j].user /\ b[i].at = b[j].at /\ b[i].msid = b[j].msid => i = j
    <2>1. \A x, y \in Listen : x.user = y.user /\ x.at = y.at /\ x.msid = y.msid => x = y
      BY DEF Listen
    <2> QED
      BY <1>1, <1>3, <2>1 DEF IsInjective
  <1>5. IsInjective(Submitted(b, t))
    BY <1>4 DEF IsInjective, Submitted
  <1> QED
    BY <1>2, <1>5 DEF Submitted, ToSet

LEMMA TailSplit ==
    ASSUME NEW q \in Seq(Row), q # <<>>, IsInjective(q)
    PROVE  /\ IsInjective(Tail(q)) /\ Head(q) \notin ToSet(Tail(q))
           /\ ToSet(q) = {Head(q)} \cup ToSet(Tail(q))
  <1>1. /\ Len(q) \in Nat \ {0} /\ DOMAIN q = 1..Len(q) /\ Head(q) = q[1]
        /\ Tail(q) \in Seq(Row) /\ Len(Tail(q)) = Len(q) - 1 /\ \A i \in 1..Len(Tail(q)) : Tail(q)[i] = q[i + 1]
    BY HeadTailProperties, EmptySeq, LenProperties
  <1> DEFINE tail == Tail(q)
  <1>2. DOMAIN tail = 1..Len(tail) /\ Len(tail) = Len(q) - 1 /\ \A i \in 1..Len(tail) : tail[i] = q[i + 1]
    BY <1>1, LenProperties
  <1> HIDE DEF tail
  <1>3. \A i \in DOMAIN tail : i + 1 \in DOMAIN q /\ i \in Nat \ {0} /\ tail[i] = q[i + 1]
    BY <1>1, <1>2
  <1>4. \A i \in DOMAIN q : i = 1 \/ (i - 1 \in DOMAIN tail /\ tail[i - 1] = q[i])
    <2>1. \A i \in DOMAIN q : i = 1 \/ (i - 1 \in DOMAIN tail /\ (i - 1) + 1 = i)
      BY <1>1, <1>2
    <2> QED
      BY <1>3, <2>1
  <1>5. IsInjective(tail)
    <2> SUFFICES ASSUME NEW i \in DOMAIN tail, NEW j \in DOMAIN tail, tail[i] = tail[j] PROVE i = j
      BY DEF IsInjective
    <2>1. i + 1 = j + 1
      BY <1>3 DEF IsInjective
    <2> QED
      BY <1>3, <2>1
  <1>6. Head(q) \notin ToSet(tail)
    <2> SUFFICES ASSUME NEW i \in DOMAIN tail, tail[i] = q[1] PROVE FALSE
      BY <1>1 DEF ToSet
    <2>1. i + 1 = 1
      BY <1>1, <1>3 DEF IsInjective
    <2> QED
      BY <1>3, <2>1
  <1>7. ToSet(q) = {Head(q)} \cup ToSet(tail)
    <2>1. q[1] \in ToSet(q)
      BY <1>1 DEF ToSet
    <2>2. ToSet(tail) \subseteq ToSet(q)
      BY <1>3 DEF ToSet
    <2>3. ToSet(q) \subseteq {q[1]} \cup ToSet(tail)
      BY <1>4 DEF ToSet
    <2> QED
      BY <1>1, <2>1, <2>2, <2>3
  <1> QED
    BY <1>5, <1>6, <1>7 DEF tail

LEMMA AheadFrame ==
    ASSUME IInv, NEW s \in Sessions, SessionStep(s), NEW t \in Sessions, t # s
    PROVE  Ahead(t)' = Ahead(t) /\ Ours(t)' = Ours(t)
  <1>1. op'[t] = op[t] /\ rows'[t] = rows[t] /\ ins'[t] = ins[t] /\ arg'[t] = arg[t]
    BY SessionFrame
  <1>2. Ahead(t)' = Ahead(t)
    BY <1>1 DEF Ahead
  <1> QED
    BY <1>1, <1>2 DEF Ours

\* A step that takes no listen in: what is ahead of its session becomes less, and only what it
\* inserted becomes visible.
LEMMA NewRowsKept ==
    ASSUME IInv, NewRows, NEW s \in Sessions, SessionStep(s), now' = now, Seen' \subseteq Seen \cup ins[s],
           Ours(s)' \subseteq Ours(s), Ours(s)' \cap Seen' = {}, Ahead(s)' \cap ins'[s] = {},
           op'[s] = "insert" => /\ IsInjective(rows'[s]) /\ IsInjective(arg'[s].rest)
                                /\ ToSet(rows'[s]) \cap ToSet(arg'[s].rest) = {}
    PROVE  NewRows'
  <1>1. ASSUME NEW t \in Sessions, t # s
        PROVE  /\ Ours(t)' = Ours(t) /\ Ahead(t)' = Ahead(t)
               /\ op'[t] = op[t] /\ rows'[t] = rows[t] /\ ins'[t] = ins[t] /\ arg'[t] = arg[t]
    BY <1>1, AheadFrame, SessionFrame
  <1>2. ins[s] \subseteq Ours(s)
    BY DEF Ours
  <1>3. \A r \in Seen' : r.created \in 0..now'
    BY <1>2 DEF NewRows
  <1>4. ASSUME NEW t \in Sessions, t # s
        PROVE  /\ \A r \in Ours(t)' : r.created \in 0..now'
               /\ Ours(t)' \cap Seen' = {}
               /\ Ahead(t)' \cap ins'[t] = {}
               /\ op'[t] = "insert" => /\ IsInjective(rows'[t]) /\ IsInjective(arg'[t].rest)
                                       /\ ToSet(rows'[t]) \cap ToSet(arg'[t].rest) = {}
    BY <1>1, <1>2, <1>4 DEF NewRows
  <1>5. \A r \in Ours(s)' : r.created \in 0..now'
    BY DEF NewRows
  <1>6. ASSUME NEW t \in Sessions, NEW v \in Sessions, t # v PROVE Ours(t)' \cap Ours(v)' = {}
    <2>1. Ours(t)' \subseteq Ours(t) /\ Ours(v)' \subseteq Ours(v)
      BY <1>1
    <2> QED
      BY <1>6, <2>1 DEF NewRows
  <1> QED
    BY <1>3, <1>4, <1>5, <1>6 DEF NewRows

LEMMA InsertTakesIn ==
    ASSUME NoRepeats, IInv, NewRows, NEW s \in Sessions, BeginInsert(s)
    PROVE  NewRows'
  <1>1. PICK b \in Batches :
           Start(s, "insert", "running", Chunk(Submitted(b, now + 1)),
                 [rest |-> AfterChunk(Submitted(b, now + 1))])
    BY DEF BeginInsert
  <1>2. now \in Nat /\ now' = now + 1 /\ UNCHANGED <<live, targets>>
    BY DEF BeginInsert, IInv, TypeInv, TrackedOK, committed, tracked
  <1> DEFINE q == Submitted(b, now + 1)
  <1>3. q \in Seq(Row) /\ IsInjective(q) /\ \A r \in ToSet(q) : r.created = now + 1
    BY <1>2, SubmittedSplit
  <1> HIDE DEF q
  <1>4. /\ IsInjective(Chunk(q)) /\ IsInjective(AfterChunk(q))
        /\ ToSet(Chunk(q)) \cap ToSet(AfterChunk(q)) = {}
        /\ ToSet(Chunk(q)) \cup ToSet(AfterChunk(q)) \subseteq ToSet(q)
    BY <1>3, ChunkSplit
  <1>5. /\ op'[s] = "insert" /\ rows'[s] = Chunk(q) /\ arg'[s].rest = AfterChunk(q) /\ ins'[s] = {}
    BY <1>1 DEF Start, IInv, TypeInv, SessionsOK, q
  <1>6. Ours(s)' \subseteq ToSet(q) /\ Ahead(s)' \cap ins'[s] = {}
    BY <1>4, <1>5 DEF Ours, Ahead
  <1>7. SessionStep(s)
    BY DEF SessionStep, Begin
  <1>8. ASSUME NEW t \in Sessions, t # s
        PROVE  /\ Ours(t)' = Ours(t) /\ Ahead(t)' = Ahead(t)
               /\ op'[t] = op[t] /\ rows'[t] = rows[t] /\ ins'[t] = ins[t] /\ arg'[t] = arg[t]
    BY <1>7, <1>8, AheadFrame, SessionFrame
  <1>9. Seen' = Seen
    BY <1>2 DEF Seen
  <1>10. \A r \in ToSet(q) : r.created \in 0..now' /\ r.created \notin 0..now
    BY <1>2, <1>3
  <1>11. ToSet(q) \cap Seen = {} /\ \A t \in Sessions : ToSet(q) \cap Ours(t) = {}
    BY <1>10 DEF NewRows
  <1>12. /\ \A r \in Seen' : r.created \in 0..now'
         /\ \A t \in Sessions : \A r \in Ours(t)' : r.created \in 0..now'
    <2>1. \A k \in 0..now : k \in 0..now'
      BY <1>2
    <2> QED
      BY <1>6, <1>8, <1>9, <1>10, <2>1 DEF NewRows
  <1>13. \A t \in Sessions : /\ Ours(t)' \cap Seen' = {} /\ Ahead(t)' \cap ins'[t] = {}
                             /\ op'[t] = "insert" => /\ IsInjective(rows'[t]) /\ IsInjective(arg'[t].rest)
                                                     /\ ToSet(rows'[t]) \cap ToSet(arg'[t].rest) = {}
    BY <1>4, <1>5, <1>6, <1>8, <1>9, <1>11 DEF NewRows
  <1>14. ASSUME NEW t \in Sessions, NEW v \in Sessions, t # v PROVE Ours(t)' \cap Ours(v)' = {}
    <2>1. \A w \in Sessions : Ours(w)' \subseteq (IF w = s THEN ToSet(q) ELSE Ours(w))
      BY <1>6, <1>8
    <2> QED
      BY <1>11, <1>14, <2>1 DEF NewRows
  <1> QED
    BY <1>12, <1>13, <1>14 DEF NewRows

\* A request names rows that are in the table.
LEMMA QueuedTargets ==
    ASSUME IInv, Targeted, QueueDeletion
    PROVE  /\ DOMAIN targets \subseteq DOMAIN targets' /\ DOMAIN targets' = DOMAIN request'
           /\ targets' \in Seq(SUBSET Row)
           /\ \A i \in DOMAIN request : targets'[i] = targets[i] /\ request'[i] = request[i]
           /\ \A i \in DOMAIN request' \ DOMAIN request :
                 /\ request'[i].status = "pending" /\ targets'[i] \subseteq live
                 /\ \A r \in targets'[i] : SameKey(request'[i], r)
  <1>1. PICK l \in Listen :
          /\ request' = Append(request, [user |-> l.user, at |-> l.at, msid |-> l.msid, status |-> "pending"])
          /\ targets' = Append(targets, {r \in live : SameKey(l, r)})
    BY DEF QueueDeletion
  <1> DEFINE m == [user |-> l.user, at |-> l.at, msid |-> l.msid, status |-> "pending"]
             T == {r \in live : SameKey(l, r)}
  <1>2. request \in Seq(Requests) /\ targets \in Seq(SUBSET Row) /\ DOMAIN targets = DOMAIN request /\ live \in SUBSET Row
    BY DEF IInv, TypeInv, TablesOK, Targeted
  <1>3. m \in Requests /\ T \in SUBSET Row /\ \A r \in T : SameKey(m, r)
    BY <1>2 DEF Listen, Requests, SameKey, Key
  <1>4. T \subseteq live /\ m.status = "pending"
    OBVIOUS
  <1>5. request' = Append(request, m) /\ targets' = Append(targets, T)
    BY <1>1
  <1> HIDE DEF m, T
  <1>6. /\ request' \in Seq(Requests) /\ Len(request') = Len(request) + 1
        /\ \A i \in 1..Len(request) : request'[i] = request[i]
        /\ request'[Len(request) + 1] = m
    BY <1>2, <1>3, <1>5, AppendProperties
  <1>7. /\ targets' \in Seq(SUBSET Row) /\ Len(targets') = Len(targets) + 1
        /\ \A i \in 1..Len(targets) : targets'[i] = targets[i]
        /\ targets'[Len(targets) + 1] = T
    BY <1>2, <1>3, <1>5, AppendProperties
  <1>8. /\ DOMAIN request = 1..Len(request) /\ DOMAIN targets = 1..Len(targets) /\ Len(request) \in Nat /\ Len(targets) \in Nat
        /\ DOMAIN request' = 1..(Len(request) + 1) /\ DOMAIN targets' = 1..(Len(targets) + 1)
    BY <1>2, <1>6, <1>7, LenProperties
  <1>9. Len(request) = Len(targets)
    BY <1>2, <1>8
  <1>10. \A i \in DOMAIN request' \ DOMAIN request : i = Len(request) + 1
    BY <1>8
  <1> QED
    BY <1>3, <1>4, <1>6, <1>7, <1>8, <1>9, <1>10

LEMMA NewRowsStep ==
    ASSUME NoRepeats, IInv, NewRows, Targeted, [Next]_vars
    PROVE  NewRows'
  <1>1. CASE UNCHANGED vars
    <2>1. UNCHANGED <<live, targets, now, op, rows, ins, arg>>
      BY <1>1 DEF vars, committed, session, tracked
    <2> QED
      BY <2>1 DEF NewRows, Seen, Ours, Ahead
  <1>2. CASE QueueDeletion
    <2>1. UNCHANGED <<live, now, op, rows, ins, arg>>
      BY <1>2 DEF QueueDeletion, session
    <2>2. Seen' \subseteq Seen
      <3>1. \A i \in DOMAIN targets' :
               (i \in DOMAIN targets /\ targets'[i] = targets[i]) \/ targets'[i] \subseteq live
        BY <1>2, QueuedTargets DEF Targeted
      <3> QED
        BY <2>1, <3>1 DEF Seen
    <2>3. \A s \in Sessions : Ours(s)' = Ours(s) /\ Ahead(s)' = Ahead(s)
      BY <2>1 DEF Ours, Ahead
    <2> QED
      BY <2>1, <2>2, <2>3 DEF NewRows
  <1>3. ASSUME NEW s \in Sessions, BeginInsert(s) PROVE NewRows'
    BY <1>3, InsertTakesIn
  <1>4. ASSUME NEW s \in Sessions, SessionStep(s), ~ BeginInsert(s) PROVE NewRows'
    <2>1. now' = now /\ targets' = targets
      BY <1>4 DEF SessionStep, Begin, BeginDeletePending, BeginDeleteUser, BeginAddMissing, BeginRecalculate,
                  Step, InsertRow, AddCount, CommitInsert, DeleteRow, SubtractCount, RefreshBounds,
                  CommitDeletePending, LockMeta, RefreshMeta, DropMeta, CommitDeleteUser, AddMissingRow,
                  CommitAddMissing, Compare, CommitRecalculate, Rollback, DeadlockVictim, Abort, tracked
    <2>2. live' = live \/ live' = View(s)
      BY <1>4 DEF SessionStep, Begin, BeginDeletePending, BeginDeleteUser, BeginAddMissing, BeginRecalculate,
                  Step, InsertRow, AddCount, CommitInsert, DeleteRow, SubtractCount, RefreshBounds,
                  CommitDeletePending, LockMeta, RefreshMeta, DropMeta, CommitDeleteUser, AddMissingRow,
                  CommitAddMissing, Compare, CommitRecalculate, Rollback, DeadlockVictim, Abort, committed, Publish
    <2>3. Seen' \subseteq Seen \cup ins[s]
      BY <2>1, <2>2 DEF Seen, View
    <2>4. /\ DOMAIN op = Sessions /\ DOMAIN rows = Sessions /\ DOMAIN ins = Sessions
          /\ DOMAIN arg = Sessions /\ rows[s] \in Seq(Row)
      BY DEF IInv, TypeInv, SessionsOK
    <2>5. CASE CommitInsert(s) /\ arg[s].rest # <<>>
      <3> DEFINE q == arg[s].rest
      <3>1. op[s] = "insert" /\ Start(s, "insert", "running", Chunk(q), [rest |-> AfterChunk(q)])
        BY <2>5 DEF CommitInsert
      <3>2. q \in Seq(Row) /\ IsInjective(q)
        BY <3>1 DEF NewRows, IInv, TypeInv, SessionsOK, Args
      <3> HIDE DEF q
      <3>3. /\ IsInjective(Chunk(q)) /\ IsInjective(AfterChunk(q))
            /\ ToSet(Chunk(q)) \cap ToSet(AfterChunk(q)) = {}
            /\ ToSet(Chunk(q)) \cup ToSet(AfterChunk(q)) \subseteq ToSet(q)
        BY <3>2, ChunkSplit
      <3>4. /\ rows'[s] = Chunk(q) /\ arg'[s].rest = AfterChunk(q) /\ ins'[s] = {} /\ op'[s] = "insert"
        BY <2>4, <3>1 DEF Start
      <3>5. Ours(s)' \subseteq ToSet(q) /\ Ahead(s)' \cap ins'[s] = {}
        BY <3>3, <3>4 DEF Ours, Ahead
      <3>6. ToSet(q) \subseteq Ahead(s)
        BY <3>1 DEF Ahead, q
      <3>7. Ours(s)' \subseteq Ours(s) /\ Ours(s)' \cap Seen' = {}
        BY <2>3, <3>5, <3>6 DEF NewRows, Ours
      <3> QED
        BY <1>4, <2>1, <2>3, <3>3, <3>4, <3>5, <3>7, NewRowsKept
    <2>6. CASE StartStep(s) /\ ~ (CommitInsert(s) /\ arg[s].rest # <<>>)
      <3>1. \E o, p, rs, a : Start(s, o, p, rs, a) /\ o # "insert"
        <4>1. CASE Begin(s)
          <5>1. CASE BeginDeletePending(s)
            BY <5>1 DEF BeginDeletePending
          <5>2. CASE BeginDeleteUser(s)
            BY <5>2 DEF BeginDeleteUser
          <5>3. CASE BeginAddMissing(s)
            BY <5>3 DEF BeginAddMissing
          <5>4. CASE BeginRecalculate(s)
            BY <5>4 DEF BeginRecalculate, StartBatch
          <5> QED
            BY <1>4, <4>1, <5>1, <5>2, <5>3, <5>4 DEF Begin
        <4>2. CASE CommitRecalculate(s)
          BY <4>2 DEF CommitRecalculate, StartBatch, Finish
        <4>3. CASE Finish(s)
          BY <4>3 DEF Finish
        <4> QED
          BY <2>6, <4>1, <4>2, <4>3 DEF StartStep, CommitStep, CommitInsert, CommitDeletePending, CommitDeleteUser,
                  CommitAddMissing, Rollback, DeadlockVictim, Abort
      <3>2. op'[s] # "insert" /\ ins'[s] = {}
        BY <2>4, <3>1 DEF Start
      <3>3. Ours(s)' = {} /\ Ahead(s)' = {}
        BY <3>2 DEF Ours, Ahead
      <3> QED
        BY <1>4, <2>1, <2>3, <3>2, <3>3, NewRowsKept
    <2>7. CASE InsertRow(s)
      <3> DEFINE h == Head(rows[s])
      <3>1. /\ op[s] = "insert" /\ rows[s] # <<>> /\ op' = op /\ arg' = arg /\ rows'[s] = Tail(rows[s])
            /\ ins[s] \subseteq ins'[s] /\ ins'[s] \subseteq ins[s] \cup {h} /\ live' = live
        BY <2>4, <2>7 DEF InsertRow, committed
      <3>2. IsInjective(rows[s]) /\ ToSet(rows[s]) \cap ToSet(arg[s].rest) = {} /\ IsInjective(arg[s].rest)
        BY <3>1 DEF NewRows
      <3>3. /\ IsInjective(Tail(rows[s])) /\ h \notin ToSet(Tail(rows[s]))
            /\ ToSet(rows[s]) = {h} \cup ToSet(Tail(rows[s]))
        BY <2>4, <3>1, <3>2, TailSplit
      <3> HIDE DEF h
      <3>4. Ahead(s)' = ToSet(Tail(rows[s])) \cup ToSet(arg[s].rest) /\ Ahead(s) = Ahead(s)' \cup {h} /\ h \notin Ahead(s)'
        BY <3>1, <3>2, <3>3 DEF Ahead
      <3>5. Ours(s)' \subseteq Ours(s) /\ Ahead(s)' \cap ins'[s] = {}
        BY <3>1, <3>4 DEF Ours, NewRows
      <3>6. Seen' = Seen
        BY <2>1, <3>1 DEF Seen
      <3>7. Ours(s)' \cap Seen' = {}
        BY <3>5, <3>6 DEF NewRows
      <3>8. ToSet(rows'[s]) \cap ToSet(arg'[s].rest) = {}
        BY <3>1, <3>2, <3>3
      <3> QED
        BY <1>4, <2>1, <2>3, <3>1, <3>2, <3>3, <3>5, <3>7, <3>8, NewRowsKept
    <2>8. CASE ~ StartStep(s) /\ ~ InsertRow(s)
      <3>1. op' = op /\ ins' = ins /\ live' = live /\ (op[s] = "insert" => rows' = rows /\ arg' = arg)
        BY <1>4, <2>8 DEF SessionStep, StartStep, CommitStep, Step, AddCount, DeleteRow, SubtractCount, RefreshBounds,
                  LockMeta, RefreshMeta, DropMeta, AddMissingRow, Compare, committed, session
      <3>2. Ahead(s)' = Ahead(s)
        BY <3>1 DEF Ahead
      <3>3. Ours(s)' = Ours(s) /\ Seen' = Seen
        BY <2>1, <3>1, <3>2 DEF Ours, Seen
      <3>4. Ours(s)' \cap Seen' = {} /\ Ahead(s)' \cap ins'[s] = {}
        BY <3>1, <3>2, <3>3 DEF NewRows
      <3>5. op'[s] = "insert" => /\ IsInjective(rows'[s]) /\ IsInjective(arg'[s].rest)
                                 /\ ToSet(rows'[s]) \cap ToSet(arg'[s].rest) = {}
        BY <3>1 DEF NewRows
      <3> QED
        BY <1>4, <2>1, <2>3, <3>3, <3>4, <3>5, NewRowsKept
    <2> QED
      BY <2>5, <2>6, <2>7, <2>8
  <1> QED
    BY <1>1, <1>2, <1>3, <1>4 DEF Next, SessionStep

\* The listens of resolved requests are gone, and those of the others go.
DeletionInv == IInv /\ NewRows /\ Targeted /\ ResolvedListensGone

\* A listen that a request names and that is not in the table does not come back.
LEMMA TargetsShrink ==
    ASSUME IInv, NewRows, Targeted, NEW s \in Sessions, SessionStep(s)
    PROVE  /\ targets' = targets
           /\ live' = live \/ live' = View(s)
           /\ \A i \in DOMAIN request : targets[i] \cap live' \subseteq targets[i] \cap live
  <1>1. targets' = targets
    BY DEF SessionStep, Begin, BeginInsert, BeginDeletePending, BeginDeleteUser, BeginAddMissing, BeginRecalculate,
           Step, InsertRow, AddCount, CommitInsert, DeleteRow, SubtractCount, RefreshBounds,
           CommitDeletePending, LockMeta, RefreshMeta, DropMeta, CommitDeleteUser, AddMissingRow,
           CommitAddMissing, Compare, CommitRecalculate, Rollback, DeadlockVictim, Abort, tracked
  <1>2. live' = live \/ live' = View(s)
    BY DEF SessionStep, Begin, BeginInsert, BeginDeletePending, BeginDeleteUser, BeginAddMissing, BeginRecalculate,
           Step, InsertRow, AddCount, CommitInsert, DeleteRow, SubtractCount, RefreshBounds,
           CommitDeletePending, LockMeta, RefreshMeta, DropMeta, CommitDeleteUser, AddMissingRow,
           CommitAddMissing, Compare, CommitRecalculate, Rollback, DeadlockVictim, Abort, committed, Publish
  <1>3. \A i \in DOMAIN request : targets[i] \cap ins[s] = {}
    BY DEF NewRows, Targeted, Seen, Ours
  <1> QED
    BY <1>1, <1>2, <1>3 DEF View

\* Requests change only when the deletion that took them up commits, and then in their status
\* only.
LEMMA RequestFrame ==
    ASSUME IInv, Targeted, NEW s \in Sessions, SessionStep(s)
    PROVE  /\ DOMAIN request' = DOMAIN request
           /\ \A i \in DOMAIN request :
                 /\ Key(request'[i]) = Key(request[i])
                 /\ request'[i].status # "pending" =>
                       request[i].status # "pending" \/ (CommitDeletePending(s) /\ i \in arg[s].pending)
  <1>1. CASE CommitDeletePending(s)
    <2>1. request' = Resolved(s)
      BY <1>1 DEF CommitDeletePending
    <2>2. \A i \in DOMAIN request : request[i] \in Requests
      BY DEF IInv, TypeInv, TablesOK
    <2>3. DOMAIN request' = DOMAIN request
      BY <2>1 DEF Resolved
    <2>4. ASSUME NEW i \in DOMAIN request
          PROVE  Key(request'[i]) = Key(request[i]) /\ (i \notin arg[s].pending => request'[i] = request[i])
      <3>1. CASE i \notin arg[s].pending
        BY <2>1, <3>1 DEF Resolved
      <3>2. CASE i \in arg[s].pending
        <4>1. \E st : request'[i] = [request[i] EXCEPT !.status = st]
          BY <2>1, <3>2 DEF Resolved
        <4> QED
          BY <2>2, <3>2, <4>1 DEF Key, Requests
      <3> QED
        BY <3>1, <3>2
    <2> QED
      BY <1>1, <2>3, <2>4
  <1>2. CASE ~ CommitDeletePending(s)
    <2>1. request' = request
      BY <1>2 DEF SessionStep, Begin, BeginInsert, BeginDeletePending, BeginDeleteUser, BeginAddMissing, BeginRecalculate,
           Step, InsertRow, AddCount, CommitInsert, DeleteRow, SubtractCount, RefreshBounds,
           LockMeta, RefreshMeta, DropMeta, CommitDeleteUser, AddMissingRow,
           CommitAddMissing, Compare, CommitRecalculate, Rollback, DeadlockVictim, Abort, committed
    <2> QED
      BY <2>1
  <1> QED
    BY <1>1, <1>2

LEMMA PlanCovers ==
    ASSUME NEW S \in SUBSET Row, IsFiniteSet(S), NEW q \in SetToSeqs(S)
    PROVE  S \subseteq ToSet(q)
  <1>1. Cardinality(S) \in Nat
    BY FS_CardinalityType
  <1>2. IsFiniteSet(1..Cardinality(S)) /\ Cardinality(1..Cardinality(S)) = Cardinality(S)
    BY <1>1, FS_Interval
  <1>3. q \in Injection(1..Cardinality(S), S)
    BY DEF SetToSeqs, Injection, IsInjective
  <1>4. q \in Surjection(1..Cardinality(S), S)
    BY <1>2, <1>3, FS_Injection
  <1> QED
    BY <1>4 DEF Surjection, ToSet

LEMMA HeadOrTail ==
    ASSUME NEW q \in Seq(Row), q # <<>>
    PROVE  ToSet(q) \subseteq {Head(q)} \cup ToSet(Tail(q))
  <1>1. /\ Len(q) \in Nat \ {0} /\ DOMAIN q = 1..Len(q) /\ Head(q) = q[1]
        /\ Tail(q) \in Seq(Row) /\ Len(Tail(q)) = Len(q) - 1 /\ \A i \in 1..Len(Tail(q)) : Tail(q)[i] = q[i + 1]
    BY HeadTailProperties, EmptySeq, LenProperties
  <1> DEFINE tail == Tail(q)
  <1>2. DOMAIN tail = 1..Len(tail) /\ Len(tail) = Len(q) - 1 /\ \A i \in 1..Len(tail) : tail[i] = q[i + 1]
    BY <1>1, LenProperties
  <1> HIDE DEF tail
  <1>3. \A i \in DOMAIN q : i = 1 \/ (i - 1 \in 1..Len(tail) /\ (i - 1) + 1 = i)
    BY <1>1, <1>2
  <1>4. \A i \in DOMAIN q : i = 1 \/ (i - 1 \in DOMAIN tail /\ tail[i - 1] = q[i])
    BY <1>2, <1>3
  <1>5. ToSet(q) \subseteq {q[1]} \cup ToSet(tail)
    BY <1>4 DEF ToSet
  <1> QED
    BY <1>1, <1>5 DEF tail

LEMMA DeletionStep ==
    ASSUME NoRepeats, DeletionInv, [Next]_vars
    PROVE  DeletionInv'
  <1> USE DEF DeletionInv
  <1>1. IInv' /\ NewRows'
    BY IInvStep, NewRowsStep
  <1>2. CASE UNCHANGED vars
    <2>1. UNCHANGED <<live, targets, request, op, rows, del, arg>>
      BY <1>2 DEF vars, committed, session, tracked
    <2>2. Targeted' /\ ResolvedListensGone'
      BY <2>1 DEF Targeted, SameKey, Key, ResolvedListensGone
    <2> QED
      BY <1>1, <2>2
  <1>3. CASE QueueDeletion
    <2>1. UNCHANGED <<live, op, rows, del, arg>>
      BY <1>3 DEF QueueDeletion, session
    <2>2. /\ DOMAIN request \subseteq DOMAIN request' /\ DOMAIN targets' = DOMAIN request'
          /\ targets' \in Seq(SUBSET Row)
          /\ \A i \in DOMAIN request : targets'[i] = targets[i] /\ request'[i] = request[i]
          /\ \A i \in DOMAIN request' \ DOMAIN request :
                request'[i].status = "pending" /\ \A r \in targets'[i] : SameKey(request'[i], r)
      BY <1>3, QueuedTargets DEF Targeted
    <2>3. ResolvedListensGone'
      BY <2>1, <2>2 DEF ResolvedListensGone
    <2>4. \A i \in DOMAIN request' : \A r \in targets'[i] : SameKey(request'[i], r)
      BY <2>2 DEF Targeted
    <2>5. ASSUME NEW s \in Sessions, op[s] = "deletePending"
          PROVE  /\ arg[s].pending \subseteq DOMAIN request'
                 /\ \A i \in arg[s].pending : targets'[i] \cap live \subseteq ToSet(rows[s]) \cup del[s]
      BY <2>2, <2>5 DEF Targeted
    <2>6. Targeted'
      BY <2>1, <2>2, <2>4, <2>5 DEF Targeted, SameKey, Key
    <2> QED
      BY <1>1, <2>3, <2>6
  <1>4. ASSUME NEW s \in Sessions, SessionStep(s) PROVE DeletionInv'
    <2>1. /\ targets' = targets
          /\ \A i \in DOMAIN request : targets[i] \cap live' \subseteq targets[i] \cap live
      BY <1>4, TargetsShrink
    <2>2. /\ DOMAIN request' = DOMAIN request
          /\ \A i \in DOMAIN request :
                /\ Key(request'[i]) = Key(request[i])
                /\ request'[i].status # "pending" =>
                      request[i].status # "pending" \/ (CommitDeletePending(s) /\ i \in arg[s].pending)
      BY <1>4, RequestFrame
    <2>3. /\ DOMAIN op = Sessions /\ DOMAIN rows = Sessions /\ DOMAIN del = Sessions
          /\ DOMAIN arg = Sessions /\ rows[s] \in Seq(Row)
      BY DEF IInv, TypeInv, SessionsOK
    <2>4. ResolvedListensGone'
      <3>1. ASSUME NEW i \in DOMAIN request, CommitDeletePending(s), i \in arg[s].pending
            PROVE  targets[i] \cap live' = {}
        <4>1. op[s] = "deletePending" /\ rows[s] = <<>> /\ live' = View(s)
          BY <3>1 DEF CommitDeletePending, Publish, MetaLocked, RowsDone, IInv, CountsInductive, ReadyLocked
        <4>2. ins[s] = {}
          BY <4>1 DEF IInv, CountsInductive, RowsOwned
        <4>3. targets[i] \cap live \subseteq del[s]
          BY <3>1, <4>1 DEF Targeted, ToSet
        <4> QED
          BY <4>1, <4>2, <4>3 DEF View
      <3>2. ASSUME NEW i \in DOMAIN request, request[i].status # "pending"
            PROVE  targets[i] \cap live' = {}
        BY <2>1, <3>2 DEF ResolvedListensGone
      <3>3. \A i \in DOMAIN request : request'[i].status # "pending" => targets[i] \cap live' = {}
        BY <2>2, <3>1, <3>2
      <3> QED
        BY <2>1, <2>2, <3>3 DEF ResolvedListensGone
    <2>5. ASSUME NEW t \in Sessions, op'[t] = "deletePending"
          PROVE  /\ arg'[t].pending \subseteq DOMAIN request
                 /\ \A i \in arg'[t].pending : targets[i] \cap live' \subseteq ToSet(rows'[t]) \cup del'[t]
      <3>1. CASE t # s
        <4>1. op'[t] = op[t] /\ rows'[t] = rows[t] /\ del'[t] = del[t] /\ arg'[t] = arg[t]
          BY <1>4, <3>1, SessionFrame
        <4> QED
          BY <2>1, <2>5, <4>1 DEF Targeted
      <3>2. CASE t = s /\ BeginDeletePending(s)
        <4> DEFINE L == {r \in live : \E i \in Pending : SameKey(request[i], r)}
        <4>1. PICK q \in SetToSeqs(L) : Start(s, "deletePending", "running", q, [pending |-> Pending])
          BY <3>2 DEF BeginDeletePending
        <4>2. L \in SUBSET live /\ live \in SUBSET Row /\ IsFiniteSet(live)
          BY DEF IInv, TypeInv, TablesOK
        <4>3. L \in SUBSET Row /\ IsFiniteSet(L)
          BY <4>2, FS_Subset
        <4>4. L \subseteq ToSet(q)
          BY <4>3, PlanCovers
        <4>5. rows'[s] = q /\ arg'[s].pending = Pending /\ live' = live
          BY <2>3, <3>2, <4>1 DEF Start, BeginDeletePending, committed
        <4>6. \A i \in Pending : targets[i] \cap live \subseteq L
          BY DEF Targeted, Pending
        <4>7. Pending \subseteq DOMAIN request
          BY DEF Pending
        <4> QED
          BY <3>2, <4>4, <4>5, <4>6, <4>7
      <3>3. CASE t = s /\ DeleteRow(s)
        <4> DEFINE h == Head(rows[s])
        <4>1. op[s] = "deletePending" /\ rows[s] # <<>> /\ arg' = arg /\ live' = live /\ rows'[s] = Tail(rows[s])
          BY <2>3, <2>5, <3>3 DEF DeleteRow, committed
        <4>2. del'[s] = IF h \in live THEN del[s] \cup {h} ELSE del[s]
          BY <2>3, <3>3 DEF DeleteRow
        <4>3. ToSet(rows[s]) \subseteq {h} \cup ToSet(Tail(rows[s]))
          BY <2>3, <4>1, HeadOrTail
        <4> HIDE DEF h
        <4>4. (ToSet(rows[s]) \cup del[s]) \cap live \subseteq ToSet(rows'[s]) \cup del'[s]
          BY <4>1, <4>2, <4>3
        <4> QED
          BY <3>3, <4>1, <4>4 DEF Targeted
      <3>4. CASE t = s /\ ~ BeginDeletePending(s) /\ ~ DeleteRow(s)
        <4>1. ~ StartStep(s)
          <5>1. ASSUME StartStep(s) PROVE \E o, p, rs, a : Start(s, o, p, rs, a) /\ o # "deletePending"
            <6>1. CASE BeginInsert(s)
              BY <6>1 DEF BeginInsert
            <6>2. CASE BeginDeleteUser(s)
              BY <6>2 DEF BeginDeleteUser
            <6>3. CASE BeginAddMissing(s)
              BY <6>3 DEF BeginAddMissing
            <6>6. CASE BeginRecalculate(s)
              BY <6>6 DEF BeginRecalculate, StartBatch
            <6>4. CASE CommitInsert(s) \/ CommitRecalculate(s)
              BY <6>4 DEF CommitInsert, CommitRecalculate, StartBatch, Finish
            <6>5. CASE Finish(s)
              BY <6>5 DEF Finish
            <6> QED
              BY <3>4, <5>1, <6>1, <6>2, <6>3, <6>4, <6>5, <6>6
                 DEF StartStep, CommitStep, Begin, CommitDeletePending, CommitDeleteUser, CommitAddMissing,
                     Rollback, DeadlockVictim, Abort
          <5> QED
            BY <2>3, <2>5, <3>4, <5>1 DEF Start
        <4>2. op'[s] = op[s] /\ rows' = rows /\ del' = del /\ live' = live
          BY <1>4, <2>5, <3>4, <4>1 DEF SessionStep, StartStep, CommitStep, Step, InsertRow, AddCount, SubtractCount,
                  RefreshBounds, LockMeta, RefreshMeta, DropMeta, AddMissingRow, Compare, committed, session
        <4>3. arg' = arg
          BY <1>4, <2>5, <3>4, <4>1, <4>2 DEF SessionStep, StartStep, CommitStep, Step, InsertRow, AddCount, SubtractCount,
                  RefreshBounds, LockMeta, RefreshMeta, DropMeta, AddMissingRow, Compare, committed, session
        <4> QED
          BY <2>5, <3>4, <4>2, <4>3 DEF Targeted
      <3> QED
        BY <3>1, <3>2, <3>3, <3>4
    <2>6. Targeted'
      <3>1. \A i \in DOMAIN request : \A r \in targets[i] : Key(request'[i]) = Key(r)
        BY <2>2 DEF Targeted, SameKey
      <3>2. targets' \in Seq(SUBSET Row) /\ DOMAIN targets' = DOMAIN request'
        BY <2>1, <2>2 DEF Targeted
      <3>3. \A i \in DOMAIN request' : \A r \in targets'[i] : (Key(request'[i]) = Key(r))
        BY <2>1, <2>2, <3>1
      <3> QED
        BY <2>1, <2>2, <2>5, <3>2, <3>3 DEF Targeted, SameKey, Key
    <2> QED
      BY <1>1, <2>4, <2>6
  <1> QED
    BY <1>2, <1>3, <1>4 DEF Next, SessionStep

\* A listen that was stored when its deletion was requested is gone once the request is
\* resolved, whatever insertions, deletions and rollbacks came between, as long as no batch
\* inserts one listen twice.
THEOREM ResolvedListensGoneCorrect ==
    ASSUME NoRepeats
    PROVE  Spec => []ResolvedListensGone
  <1>1. Init => DeletionInv
    <2> SUFFICES ASSUME Init PROVE NewRows /\ Targeted /\ ResolvedListensGone
      BY IInvInit DEF DeletionInv
    <2>1. \A r \in live : r.created = 0
      BY DEF Init
    <2>2. Seen = live /\ \A s \in Sessions : Ahead(s) = {} /\ Ours(s) = {}
      BY DEF Init, Seen, Ahead, Ours
    <2>3. NewRows
      BY <2>1, <2>2 DEF Init, NewRows
    <2> QED
      BY <2>3 DEF Init, Targeted, ResolvedListensGone
  <1>2. DeletionInv /\ [Next]_vars => DeletionInv'
    BY DeletionStep
  <1>3. DeletionInv => ResolvedListensGone
    BY DEF DeletionInv
  <1> QED
    BY <1>1, <1>2, <1>3, PTL DEF Spec

-----------------------------------------------------------------------------
(* Timestamp bounds                                                          *)

Ats(S) == {r.at : r \in S}

\* The metadata row m has the bounds of the rows S.
Spans(m, S) == m.min = Lowest(Ats(S)) /\ m.max = Highest(Ats(S))

\* What the holder of a metadata row wrote has the bounds that its commit will publish. 
HoldsBounds(s, u) ==
    /\ op[s] = "insert" => /\ mnew[u].min = Least(Stored(u).min, Lowest(Ats(Of(ins[s], u))))
                           /\ mnew[u].max = Greatest(Stored(u).max, Highest(Ats(Of(ins[s], u))))
    /\ op[s] = "deletePending" => Of(del[s], u) # {}
    /\ op[s] = "addMissing" => mnew[u] = EmptyMeta
    /\ op[s] \in {"deletePending", "deleteUser", "recalculate"} /\ pc[s] = "ready" /\ u \notin erased
          => Spans(mnew[u], Of(View(s), u))

LockedBounds == \A s \in Sessions, u \in Users : mlock[u] = s => HoldsBounds(s, u)

\* A finite set of numbers has an upper bound.
LEMMA FiniteBounded ==
    ASSUME NEW S \in SUBSET Nat, IsFiniteSet(S)
    PROVE  \E b \in Nat : \A x \in S : x <= b
  <1> DEFINE Bounded(T) == \E b \in Nat : \A x \in T : x <= b
             K == {n \in Nat : \E T \in SUBSET S : Cardinality(T) = n /\ ~ Bounded(T)}
  <1> SUFFICES ASSUME ~ Bounded(S) PROVE FALSE
    OBVIOUS
  <1>1. Cardinality(S) \in K
    <2>1. Cardinality(S) \in Nat /\ S \in SUBSET S
      BY FS_CardinalityType
    <2> HIDE DEF Bounded
    <2> QED
      BY <2>1
  <1>2. PICK n \in K : \A m \in K : n <= m
    <2>1. K \in SUBSET Nat /\ K # {}
      BY <1>1
    <2> HIDE DEF K
    <2> QED
      BY <2>1, LeastNatural
  <1>3. PICK T \in SUBSET S : Cardinality(T) = n /\ ~ Bounded(T)
    <2> HIDE DEF Bounded
    <2> QED
      BY <1>2
  <1>4. PICK x \in T : TRUE
    <2>1. T # {}
      <3>1. Bounded({})
        OBVIOUS
      <3> QED
        BY <1>3, <3>1
    <2> QED
      BY <2>1
  <1>5. IsFiniteSet(T) /\ x \in Nat /\ n \in Nat
    <2> HIDE DEF Bounded
    <2> QED
      BY <1>2, <1>3, <1>4, FS_Subset
  <1>6. Cardinality(T \ {x}) = n - 1 /\ n - 1 \in Nat
    <2>1. /\ Cardinality(T \ {x}) = Cardinality(T) - 1
          /\ IsFiniteSet(T \ {x})
      BY <1>4, <1>5, FS_RemoveElement
    <2>2. Cardinality(T \ {x}) \in Nat
      BY <2>1, FS_CardinalityType
    <2> QED
      BY <1>3, <2>1, <2>2
  <1>7. Bounded(T \ {x})
    <2>1. n - 1 \notin K
      BY <1>2, <1>5
    <2>2. T \ {x} \in SUBSET S
      BY <1>3
    <2> HIDE DEF Bounded
    <2> QED
      BY <1>6, <2>1, <2>2
  <1>8. PICK b \in Nat : \A y \in T \ {x} : y <= b
    BY <1>7
  <1>9. \A y \in T : y <= (IF b < x THEN x ELSE b)
    BY <1>3, <1>5, <1>8
  <1>10. Bounded(T)
    BY <1>5, <1>8, <1>9
  <1> QED
    BY <1>3, <1>10

\* Of finitely many timestamps, one is the first and one the last.
LEMMA Extremes ==
    ASSUME NEW S \in SUBSET Nat, IsFiniteSet(S), S # {}
    PROVE  /\ Lowest(S) \in S /\ \A y \in S : Lowest(S) <= y
           /\ Highest(S) \in S /\ \A y \in S : Highest(S) >= y
  <1>1. \E x \in S : \A y \in S : x <= y
    BY LeastNatural
  <1> DEFINE U == {b \in Nat : \A x \in S : x <= b}
  <1>2. U \in SUBSET Nat /\ U # {}
    BY FiniteBounded
  <1>3. PICK b \in U : \A c \in U : b <= c
    <2> HIDE DEF U
    <2> QED
      BY <1>2, LeastNatural
  <1>4. b \in S
    <2> SUFFICES ASSUME b \notin S PROVE FALSE
      OBVIOUS
    <2>1. \A x \in S : x <= b /\ x # b /\ x \in Nat
      BY <1>3
    <2>2. b \in Nat /\ b > 0
      <3>1. PICK x \in S : TRUE
        OBVIOUS
      <3> QED
        BY <1>3, <2>1, <3>1
    <2>3. b - 1 \in U
      BY <2>1, <2>2
    <2> QED
      BY <1>3, <2>2, <2>3
  <1>5. \E x \in S : \A y \in S : x >= y
    BY <1>3, <1>4
  <1> QED
    BY <1>1, <1>5 DEF Lowest, Highest

LEMMA NoExtremes == Lowest({}) = Null /\ Highest({}) = Null
  BY DEF Lowest, Highest

LEMMA LowestIs ==
    ASSUME NEW S \in SUBSET Nat, NEW x \in S, \A y \in S : x <= y
    PROVE  Lowest(S) = x
  <1>1. \A z \in S : z \in Nat
    OBVIOUS
  <1>2. \A z \in S : (\A y \in S : z <= y) => z = x
    BY <1>1
  <1> QED
    BY <1>2 DEF Lowest

LEMMA HighestIs ==
    ASSUME NEW S \in SUBSET Nat, NEW x \in S, \A y \in S : x >= y
    PROVE  Highest(S) = x
  <1>1. \A z \in S : z \in Nat
    OBVIOUS
  <1>2. \A z \in S : (\A y \in S : z >= y) => z = x
    BY <1>1
  <1> QED
    BY <1>2 DEF Highest

\* The bounds of two sets of rows together are those that LEAST and GREATEST give.
LEMMA SpanOfUnion ==
    ASSUME NEW A \in SUBSET Nat, IsFiniteSet(A), NEW B \in SUBSET Nat, IsFiniteSet(B)
    PROVE  /\ Lowest(A \cup B) = Least(Lowest(A), Lowest(B))
           /\ Highest(A \cup B) = Greatest(Highest(A), Highest(B))
  <1>1. CASE A = {}
    <2>1. A \cup B = B
      BY <1>1
    <2> QED
      BY <1>1, <2>1, NoExtremes DEF Least, Greatest
  <1>2. CASE B = {}
    <2>1. A \cup B = A
      BY <1>2
    <2> QED
      BY <1>2, <2>1, NoExtremes DEF Least, Greatest
  <1>3. CASE A # {} /\ B # {}
    <2>1. /\ Lowest(A) \in A /\ \A y \in A : Lowest(A) <= y
          /\ Highest(A) \in A /\ \A y \in A : Highest(A) >= y
      BY <1>3, Extremes
    <2>2. /\ Lowest(B) \in B /\ \A y \in B : Lowest(B) <= y
          /\ Highest(B) \in B /\ \A y \in B : Highest(B) >= y
      BY <1>3, Extremes
    <2>9. \A z \in A \cup B : z \in Nat /\ z # Null
      BY NullAssumption
    <2>3. Lowest(A) # Null /\ Lowest(B) # Null /\ Highest(A) # Null /\ Highest(B) # Null
      BY <2>1, <2>2, <2>9
    <2> DEFINE l == Least(Lowest(A), Lowest(B))
               g == Greatest(Highest(A), Highest(B))
    <2>4. l \in A \cup B /\ \A y \in A \cup B : l <= y
      <3> DEFINE a == Lowest(A)
                 b == Lowest(B)
      <3>1. l = IF a <= b THEN a ELSE b
        BY <2>3 DEF Least
      <3>2. a \in A /\ b \in B /\ (\A y \in A : a <= y) /\ \A y \in B : b <= y
        BY <2>1, <2>2
      <3> HIDE DEF a, b, l
      <3> QED
        BY <2>9, <3>1, <3>2
    <2>5. g \in A \cup B /\ \A y \in A \cup B : g >= y
      <3> DEFINE a == Highest(A)
                 b == Highest(B)
      <3>1. g = IF a >= b THEN a ELSE b
        BY <2>3 DEF Greatest
      <3>2. a \in A /\ b \in B /\ (\A y \in A : a >= y) /\ \A y \in B : b >= y
        BY <2>1, <2>2
      <3> HIDE DEF a, b, g
      <3> QED
        BY <2>9, <3>1, <3>2
    <2>6. A \cup B \in SUBSET Nat
      OBVIOUS
    <2> HIDE DEF l, g
    <2>7. Lowest(A \cup B) = l /\ Highest(A \cup B) = g
      BY <2>4, <2>5, <2>6, LowestIs, HighestIs
    <2> QED
      BY <2>7 DEF l, g
  <1> QED
    BY <1>1, <1>2, <1>3

LEMMA AtsFinite ==
    ASSUME NEW S \in SUBSET Row, IsFiniteSet(S), NEW u
    PROVE  Ats(Of(S, u)) \in SUBSET Nat /\ IsFiniteSet(Ats(Of(S, u)))
  <1>1. IsFiniteSet(Of(S, u))
    BY OfFinite
  <1>2. IsFiniteSet({r.at : r \in Of(S, u)})
    <2> DEFINE f == [r \in Of(S, u) |-> r.at]
    <2>1. f \in Surjection(Of(S, u), {r.at : r \in Of(S, u)})
      BY DEF Surjection
    <2> HIDE DEF f
    <2> QED
      BY <1>1, <2>1, FS_Surjection
  <1> QED
    BY <1>2, TimesAssumption DEF Ats, Of, Row

\* A session commits rows of users whose metadata rows it holds; the only exception is the
\* deletion of an account.
LEMMA CommittedRows ==
    ASSUME IInv, NEW s \in Sessions, CommitStep(s)
    PROVE  \A r \in ins[s] \cup del[s] : mlock[r.user] = s \/ r.user \in erased'
  <1> USE DEF IInv, CountsInductive, TypeInv
  <1>1. (ins[s] # {} => op[s] = "insert") /\ (del[s] # {} => op[s] \in Deletes)
    BY DEF RowsOwned
  <1>2. \A r \in ins[s] \cup del[s] : r.user \in Users
    BY DEF SessionsOK, Row
  <1>3. CASE CommitInsert(s)
    BY <1>1, <1>2, <1>3 DEF CommitInsert, MetaLocked, Deletes, ToLock, Locked
  <1>4. CASE CommitDeletePending(s)
    BY <1>1, <1>4 DEF CommitDeletePending, ReadyLocked
  <1>5. CASE CommitDeleteUser(s)
    <2>1. \A r \in del[s] : r.user = arg[s].user
      BY <1>5 DEF CommitDeleteUser, OwnUserOnly
    <2> QED
      BY <1>1, <1>5, <2>1 DEF CommitDeleteUser, ReadyLocked
  <1>6. CASE CommitAddMissing(s) \/ CommitRecalculate(s)
    BY <1>1, <1>6 DEF CommitAddMissing, CommitRecalculate, Deletes
  <1> QED
    BY <1>3, <1>4, <1>5, <1>6 DEF CommitStep

\* The tables change at a commit only, and then for the users whose metadata rows the session
\* holds.
LEMMA TablesFrame ==
    ASSUME IInv, NEW s \in Sessions, SessionStep(s), NEW u \in Users, mlock[u] # s
    PROVE  meta'[u] = meta[u] /\ erased \subseteq erased' /\ (u \in erased' \/ Of(live', u) = Of(live, u))
  <1>1. CASE CommitStep(s)
    <2>1. Publish(s) /\ erased \subseteq erased'
      BY <1>1 DEF CommitStep, CommitInsert, CommitDeletePending, CommitDeleteUser, CommitAddMissing,
                  CommitRecalculate, tracked
    <2>2. meta'[u] = meta[u] /\ live' = (live \ del[s]) \cup ins[s]
      BY <2>1 DEF Publish, View
    <2>3. u \in erased' \/ Of(live', u) = Of(live, u)
      <3> SUFFICES ASSUME u \notin erased' PROVE Of((live \ del[s]) \cup ins[s], u) = Of(live, u)
        BY <2>2
      <3>1. \A r \in ins[s] \cup del[s] : r.user # u
        BY <1>1, CommittedRows
      <3> QED
        BY <3>1 DEF Of
    <2> QED
      BY <2>1, <2>2, <2>3
  <1>2. CASE ~ CommitStep(s)
    <2>1. UNCHANGED <<live, meta, erased>>
      BY <1>2 DEF SessionStep, CommitStep, Begin, Step, BeginInsert, BeginDeletePending, BeginDeleteUser,
                  BeginAddMissing, BeginRecalculate, InsertRow, DeleteRow, AddCount, SubtractCount, LockMeta,
                  RefreshBounds, RefreshMeta, DropMeta, AddMissingRow, Compare, Rollback, DeadlockVictim,
                  Abort, committed, tracked
    <2> QED
      BY <2>1
  <1> QED
    BY <1>1, <1>2

\* The holder of a metadata row keeps what it knows of it, and learns it when it writes the row.
LEMMA LockedBoundsStep ==
    ASSUME IInv, IInv', LockedBounds, NEW s \in Sessions, SessionStep(s)
    PROVE  LockedBounds'
  <1>1. /\ DOMAIN op = Sessions /\ DOMAIN pc = Sessions /\ DOMAIN arg = Sessions
        /\ DOMAIN mlock = Users /\ DOMAIN mnew = Users
    BY DEF IInv, TypeInv, SessionsOK, LocksOK
  <1>2. ASSUME NEW t \in Sessions, t # s, NEW u \in Users, mlock'[u] = t
        PROVE  HoldsBounds(t, u)'
    <2>1. /\ op'[t] = op[t] /\ pc'[t] = pc[t] /\ ins'[t] = ins[t] /\ del'[t] = del[t]
          /\ mlock[u] = t /\ mnew'[u] = mnew[u]
      BY <1>2, SessionFrame
    <2>2. meta'[u] = meta[u] /\ erased \subseteq erased' /\ (u \in erased' \/ Of(live', u) = Of(live, u))
      BY <1>2, <2>1, TablesFrame
    <2>3. Stored(u)' = Stored(u)
      BY <2>2 DEF Stored
    <2>4. u \notin erased' => Of(View(t), u)' = Of(View(t), u)
      BY <2>1, <2>2 DEF View, Of
    <2> QED
      BY <2>1, <2>2, <2>3, <2>4 DEF LockedBounds, HoldsBounds
  <1>3. ASSUME NEW u \in Users, mlock'[u] = s
        PROVE  HoldsBounds(s, u)'
    <2>1. CASE StartStep(s)
      BY <1>3, <2>1, StartFrame
    <2>2. CASE InsertRow(s) \/ DeleteRow(s) \/ Compare(s)
      <3>1. mlock' = mlock /\ (rows[s] # <<>> \/ pc[s] = "compare")
        BY <2>2 DEF InsertRow, DeleteRow, Compare, locks
      <3> QED
        BY <1>3, <3>1 DEF IInv, CountsInductive, LockedMeta, HoldsMeta
    <2>3. CASE AddCount(s) \/ SubtractCount(s) \/ LockMeta(s)
      <3>1. UNCHANGED <<op, pc, ins, del, meta>> /\ RowsDone(s)
        BY <2>3 DEF AddCount, SubtractCount, LockMeta, session, committed
      <3>2. PICK v \in Users :
              \E m : /\ NextToLock(s, v) /\ WriteMeta(s, v, m)
                     /\ op[s] = "insert" => m = WidenedMeta(s, v)
                     /\ op[s] \in {"insert", "deletePending", "deleteUser", "recalculate"}
        BY <2>3 DEF AddCount, SubtractCount, LockMeta
      <3>6. PICK m : /\ WriteMeta(s, v, m)
                     /\ op[s] = "insert" => m = WidenedMeta(s, v)
        BY <3>2
      <3>3. Stored(u)' = Stored(u)
        BY <3>1 DEF Stored
      <3>4. CASE u = v
        <4>1. mnew'[u] = m
          BY <1>1, <3>4, <3>6 DEF WriteMeta
        <4>2. op[s] = "deletePending" => Of(del[s], u) # {}
          BY <3>2, <3>4 DEF NextToLock, ToLock, Of
        <4> QED
          BY <3>1, <3>2, <3>3, <3>4, <3>6, <4>1, <4>2
             DEF HoldsBounds, WidenedMeta, Actual, Ats, RowsDone
      <3>5. CASE u # v
        <4>1. mlock[u] = s /\ mnew'[u] = mnew[u]
          BY <1>1, <1>3, <3>2, <3>5 DEF WriteMeta
        <4> QED
          BY <3>1, <3>3, <4>1 DEF LockedBounds, HoldsBounds, RowsDone
      <3> QED
        BY <3>4, <3>5
    <2>4. CASE RefreshBounds(s) \/ RefreshMeta(s)
      <3>1. /\ UNCHANGED <<mlock, op, ins, del, live, meta, erased>> /\ mlock[u] = s
            /\ op[s] \in {"deletePending", "deleteUser", "recalculate"}
        BY <1>3, <2>4 DEF RefreshBounds, RefreshMeta, committed, tracked
      <3>2. Spans(mnew'[u], Of(View(s), u))
        <4>1. CASE RefreshBounds(s)
          <5>1. mnew[u] \in MetaRow
            <6>1. op[s] = "deletePending" /\ HoldsMeta(s, u)
              BY <3>1, <4>1 DEF RefreshBounds, IInv, CountsInductive, LockedMeta
            <6>2. mnew \in [Users -> MetaRow \cup {Null}]
              BY DEF IInv, TypeInv, LocksOK
            <6> QED
              BY <6>1, <6>2 DEF HoldsMeta
          <5>2. mnew'[u] = [mnew[u] EXCEPT !.min = Actual(Of(View(s), u)).min,
                                           !.max = Actual(Of(View(s), u)).max]
            BY <3>1, <4>1 DEF RefreshBounds
          <5> QED
            BY <5>1, <5>2 DEF Spans, Actual, Ats, MetaRow
        <4>2. CASE RefreshMeta(s)
          <5>1. mnew'[u] = Actual(Of(View(s), u))
            BY <3>1, <4>2 DEF RefreshMeta
          <5> QED
            BY <5>1 DEF Spans, Actual, Ats
        <4> QED
          BY <2>4, <4>1, <4>2
      <3>3. View(s)' = View(s)
        BY <3>1 DEF View
      <3>4. op[s] = "deletePending" => Of(del[s], u) # {}
        BY <3>1 DEF LockedBounds, HoldsBounds
      <3> QED
        BY <3>1, <3>2, <3>3, <3>4 DEF HoldsBounds
    <2>5. CASE DropMeta(s)
      BY <1>1, <2>5 DEF DropMeta, HoldsBounds
    <2>6. CASE AddMissingRow(s)
      <3>1. op'[s] = "addMissing"
        BY <2>6 DEF AddMissingRow
      <3>2. mnew'[u] = EmptyMeta
        <4>1. PICK v \in Users : IF meta[v] = Null THEN WriteMeta(s, v, EmptyMeta) ELSE UNCHANGED <<mlock, mnew>>
          BY <2>6 DEF AddMissingRow
        <4>2. CASE u = v /\ meta[v] = Null
          BY <1>1, <4>1, <4>2 DEF WriteMeta
        <4>3. CASE ~ (u = v /\ meta[v] = Null)
          <5>1. mlock[u] = s /\ mnew'[u] = mnew[u]
            BY <1>1, <1>3, <4>1, <4>3 DEF WriteMeta
          <5> QED
            BY <3>1, <2>6, <5>1 DEF AddMissingRow, LockedBounds, HoldsBounds
        <4> QED
          BY <4>2, <4>3
      <3> QED
        BY <3>1, <3>2 DEF HoldsBounds
    <2> QED
      BY <2>1, <2>2, <2>3, <2>4, <2>5, <2>6 DEF SessionStep, Step, StartStep, CommitStep
  <1> QED
    BY <1>2, <1>3 DEF LockedBounds

\* What a commit publishes for a user whose count it tracks has the bounds of the rows it
\* publishes.
LEMMA PublishedBounds ==
    ASSUME IInv, LockedBounds, BoundsRight, NEW s \in Sessions, CommitStep(s),
           NEW u \in synced', u \notin erased', mlock[u] = s, u \in Users
    PROVE  mnew[u] # Null /\ Spans(mnew[u], Of(live', u))
  <1> USE DEF IInv, CountsInductive, TypeInv
  <1>1. live' = (live \ del[s]) \cup ins[s] /\ live' = View(s)
    BY DEF CommitStep, CommitInsert, CommitDeletePending, CommitDeleteUser, CommitAddMissing,
           CommitRecalculate, Publish, View
  <1>2. (ins[s] # {} => op[s] = "insert") /\ (del[s] # {} => op[s] \in Deletes)
    BY DEF RowsOwned
  <1>3. HoldsMeta(s, u) /\ HoldsBounds(s, u)
    BY DEF LockedMeta, LockedBounds
  <1>4. u \notin erased
    BY DEF CommitStep, CommitInsert, CommitDeletePending, CommitDeleteUser, CommitAddMissing,
           CommitRecalculate, tracked
  <1>5. CASE CommitInsert(s)
    <2>1. op[s] = "insert" /\ live' = live \cup ins[s] /\ u \in synced
      BY <1>1, <1>2, <1>5 DEF CommitInsert, Deletes, tracked
    <2>2. Stored(u).min = Lowest(Ats(Of(live, u))) /\ Stored(u).max = Highest(Ats(Of(live, u)))
      BY <2>1 DEF BoundsRight, Ats
    <2>3. /\ Ats(Of(live, u)) \in SUBSET Nat /\ IsFiniteSet(Ats(Of(live, u)))
          /\ Ats(Of(ins[s], u)) \in SUBSET Nat /\ IsFiniteSet(Ats(Of(ins[s], u)))
      BY AtsFinite DEF TablesOK, SessionsOK
    <2>4. Ats(Of(live', u)) = Ats(Of(live, u)) \cup Ats(Of(ins[s], u))
      BY <2>1 DEF Ats, Of
    <2> QED
      BY <1>3, <2>1, <2>2, <2>3, <2>4, SpanOfUnion DEF HoldsMeta, HoldsBounds, Spans
  <1>6. CASE CommitDeletePending(s)
    <2>1. op[s] = "deletePending" /\ pc[s] = "ready"
      BY <1>3, <1>6 DEF CommitDeletePending, HoldsBounds, Of
    <2> QED
      BY <1>1, <1>3, <1>4, <2>1 DEF HoldsMeta, HoldsBounds
  <1>7. CASE CommitDeleteUser(s)
    <2>1. op[s] = "deleteUser" /\ pc[s] = "ready"
      BY <1>3, <1>7 DEF CommitDeleteUser, HoldsMeta
    <2> QED
      BY <1>1, <1>3, <1>4, <2>1 DEF HoldsMeta, HoldsBounds
  <1>8. CASE CommitAddMissing(s)
    <2>1. op[s] = "addMissing" /\ live' = live /\ u \in synced
      BY <1>1, <1>2, <1>8 DEF CommitAddMissing, Deletes, tracked
    <2>2. mnew[u] = Stored(u) /\ mnew[u] # Null
      BY <1>3, <2>1 DEF HoldsMeta, HoldsBounds, Stored
    <2> QED
      BY <2>1, <2>2 DEF BoundsRight, Spans, Ats
  <1>9. CASE CommitRecalculate(s)
    <2>1. op[s] = "recalculate" /\ pc[s] = "ready"
      BY <1>3, <1>9 DEF CommitRecalculate, HoldsMeta
    <2> QED
      BY <1>1, <1>3, <1>4, <2>1 DEF HoldsMeta, HoldsBounds
  <1> QED
    BY <1>5, <1>6, <1>7, <1>8, <1>9 DEF CommitStep

LEMMA BoundsStep ==
    ASSUME IInv, IInv', LockedBounds, BoundsRight, NEW s \in Sessions, SessionStep(s)
    PROVE  BoundsRight'
  <1> SUFFICES ASSUME NEW u \in synced'
               PROVE  Spans(Stored(u), Of(live, u))'
    BY DEF BoundsRight, Spans, Ats
  <1> USE DEF IInv, CountsInductive, TypeInv
  <1>1. u \in Users /\ u \notin erased'
    BY DEF TrackedOK
  <1>2. u \in synced => Spans(Stored(u), Of(live, u))
    BY DEF BoundsRight, Spans, Ats
  <1>3. CASE CommitStep(s)
    <2>1. CASE mlock[u] = s
      <3>1. mnew[u] # Null /\ Spans(mnew[u], Of(live', u))
        BY <1>1, <1>3, <2>1, PublishedBounds
      <3>2. meta'[u] = mnew[u]
        BY <1>1, <1>3, <2>1 DEF CommitStep, CommitInsert, CommitDeletePending, CommitDeleteUser,
                                CommitAddMissing, CommitRecalculate, Publish
      <3>3. Stored(u)' = mnew[u]
        BY <3>1, <3>2 DEF Stored
      <3> QED
        BY <3>1, <3>3 DEF Spans, Of, Ats
    <2>2. CASE mlock[u] # s
      <3>1. u \in synced
        <4>1. CASE CommitDeleteUser(s)
          BY <1>1, <2>2, <4>1 DEF CommitDeleteUser, ReadyLocked
        <4>2. CASE CommitRecalculate(s)
          BY <1>1, <2>2, <4>2 DEF CommitRecalculate, ReadyLocked
        <4> QED
          BY <1>3, <4>1, <4>2 DEF CommitStep, CommitInsert, CommitDeletePending, CommitAddMissing, tracked
      <3>2. meta'[u] = meta[u] /\ Of(live', u) = Of(live, u)
        BY <1>1, <1>3, <2>2, TablesFrame DEF SessionStep, Step, CommitStep
      <3> QED
        BY <1>2, <3>1, <3>2 DEF Spans, Stored, Of, Ats
    <2> QED
      BY <2>1, <2>2
  <1>4. CASE Compare(s)
    <2>1. UNCHANGED <<live, meta>> /\ op[s] = "recalculate"
      BY <1>4 DEF Compare, committed
    <2>2. CASE u \in synced
      BY <1>2, <2>1, <2>2 DEF Spans, Stored, Of, Ats
    <2>3. CASE u \notin synced
      <3>1. meta[u] # Null /\ meta[u] = Actual(Of(live, u))
        BY <1>4, <2>3 DEF Compare
      <3>2. Spans(Stored(u), Of(live, u))
        BY <3>1 DEF Spans, Stored, Actual, Ats
      <3> QED
        BY <2>1, <3>2 DEF Spans, Stored, Of, Ats
    <2> QED
      BY <2>2, <2>3
  <1>5. CASE ~ CommitStep(s) /\ ~ Compare(s)
    <2>1. UNCHANGED <<live, meta, synced>>
      BY <1>5 DEF SessionStep, CommitStep, Begin, Step, BeginInsert, BeginDeletePending, BeginDeleteUser,
                  BeginAddMissing, BeginRecalculate, InsertRow, DeleteRow, AddCount, SubtractCount, LockMeta,
                  RefreshBounds, RefreshMeta, DropMeta, AddMissingRow, Rollback, DeadlockVictim,
                  Abort, committed, tracked
    <2> QED
      BY <1>2, <2>1 DEF Spans, Stored, Of, Ats
  <1> QED
    BY <1>3, <1>4, <1>5

\* The bounds that reads use to page through a history are those of the listens of the user,
\* once they are right and until the account is deleted: insertions widen them, deletions and
\* recalculation read them again under the lock of the row.
THEOREM BoundsCorrect == Spec => []BoundsRight
  <1> DEFINE Inv == IInv /\ LockedBounds /\ BoundsRight
  <1>1. Init => LockedBounds /\ BoundsRight
    <2> SUFFICES ASSUME Init PROVE LockedBounds /\ BoundsRight
      OBVIOUS
    <2>1. LockedBounds
      BY NullAssumption DEF Init, LockedBounds
    <2>2. BoundsRight
      BY DEF Init, BoundsRight, Actual
    <2> QED
      BY <2>1, <2>2
  <1>2. Inv /\ [Next]_vars => Inv'
    <2> SUFFICES ASSUME IInv, IInv', LockedBounds, BoundsRight, [Next]_vars
                 PROVE  LockedBounds' /\ BoundsRight'
      BY IInvStep
    <2>1. CASE QueueDeletion \/ UNCHANGED vars
      <3>1. UNCHANGED <<op, pc, ins, del, mlock, mnew, live, meta, erased, synced>>
        BY <2>1 DEF QueueDeletion, vars, locks, session, committed, tracked
      <3>2. LockedBounds'
        BY <3>1 DEF LockedBounds, HoldsBounds, Stored, View
      <3>3. BoundsRight'
        BY <3>1 DEF BoundsRight, Stored
      <3> QED
        BY <3>2, <3>3
    <2> QED
      BY <2>1, LockedBoundsStep, BoundsStep DEF Next, SessionStep
  <1> QED
    BY <1>1, <1>2, IInvInit, PTL DEF Spec
=============================================================================
