------------------------ MODULE BackgroundTasksProofs ------------------------
(***************************************************************************)
(* Proofs about BackgroundTasks, for any workers, exports, imports,        *)
(* services, tasks and failures.                                           *)
(***************************************************************************)
EXTENDS BackgroundTasks, TLAPS

-----------------------------------------------------------------------------
(* Tasks and workers. *)

Refs == Exports \cup Imports \cup Nat

TaskRows == [id : Nat, ref : Refs, claim : {"no", "yes", "expired"}]

Helds == [kind : Kinds, id : Nat, ref : Refs]

ExportRows == [status : Statuses, file : Nat \cup {None}]

ImportRows == [status : Statuses, service : Services \cup {None}]

Tables ==
    /\ task \in [Kinds -> TaskRows \cup {None}]
    /\ last \in Nat
    /\ held \in [Workers -> Helds \cup {None}]
    /\ wpc \in [Workers -> Pcs]
    /\ \A w \in Workers : wpc[w] = "idle" <=> held[w] = None
    /\ heard \in Nat
    /\ asking \in [Imports -> Services \cup {None, "answered"}]
    /\ \A i \in Imports : asking[i] # None => "import" \in Kinds
    /\ export \in [Exports -> ExportRows]
    /\ import \in [Imports -> ImportRows]
    /\ names \in Nat

\* The steps of a worker within a task of its own kind.
ImportSteps == {"load import", "begin import", "fetch file", "submit listens", "finish import",
                "fail import", "unlink file", "unlink and release", "unlink and exit"}

ExportSteps == {"load export", "begin export", "upload archive", "finish export", "fail export"}

DeletionSteps == {"delete listens", "delete user"}

\* A worker goes on with the task that it holds, ...
Proceeds(w) ==
    \E p \in Pcs \ {"idle"} :
        /\ Working(w)
        /\ p \in ImportSteps => wpc[w] \in ImportSteps
        /\ p \in ExportSteps => wpc[w] \in ExportSteps
        /\ p \in DeletionSteps => wpc[w] \in DeletionSteps
        /\ p # "unlink and exit"
        /\ Goto(w, p) /\ held' = held
        /\ UNCHANGED last

\* (the row of the task it has worked on is released or removed)
Leaving(w) == UNCHANGED task \/ (Working(w) /\ task' \in {Released(w), Removed(w)})

\* ... exits, ...
Exits(w) ==
    /\ wpc[w] \in ImportSteps /\ Working(w)
    /\ Goto(w, "unlink and exit") /\ held' = held /\ Leaving(w) /\ UNCHANGED last

\* ... or leaves it.
Leaves(w) ==
    /\ wpc[w] # "idle"
    /\ Goto(w, "idle") /\ held' = [held EXCEPT ![w] = None] /\ UNCHANGED last
    /\ Leaving(w)

Takes(w) ==
    /\ wpc[w] = "idle" /\ UNCHANGED last
    /\ \E k \in Claimable :
          /\ task' = [task EXCEPT ![k].claim = "yes"]
          /\ held' = [held EXCEPT ![w] = [kind |-> k, id |-> task[k].id, ref |-> task[k].ref]]
          /\ Goto(w, FirstStep(k))

\* What a task of a kind refers to: a row, or the time of the request.
Fits(k, ref, time) ==
    /\ k = "import" => ref \in Imports
    /\ k = "export" => ref \in Exports
    /\ k \in {"history", "account"} => ref \in Nat /\ ref <= time

\* The row that a task refers to has been asked for.
Made(k, ref) ==
    /\ k = "import" => asking[ref] = "answered"
    /\ k = "export" => export[ref].status # "none"

\* A task for a row that had no task before.
NewTask(k, ref) ==
    /\ ~Queued(k) /\ Fits(k, ref, asked')
    /\ k \in {"import", "export"} => ~Made(k, ref)
    /\ Made(k, ref)'
    /\ AddTask(k, ref)

RowsGo == \A k \in Kinds : task'[k] \in {task[k], None}

TaskSteps ==
    \/ UNCHANGED <<task, last, wpc, held>>
    \/ UNCHANGED <<last, wpc, held>> /\ task' \in [Kinds -> TaskRows \cup {None}] /\ RowsGo
    \/ \E k \in Kinds, ref \in Refs : NewTask(k, ref) /\ UNCHANGED <<wpc, held>>
    \/ \E k \in Kinds : ExpireClaim(k)
    \/ \E w \in Workers : Proceeds(w) /\ (UNCHANGED task \/ task' = [k \in Kinds |-> None])
    \/ \E w \in Workers : Exits(w) \/ Leaves(w) \/ Takes(w)

LEMMA RequestTasks ==
  ASSUME Tables, Request PROVE TaskSteps /\ heard' \in Nat
<1> USE DEF Tables
<1>0. UNCHANGED <<wpc, held>>
  BY DEF Request, RequestExport, DeleteExport, RequestImport, UploadFile, CreateImport,
      ImportRequestFails, CancelImport, CommitCancel, CancelFails, RequestDeletion, Hear, worker
<1>1. ASSUME NEW k \in Kinds, NEW ref \in Refs, AddTask(k, ref), NewTask(k, ref) \/ Queued(k) PROVE TaskSteps
  BY <1>0, <1>1 DEF AddTask, TaskSteps
<1>2. ASSUME NEW k, NEW ref, DropTask(k, ref), UNCHANGED last PROVE TaskSteps
  BY <1>0, <1>2 DEF DropTask, HasTask, RowsGo, TaskSteps
<1>3. UNCHANGED <<task, last>> => TaskSteps
  BY <1>0 DEF TaskSteps
<1>4. ASSUME NEW e \in Exports, RequestExport(e) \/ DeleteExport(e) PROVE TaskSteps /\ heard' = heard
  <2>1. RequestExport(e) => NewTask("export", e) /\ e \in Refs
    BY DEF RequestExport, NewTask, Fits, Made, Status, Refs, Tables, ExportRows
  <2> QED
    BY <1>1, <1>2, <1>4, <2>1 DEF RequestExport, DeleteExport, user
<1>5. ASSUME NEW i \in Imports,
             \/ RequestImport(i) \/ UploadFile(i) \/ CreateImport(i) \/ ImportRequestFails(i)
             \/ CancelImport(i) \/ CommitCancel(i) \/ CancelFails(i)
      PROVE TaskSteps /\ heard' = heard
  <2>1. CASE CreateImport(i)
    <3>1. "import" \in Kinds /\ asking[i] # "answered" /\ asking'[i] = "answered" /\ i \in Refs
      BY <2>1, ServicesAssumption DEF CreateImport, Refs
    <3>2. AddTask("import", i) => NewTask("import", i) \/ Queued("import")
      BY <3>1 DEF NewTask, Fits, Made
    <3> QED
      BY <1>1, <1>3, <2>1, <3>1, <3>2 DEF CreateImport, user
  <2>2. CASE CommitCancel(i)
    BY <1>2, <2>2 DEF CommitCancel, user
  <2>3. CASE RequestImport(i) \/ UploadFile(i) \/ ImportRequestFails(i) \/ CancelImport(i) \/ CancelFails(i)
    BY <1>3, <2>3 DEF RequestImport, UploadFile, ImportRequestFails, CancelImport, CancelFails, user, rows
  <2> QED
    BY <1>5, <2>1, <2>2, <2>3
<1>6. ASSUME NEW k \in Kinds, RequestDeletion(k) PROVE TaskSteps /\ heard' = heard
  <2>1. heard \in Refs /\ AddTask(k, heard) /\ UNCHANGED user
    BY <1>6 DEF Refs, RequestDeletion
  <2>2. NewTask(k, heard) \/ Queued(k)
    BY <1>6, <2>1 DEF NewTask, Fits, Made, RequestDeletion
  <2> QED
    BY <1>1, <2>1, <2>2 DEF user
<1>7. Hear => TaskSteps /\ heard' \in Nat
  BY <1>3 DEF Hear, rows
<1> QED
  BY <1>4, <1>5, <1>6, <1>7 DEF Request

\* What the steps of a worker do to its task.
LEMMA WorkerTasks ==
  ASSUME Tables, NEW w \in Workers, WorkerStep(w) \/ Fail(w)
  PROVE  /\ \/ Proceeds(w) /\ (UNCHANGED task \/ task' = [k \in Kinds |-> None])
            \/ Leaves(w)
         /\ UNCHANGED <<heard, asking>>
<1> USE DEF Tables, Goto, Pcs, ImportSteps, ExportSteps, DeletionSteps, Working
<1>1. CASE Release(w) \/ Remove(w)
  BY <1>1 DEF Release, Remove, GoIdle, Leaves, Leaving, user, web
<1>2. CASE LoadImport(w) \/ FetchFile(w) \/ SubmitListens(w)
  BY <1>2 DEF LoadImport, FetchFile, SubmitListens, Proceeds, rows, user, web
<1>3. CASE BeginImport(w) \/ FinishImport(w) \/ FailImport(w)
  BY <1>3 DEF BeginImport, FinishImport, FailImport, SetImport, Proceeds, rows, user, web
<1>4. CASE UnlinkFile(w)
  BY <1>4 DEF UnlinkFile, GoIdle, Proceeds, Leaves, Leaving, rows, user, web
<1>5. CASE LoadExport(w) \/ BeginExport(w) \/ UploadArchive(w)
  BY <1>5 DEF LoadExport, BeginExport, UploadArchive, Proceeds, rows, user, web
<1>6. CASE FinishExport(w) \/ MarkExportFailed(w)
  BY <1>6 DEF FinishExport, MarkExportFailed, SetExport, Proceeds, user, web
<1>7. CASE DeleteListens(w)
  BY <1>7 DEF DeleteListens, Proceeds, rows, web
<1>8. CASE DeleteUser(w)
  BY <1>8 DEF DeleteUser, Proceeds, web
<1>9. CASE Fail(w)
  BY <1>9 DEF Fail, Proceeds, InImport, InExport, rows, user, web
<1> QED
  BY <1>1, <1>2, <1>3, <1>4, <1>5, <1>6, <1>7, <1>8, <1>9 DEF WorkerStep

LEMMA TablesSteps ==
  ASSUME Tables, Next PROVE TaskSteps /\ heard' \in Nat
<1>1. CASE Request
  BY <1>1, RequestTasks
<1>2. ASSUME NEW w \in Workers, Claim(w) PROVE TaskSteps /\ heard' = heard
  BY <1>2 DEF Claim, TaskSteps, Takes, user
<1>3. ASSUME NEW w \in Workers, WorkerStep(w) \/ Fail(w) PROVE TaskSteps /\ heard' = heard
  BY <1>3, WorkerTasks DEF TaskSteps
<1>4. ASSUME NEW w \in Workers, Shutdown(w) PROVE TaskSteps /\ heard' = heard
  <2>1. Exits(w) \/ Leaves(w)
    BY <1>4 DEF Shutdown, Exits, Leaves, Leaving, GoIdle, Goto, Working, ImportSteps, InImport
  <2> QED
    BY <1>4, <2>1 DEF TaskSteps, Shutdown, user
<1>5. ASSUME NEW w \in Workers, Crash(w) PROVE TaskSteps /\ heard' = heard
  BY <1>5 DEF Crash, GoIdle, Leaves, Leaving, TaskSteps, Goto, rows, user
<1>6. ASSUME NEW k \in Kinds, ExpireClaim(k) PROVE TaskSteps /\ heard' = heard
  BY <1>6 DEF ExpireClaim, TaskSteps, user
<1>7. CASE CleanUp
  <2>1. UNCHANGED <<task, last, wpc, held, heard>>
    BY <1>7 DEF CleanUp, ListExports, SweepArchives, AgeFile, ListFiles, SweepFiles, rows, worker, user
  <2> QED
    BY <2>1 DEF TaskSteps, Tables
<1> QED
  BY <1>1, <1>2, <1>3, <1>4, <1>5, <1>6, <1>7 DEF Next, Tables

\* Only requests for imports tell their progress.
LEMMA AskingChanges ==
  ASSUME Tables, Next
  PROVE  UNCHANGED asking \/ \E i \in Imports : RequestImport(i) \/ CreateImport(i) \/ ImportRequestFails(i)
<1>1. CASE Request
  BY <1>1 DEF Request, RequestExport, DeleteExport, UploadFile, CancelImport, CommitCancel, CancelFails,
      RequestDeletion, Hear, web
<1>2. ASSUME NEW w \in Workers, WorkerStep(w) \/ Fail(w) PROVE UNCHANGED asking
  BY <1>2, WorkerTasks
<1>3. ASSUME NEW w \in Workers, Claim(w) \/ Shutdown(w) \/ Crash(w) PROVE UNCHANGED asking
  BY <1>3 DEF Claim, Shutdown, Crash, web
<1>4. ASSUME NEW k \in Kinds, ExpireClaim(k) PROVE UNCHANGED asking
  BY <1>4 DEF ExpireClaim, web
<1>5. CleanUp => UNCHANGED asking
  BY DEF CleanUp, ListExports, SweepArchives, AgeFile, ListFiles, SweepFiles, web
<1> QED
  BY <1>1, <1>2, <1>3, <1>4, <1>5 DEF Next

LEMMA AskingStep ==
  ASSUME Tables, Next
  PROVE  /\ asking' \in [Imports -> Services \cup {None, "answered"}]
         /\ \A i \in Imports : asking'[i] # None => "import" \in Kinds
         /\ \A i \in Imports : asking[i] = "answered" => asking'[i] = "answered"
<1>1. ASSUME NEW i \in Imports, RequestImport(i)
      PROVE  "import" \in Kinds /\ asking[i] = None /\ \E s \in Services : asking' = [asking EXCEPT ![i] = s]
  BY <1>1 DEF RequestImport
<1>2. ASSUME NEW i \in Imports, CreateImport(i) \/ ImportRequestFails(i)
      PROVE asking[i] \in Services /\ asking' = [asking EXCEPT ![i] = "answered"]
  BY <1>2 DEF CreateImport, ImportRequestFails
<1> QED
  BY <1>1, <1>2, AskingChanges, ServicesAssumption DEF Tables

\* What becomes of the rows of imports and exports, and by which steps.
LEMMA ImportChanges ==
  ASSUME Next
  PROVE  \/ UNCHANGED import
         \/ \E i \in Imports : CreateImport(i) \/ CommitCancel(i)
         \/ \E w \in Workers : BeginImport(w) \/ FinishImport(w) \/ FailImport(w) \/ DeleteUser(w)
<1>1. CASE Request
  BY <1>1 DEF Request, RequestExport, DeleteExport, RequestImport, UploadFile, ImportRequestFails,
      CancelImport, CancelFails, RequestDeletion, Hear, rows
<1>2. ASSUME NEW w \in Workers, WorkerStep(w)
      PROVE  UNCHANGED import \/ BeginImport(w) \/ FinishImport(w) \/ FailImport(w) \/ DeleteUser(w)
  BY <1>2 DEF WorkerStep, Release, Remove, LoadImport, FetchFile, SubmitListens, UnlinkFile, LoadExport,
      BeginExport, UploadArchive, FinishExport, SetExport, MarkExportFailed, DeleteListens, rows
<1>3. ASSUME NEW w \in Workers, Claim(w) \/ Fail(w) \/ Shutdown(w) \/ Crash(w) PROVE UNCHANGED import
  BY <1>3 DEF Claim, Fail, Shutdown, Crash, rows
<1>4. ASSUME NEW k \in Kinds, ExpireClaim(k) PROVE UNCHANGED import
  BY <1>4 DEF ExpireClaim
<1>5. CleanUp => UNCHANGED import
  BY DEF CleanUp, ListExports, SweepArchives, AgeFile, ListFiles, SweepFiles, rows
<1> QED
  BY <1>1, <1>2, <1>3, <1>4, <1>5 DEF Next

LEMMA ExportChanges ==
  ASSUME Next
  PROVE  \/ UNCHANGED export
         \/ \E e \in Exports : RequestExport(e) \/ DeleteExport(e)
         \/ \E w \in Workers : BeginExport(w) \/ FinishExport(w) \/ MarkExportFailed(w) \/ DeleteUser(w)
         \/ ListExports
<1>1. CASE Request
  BY <1>1 DEF Request, RequestImport, UploadFile, CreateImport, ImportRequestFails, CancelImport, CommitCancel,
      CancelFails, RequestDeletion, Hear, rows
<1>2. ASSUME NEW w \in Workers, WorkerStep(w)
      PROVE  UNCHANGED export \/ BeginExport(w) \/ FinishExport(w) \/ MarkExportFailed(w) \/ DeleteUser(w)
  BY <1>2 DEF WorkerStep, Release, Remove, LoadImport, BeginImport, SetImport, FinishImport, FailImport,
      FetchFile, SubmitListens, UnlinkFile, LoadExport, UploadArchive, DeleteListens, rows
<1>3. ASSUME NEW w \in Workers, Claim(w) \/ Fail(w) \/ Shutdown(w) \/ Crash(w) PROVE UNCHANGED export
  BY <1>3 DEF Claim, Fail, Shutdown, Crash, rows
<1>4. ASSUME NEW k \in Kinds, ExpireClaim(k) PROVE UNCHANGED export
  BY <1>4 DEF ExpireClaim
<1>5. CleanUp => UNCHANGED export \/ ListExports
  BY DEF CleanUp, SweepArchives, AgeFile, ListFiles, SweepFiles, rows
<1> QED
  BY <1>1, <1>2, <1>3, <1>4, <1>5 DEF Next

\* An UPDATE by id.
LEMMA UpdatedImport ==
  ASSUME Tables, NEW i, NEW st \in {"in_progress", "completed", "failed", "deleted"}, import' = Update(import, i, st)
  PROVE  /\ import' \in [Imports -> ImportRows]
         /\ \A j \in Imports \ {i} : import'[j] = import[j]
         /\ i \in Imports => import'[i].status = IF import[i].status \in {"none", "deleted"} THEN import[i].status ELSE st
  BY DEF Tables, Update, Status, ImportRows, Statuses, Unfinished, FINISHED_STATUSES

LEMMA UpdatedExport ==
  ASSUME Tables, NEW i, NEW st \in {"completed", "failed", "deleted"}, export' = Update(export, i, st)
  PROVE  /\ export' \in [Exports -> ExportRows]
         /\ \A j \in Exports \ {i} : export'[j] = export[j]
         /\ i \in Exports => export'[i].status = IF export[i].status \in {"none", "deleted"} THEN export[i].status ELSE st
  BY DEF Tables, Update, Status, ExportRows, Statuses, Unfinished, FINISHED_STATUSES

LEMMA ImportRowsStep == ASSUME Tables, Next PROVE import' \in [Imports -> ImportRows]
<1>1. ASSUME NEW i \in Imports, CreateImport(i) PROVE import' \in [Imports -> ImportRows]
  BY <1>1 DEF CreateImport, Tables, ImportRows, Statuses, Unfinished
<1>2. ASSUME NEW i \in Imports, CommitCancel(i) PROVE import' \in [Imports -> ImportRows]
  BY <1>2, UpdatedImport DEF CommitCancel
<1>3. ASSUME NEW w \in Workers, BeginImport(w) \/ FinishImport(w) \/ FailImport(w)
      PROVE import' \in [Imports -> ImportRows]
  <2>1. UNCHANGED import \/ \E st \in {"in_progress", "completed", "failed"} : import' = Update(import, Import(w), st)
    BY <1>3 DEF BeginImport, FinishImport, FailImport, SetImport, rows
  <2> QED
    BY <2>1, UpdatedImport DEF Tables
<1>4. ASSUME NEW w \in Workers, DeleteUser(w) PROVE import' \in [Imports -> ImportRows]
  BY <1>4 DEF DeleteUser, Update, Status, Tables, ImportRows, Statuses
<1>5. UNCHANGED import => import' \in [Imports -> ImportRows]
  BY DEF Tables
<1> QED
  BY <1>1, <1>2, <1>3, <1>4, <1>5, ImportChanges

LEMMA ExportRowsStep == ASSUME Tables, Next PROVE export' \in [Exports -> ExportRows] /\ names' \in Nat
<1>1. ASSUME NEW e \in Exports, RequestExport(e) \/ DeleteExport(e) PROVE export' \in [Exports -> ExportRows]
  BY <1>1 DEF RequestExport, DeleteExport, Status, Tables, ExportRows, Statuses, Unfinished
<1>2. ASSUME NEW w \in Workers, BeginExport(w) PROVE export' \in [Exports -> ExportRows] /\ names' \in Nat
  <2>1. names' = names + 1 /\ names \in Nat
    BY <1>2 DEF BeginExport, Tables
  <2>2. [status |-> "in_progress", file |-> names + 1] \in ExportRows
    BY <2>1 DEF ExportRows, Statuses, Unfinished
  <2>3. \/ UNCHANGED export
        \/ export' = [export EXCEPT ![Export(w)] = [status |-> "in_progress", file |-> names + 1]]
    BY <1>2 DEF BeginExport
  <2> QED
    BY <2>1, <2>2, <2>3 DEF Tables
<1>3. ASSUME NEW w \in Workers, FinishExport(w) \/ MarkExportFailed(w) PROVE export' \in [Exports -> ExportRows]
  BY <1>3, UpdatedExport DEF FinishExport, MarkExportFailed, SetExport
<1>4. ASSUME NEW w \in Workers, DeleteUser(w) PROVE export' \in [Exports -> ExportRows]
  BY <1>4 DEF DeleteUser, Update, Status, Tables, ExportRows, Statuses
<1>5. ListExports => export' \in [Exports -> ExportRows]
  BY DEF ListExports, Status, Tables, ExportRows, Statuses
<1>6. \/ UNCHANGED names
      \/ \E w \in Workers : BeginExport(w)
  <2>1. Request \/ CleanUp => UNCHANGED names
    BY DEF Request, RequestExport, DeleteExport, RequestImport, UploadFile, CreateImport, ImportRequestFails,
        CancelImport, CommitCancel, CancelFails, RequestDeletion, Hear, CleanUp, ListExports, SweepArchives,
        AgeFile, ListFiles, SweepFiles, worker
  <2>2. ASSUME NEW w \in Workers, WorkerStep(w) PROVE UNCHANGED names \/ BeginExport(w)
    BY <2>2 DEF WorkerStep, Release, Remove, GoIdle, LoadImport, BeginImport, SetImport, FinishImport, FailImport,
        FetchFile, SubmitListens, UnlinkFile, LoadExport, UploadArchive, FinishExport, SetExport,
        MarkExportFailed, DeleteListens, DeleteUser
  <2>3. ASSUME NEW w \in Workers, Claim(w) \/ Fail(w) \/ Shutdown(w) \/ Crash(w) PROVE UNCHANGED names
    BY <2>3 DEF Claim, Fail, Shutdown, Crash, GoIdle
  <2>4. ASSUME NEW k \in Kinds, ExpireClaim(k) PROVE UNCHANGED names
    BY <2>4 DEF ExpireClaim, worker
  <2> QED
    BY <2>1, <2>2, <2>3, <2>4 DEF Next
<1> QED
  BY <1>1, <1>2, <1>3, <1>4, <1>5, <1>6, ExportChanges DEF Tables

LEMMA TablesStep == ASSUME Tables, [Next]_vars PROVE Tables'
<1> USE DEF Tables
<1>1. CASE UNCHANGED vars
  BY <1>1 DEF vars, rows, worker, user, web, ExportRows, ImportRows
<1>2. CASE Next
  <2>1. TaskSteps /\ heard' \in Nat
    BY <1>2, TablesSteps
  <2>2. /\ task' \in [Kinds -> TaskRows \cup {None}] /\ last' \in Nat
        /\ held' \in [Workers -> Helds \cup {None}]
        /\ wpc' \in [Workers -> Pcs]
        /\ \A w \in Workers : wpc'[w] = "idle" <=> held'[w] = None
    <3>1. CASE UNCHANGED <<task, last, wpc, held>>
      BY <3>1
    <3>2. CASE UNCHANGED <<last, wpc, held>> /\ task' \in [Kinds -> TaskRows \cup {None}] /\ RowsGo
      BY <3>2
    <3>3. CASE \E k \in Kinds, ref \in Refs : NewTask(k, ref) /\ UNCHANGED <<wpc, held>>
      BY <3>3 DEF NewTask, AddTask, TaskRows
    <3>4. CASE \E k \in Kinds : ExpireClaim(k)
      BY <3>4 DEF ExpireClaim, TaskRows, Queued, rows, worker
    <3>5. CASE \E w \in Workers : Proceeds(w) /\ (UNCHANGED task \/ task' = [k \in Kinds |-> None])
      BY <3>5 DEF Proceeds, Goto, Working
    <3>6. ASSUME NEW w \in Workers
          PROVE  Released(w) \in [Kinds -> TaskRows \cup {None}] /\ Removed(w) \in [Kinds -> TaskRows \cup {None}]
      BY DEF Released, Removed, TaskRows, Mine, Queued
    <3>7. CASE \E w \in Workers : Exits(w)
      <4>1. PICK w \in Workers : Exits(w)
        BY <3>7
      <4>2. task' \in [Kinds -> TaskRows \cup {None}]
        BY <3>6, <4>1 DEF Exits, Leaving
      <4>3. wpc' = [wpc EXCEPT ![w] = "unlink and exit"] /\ UNCHANGED <<held, last>> /\ wpc[w] # "idle"
        BY <4>1 DEF Exits, Goto, Working
      <4>4. wpc' \in [Workers -> Pcs]
        BY <4>3 DEF Pcs
      <4> QED
        BY <4>2, <4>3, <4>4
    <3>8. CASE \E w \in Workers : Leaves(w)
      <4>1. PICK w \in Workers : Leaves(w)
        BY <3>8
      <4>2. task' \in [Kinds -> TaskRows \cup {None}]
        BY <3>6, <4>1 DEF Leaves, Leaving
      <4>3. wpc' = [wpc EXCEPT ![w] = "idle"] /\ held' = [held EXCEPT ![w] = None] /\ UNCHANGED last
        BY <4>1 DEF Leaves, Goto
      <4>4. wpc' \in [Workers -> Pcs]
        BY <4>3 DEF Pcs
      <4> QED
        BY <4>2, <4>3, <4>4
    <3>9. CASE \E w \in Workers : Takes(w)
      <4>1. PICK w \in Workers : Takes(w)
        BY <3>9
      <4>2. PICK k \in Claimable :
              /\ task' = [task EXCEPT ![k].claim = "yes"]
              /\ held' = [held EXCEPT ![w] = [kind |-> k, id |-> task[k].id, ref |-> task[k].ref]]
              /\ Goto(w, FirstStep(k))
        BY <4>1 DEF Takes
      <4>3. k \in Kinds /\ task[k] \in TaskRows
        BY DEF Claimable, Queued
      <4>4. [kind |-> k, id |-> task[k].id, ref |-> task[k].ref] \in Helds
        BY <4>3 DEF TaskRows, Helds
      <4>5. FirstStep(k) \in Pcs \ {"idle"}
        BY <4>3, KindsAssumption DEF FirstStep, Pcs
      <4>6. None \notin Helds
        BY NoneAssumption DEF Helds, Refs
      <4>7. task' \in [Kinds -> TaskRows \cup {None}]
        BY <4>2, <4>3 DEF TaskRows
      <4> QED
        BY <4>1, <4>2, <4>4, <4>5, <4>6, <4>7 DEF Takes, Goto
    <3> QED
      BY <2>1, <3>1, <3>2, <3>3, <3>4, <3>5, <3>7, <3>8, <3>9 DEF TaskSteps
  <2> QED
    BY <1>2, <2>1, <2>2, AskingStep, ImportRowsStep, ExportRowsStep
<1> QED
  BY <1>1, <1>2

LEMMA TablesInit == Init => Tables
  BY DEF Init, Tables, Pcs, ExportRows, ImportRows, Statuses

-----------------------------------------------------------------------------
(* A task has one id for ever, and who holds it knows its kind and its reference. *)

Ids ==
    /\ \A k \in Kinds : Queued(k) => task[k].id <= last
    /\ \A w \in Workers : held[w] # None => held[w].id <= last
    /\ \A j, k \in Kinds : Queued(j) /\ Queued(k) /\ task[j].id = task[k].id => j = k
    /\ \A w \in Workers, k \in Kinds : Mine(w, k) => held[w].kind = k /\ held[w].ref = task[k].ref

\* While no task outlasts its claim, its row is claimed for the one worker that works on it.
Exclusive ==
    /\ \A w \in Workers, k \in Kinds : Working(w) /\ Mine(w, k) => task[k].claim = "yes"
    /\ OneWorkerPerTask

\* What becomes of a row.
SameRow(k) == task'[k].id = task[k].id /\ task'[k].ref = task[k].ref

RowBecomes(k) ==
    \/ ~Queued(k)'
    \/ Queued(k) /\ Queued(k)' /\ SameRow(k)
    \/ ~Queued(k) /\ Queued(k)' /\ last' = last + 1 /\ task'[k].id = last' /\ task'[k].claim = "no"

RowsFollow ==
    /\ \A k \in Kinds : RowBecomes(k)
    /\ \A j, k \in Kinds : ~Queued(j) /\ Queued(j)' /\ ~Queued(k) /\ Queued(k)' => j = k
    /\ last' \in Nat /\ last' >= last

LEMMA RowFields ==
  ASSUME NEW row \in TaskRows, NEW c \in {"no", "yes", "expired"}
  PROVE  /\ row # None /\ row.id \in Nat /\ row.ref \in Refs
         /\ [row EXCEPT !.claim = c] \in TaskRows
         /\ [row EXCEPT !.claim = c].id = row.id
         /\ [row EXCEPT !.claim = c].ref = row.ref
         /\ [row EXCEPT !.claim = c].claim = c
         /\ [row EXCEPT !.claim = c] # None
<1>1. None \notin TaskRows
  BY NoneAssumption DEF TaskRows, Refs
<1>2. [row EXCEPT !.claim = c] \in TaskRows
  BY DEF TaskRows
<1> QED
  BY <1>1, <1>2 DEF TaskRows

LEMMA HeldFields ==
  ASSUME NEW k \in Kinds, NEW row \in TaskRows
  PROVE  LET h == [kind |-> k, id |-> row.id, ref |-> row.ref]
         IN  h \in Helds /\ h # None /\ h.kind = k /\ h.id = row.id /\ h.ref = row.ref
<1>1. None \notin Helds
  BY NoneAssumption DEF Helds, Refs
<1> QED
  BY <1>1 DEF Helds, TaskRows

\* A row after its claim was set, or after its worker has left it.
RowKept(k) ==
    /\ Queued(k)' <=> Queued(k)
    /\ Queued(k) => SameRow(k)

RowLeft(w, k) ==
    \/ ~Queued(k)'
    \/ Queued(k) /\ SameRow(k) /\ (task'[k].claim = task[k].claim \/ (Working(w) /\ Mine(w, k)))

LEMMA ClaimSet ==
  ASSUME Tables, NEW k \in Kinds, NEW c \in {"no", "yes", "expired"}, Queued(k),
         task' = [task EXCEPT ![k].claim = c]
  PROVE  /\ \A j \in Kinds : RowKept(j)
         /\ task'[k].claim = c /\ \A j \in Kinds \ {k} : task'[j] = task[j]
<1>1. task[k] \in TaskRows
  BY DEF Tables, Queued
<1>2. task'[k] = [task[k] EXCEPT !.claim = c] /\ \A j \in Kinds \ {k} : task'[j] = task[j]
  BY DEF Tables
<1>3. /\ task[k] # None /\ [task[k] EXCEPT !.claim = c] # None
      /\ [task[k] EXCEPT !.claim = c].id = task[k].id
      /\ [task[k] EXCEPT !.claim = c].ref = task[k].ref
      /\ [task[k] EXCEPT !.claim = c].claim = c
  BY <1>1, RowFields
<1>4. RowKept(k) /\ task'[k].claim = c
  BY <1>2, <1>3 DEF RowKept, SameRow, Queued
<1> QED
  BY <1>2, <1>4 DEF RowKept, SameRow, Queued

LEMMA RowsLeft ==
  ASSUME Tables, NEW w \in Workers, Leaving(w), NEW k \in Kinds
  PROVE  RowLeft(w, k)
<1>1. CASE UNCHANGED task
  BY <1>1 DEF RowLeft, SameRow, Queued
<1>2. CASE task' = Removed(w)
  BY <1>2 DEF RowLeft, SameRow, Queued, Removed
<1>3. CASE Working(w) /\ task' = Released(w)
  <2>1. CASE Mine(w, k)
    <3>1. task[k] \in TaskRows
      BY <2>1 DEF Tables, Mine, Queued
    <3> QED
      BY <1>3, <2>1, <3>1, RowFields DEF RowLeft, SameRow, Queued, Released
  <2>2. CASE ~Mine(w, k)
    BY <1>3, <2>2 DEF RowLeft, SameRow, Queued, Released
  <2> QED
    BY <2>1, <2>2
<1> QED
  BY <1>1, <1>2, <1>3 DEF Leaving

LEMMA RowSteps ==
  ASSUME Tables, TaskSteps
  PROVE  RowsFollow
<1>0. last \in Nat
  BY DEF Tables
<1>1. CASE UNCHANGED <<task, last, wpc, held>>
  BY <1>0, <1>1 DEF RowsFollow, RowBecomes, Queued, SameRow
<1>2. CASE UNCHANGED <<last, wpc, held>> /\ task' \in [Kinds -> TaskRows \cup {None}] /\ RowsGo
  BY <1>0, <1>2 DEF RowsFollow, RowsGo, RowBecomes, Queued, SameRow
<1>3. CASE \E k \in Kinds, ref \in Refs : NewTask(k, ref) /\ UNCHANGED <<wpc, held>>
  BY <1>0, <1>3 DEF RowsFollow, NewTask, AddTask, RowBecomes, Queued, SameRow, Tables
<1>4. ASSUME \A j \in Kinds : RowKept(j), UNCHANGED last PROVE RowsFollow
  BY <1>0, <1>4 DEF RowsFollow, RowKept, RowBecomes
<1>5. ASSUME NEW k \in Kinds, ExpireClaim(k) PROVE \A j \in Kinds : RowKept(j)
  BY <1>5, ClaimSet DEF ExpireClaim
<1>6. CASE \E w \in Workers : Proceeds(w) /\ (UNCHANGED task \/ task' = [k \in Kinds |-> None])
  <2>1. UNCHANGED last /\ (UNCHANGED task \/ \A k \in Kinds : task'[k] = None)
    BY <1>6 DEF Proceeds
  <2> QED
    BY <1>0, <2>1 DEF RowsFollow, RowBecomes, Queued, SameRow
<1>7. ASSUME NEW w \in Workers, Exits(w) \/ Leaves(w) PROVE RowsFollow
  <2>1. \A k \in Kinds : RowLeft(w, k)
    BY <1>7, RowsLeft DEF Exits, Leaves
  <2>2. \A k \in Kinds : RowBecomes(k) /\ (Queued(k)' => Queued(k))
    BY <2>1 DEF RowLeft, RowBecomes
  <2>3. UNCHANGED last
    BY <1>7 DEF Exits, Leaves
  <2> QED
    BY <1>0, <2>2, <2>3 DEF RowsFollow
<1>8. ASSUME NEW w \in Workers, Takes(w) PROVE \A j \in Kinds : RowKept(j)
  <2>1. \A k \in Claimable : k \in Kinds /\ Queued(k)
    BY DEF Claimable
  <2> QED
    BY <1>8, <2>1, ClaimSet DEF Takes
<1> QED
  BY <1>1, <1>2, <1>3, <1>4, <1>5, <1>6, <1>7, <1>8 DEF TaskSteps, ExpireClaim, Takes, rows

LEMMA NewRow ==
  ASSUME Tables, TaskSteps, NEW k \in Kinds, ~Queued(k), Queued(k)'
  PROVE  \E ref \in Refs : NewTask(k, ref) /\ task'[k].ref = ref
<1>1. CASE UNCHANGED task \/ RowsGo \/ task' = [j \in Kinds |-> None]
  BY <1>1 DEF RowsGo, Queued
<1>2. CASE \E j \in Kinds, ref \in Refs : NewTask(j, ref)
  BY <1>2 DEF NewTask, AddTask, Queued, Tables
<1>3. CASE \E j \in Kinds : ExpireClaim(j)
  BY <1>3, ClaimSet DEF ExpireClaim, RowKept
<1>4. ASSUME NEW w \in Workers, Exits(w) \/ Leaves(w) PROVE FALSE
  <2>1. RowLeft(w, k)
    BY <1>4, RowsLeft DEF Exits, Leaves
  <2> QED
    BY <2>1 DEF RowLeft
<1>5. ASSUME NEW w \in Workers, Takes(w) PROVE FALSE
  <2>1. \A j \in Claimable : j \in Kinds /\ Queued(j)
    BY DEF Claimable
  <2> QED
    BY <1>5, <2>1, ClaimSet DEF Takes, RowKept
<1> QED
  BY <1>1, <1>2, <1>3, <1>4, <1>5 DEF TaskSteps

\* What becomes of a worker's hold on its task.
Taken(h, k) == h # None /\ h.kind = k /\ h.id = task[k].id /\ h.ref = task[k].ref

HoldBecomes(w) ==
    \/ held'[w] = None
    \/ held'[w] = held[w]
    \/ \E k \in Kinds : Queued(k) /\ RowKept(k) /\ Taken(held'[w], k)

LEMMA HoldSteps == ASSUME Tables, TaskSteps, NEW w \in Workers PROVE HoldBecomes(w)
<1> USE DEF HoldBecomes
<1>1. CASE UNCHANGED held
  BY <1>1
<1>2. CASE \E v \in Workers : Leaves(v)
  BY <1>2 DEF Leaves, Tables
<1>3. ASSUME NEW v \in Workers, Takes(v) PROVE HoldBecomes(w)
  <2>1. PICK k \in Claimable :
          /\ task' = [task EXCEPT ![k].claim = "yes"]
          /\ held' = [held EXCEPT ![v] = [kind |-> k, id |-> task[k].id, ref |-> task[k].ref]]
    BY <1>3 DEF Takes
  <2>2. k \in Kinds /\ Queued(k) /\ task[k] \in TaskRows
    BY DEF Claimable, Queued, Tables
  <2>3. RowKept(k)
    BY <2>1, <2>2, ClaimSet
  <2>4. CASE w = v
    BY <2>1, <2>2, <2>3, <2>4, HeldFields DEF Tables, Taken
  <2>5. CASE w # v
    BY <2>1, <2>5 DEF Tables
  <2> QED
    BY <2>4, <2>5
<1> QED
  BY <1>1, <1>2, <1>3 DEF TaskSteps, ExpireClaim, worker, Proceeds, Exits

LEMMA IdsStep == ASSUME Tables, Ids, TaskSteps PROVE Ids'
<1>1. /\ \A k \in Kinds : RowBecomes(k)
      /\ \A j, k \in Kinds : ~Queued(j) /\ Queued(j)' /\ ~Queued(k) /\ Queued(k)' => j = k
      /\ last \in Nat /\ last' \in Nat /\ last' >= last
  BY RowSteps DEF RowsFollow, Tables
<1>2. /\ \A k \in Kinds : Queued(k) => task[k].id \in Nat
      /\ \A w \in Workers : held[w] # None => held[w].id \in Nat
  BY DEF Tables, TaskRows, Helds, Queued
<1>3. ASSUME NEW k \in Kinds, Queued(k)' PROVE task'[k].id <= last'
  BY <1>1, <1>2, <1>3 DEF Ids, RowBecomes, SameRow
<1>4. ASSUME NEW w \in Workers, held'[w] # None PROVE held'[w].id <= last'
  <2>1. HoldBecomes(w)
    BY HoldSteps
  <2> QED
    BY <1>1, <1>2, <1>4, <2>1 DEF Ids, HoldBecomes, Taken
<1>5. ASSUME NEW j \in Kinds, NEW k \in Kinds, Queued(j)', Queued(k)', task'[j].id = task'[k].id PROVE j = k
  BY <1>1, <1>2, <1>5 DEF Ids, RowBecomes, SameRow
<1>6. ASSUME NEW w \in Workers, NEW k \in Kinds, Mine(w, k)'
      PROVE  held'[w].kind = k /\ held'[w].ref = task'[k].ref
  <2>1. HoldBecomes(w) /\ held'[w] # None /\ Queued(k)' /\ task'[k].id = held'[w].id
    BY <1>6, HoldSteps DEF Mine
  <2>2. CASE held'[w] = held[w]
    BY <1>1, <1>2, <2>1, <2>2 DEF Ids, RowBecomes, SameRow, Mine
  <2>3. CASE \E j \in Kinds : Queued(j) /\ RowKept(j) /\ Taken(held'[w], j)
    <3>1. PICK j \in Kinds : Queued(j) /\ RowKept(j) /\ Taken(held'[w], j)
      BY <2>3
    <3>2. j = k
      BY <1>5, <2>1, <3>1 DEF RowKept, SameRow, Taken
    <3> QED
      BY <3>1, <3>2 DEF RowKept, SameRow, Taken
  <2> QED
    BY <2>1, <2>2, <2>3 DEF HoldBecomes
<1> QED
  BY <1>3, <1>4, <1>5, <1>6 DEF Ids

LEMMA ExclusiveStep ==
  ASSUME SlowWorkers = FALSE, Tables, Ids, Exclusive, TaskSteps
  PROVE  Exclusive'
<1>0. /\ \A k \in Kinds : Queued(k) => task[k].id \in Nat
      /\ \A w \in Workers : held[w] # None => held[w].id \in Nat
      /\ \A w \in Workers : Working(w) => held[w] # None
      /\ last \in Nat
  BY DEF Tables, TaskRows, Helds, Queued, Working
<1>1. CASE UNCHANGED <<task, last, wpc, held>>
  BY <1>1 DEF Exclusive, OneWorkerPerTask, Working, Mine, Queued
<1>2. CASE UNCHANGED <<last, wpc, held>> /\ task' \in [Kinds -> TaskRows \cup {None}] /\ RowsGo
  BY <1>2 DEF RowsGo, Exclusive, OneWorkerPerTask, Working, Mine, Queued
<1>3. CASE \E k \in Kinds, ref \in Refs : NewTask(k, ref) /\ UNCHANGED <<wpc, held>>
  <2>1. PICK k \in Kinds : /\ ~Queued(k) /\ last' = last + 1 /\ UNCHANGED <<wpc, held>>
                           /\ task'[k].id = last + 1 /\ \A j \in Kinds \ {k} : task'[j] = task[j]
    BY <1>3 DEF NewTask, AddTask, Tables
  <2>2. \A w \in Workers : ~Mine(w, k)'
    BY <1>0, <2>1 DEF Mine, Ids
  <2>3. OneWorkerPerTask'
    BY <2>1 DEF Exclusive, OneWorkerPerTask, Working
  <2>4. ASSUME NEW w \in Workers, NEW j \in Kinds, Working(w)', Mine(w, j)' PROVE task'[j].claim = "yes"
    <3>1. j # k /\ task'[j] = task[j]
      BY <2>1, <2>2, <2>4
    <3>2. Working(w) /\ Mine(w, j)
      BY <2>1, <2>4, <3>1 DEF Working, Mine, Queued
    <3> QED
      BY <3>1, <3>2 DEF Exclusive
  <2> QED
    BY <2>3, <2>4 DEF Exclusive
<1>4. CASE \E k \in Kinds : ExpireClaim(k)
  <2>1. PICK k \in Kinds : ExpireClaim(k)
    BY <1>4
  <2>2. UNCHANGED <<wpc, held>> /\ \A j \in Kinds : RowKept(j) /\ (j # k => task'[j] = task[j])
    BY <2>1, ClaimSet DEF ExpireClaim, worker
  <2>3. \A w \in Workers : ~Mine(w, k)
    BY <2>1 DEF ExpireClaim
  <2>4. OneWorkerPerTask'
    BY <2>2 DEF Exclusive, OneWorkerPerTask, Working
  <2>5. ASSUME NEW w \in Workers, NEW j \in Kinds, Working(w)', Mine(w, j)' PROVE task'[j].claim = "yes"
    <3>1. Working(w) /\ Queued(j)' /\ held'[w] = held[w] /\ held[w] # None /\ task'[j].id = held[w].id
      BY <2>2, <2>5 DEF Working, Mine
    <3>2. Mine(w, j)
      BY <2>2, <3>1 DEF Mine, RowKept, SameRow
    <3>3. task'[j] = task[j]
      BY <2>2, <2>3, <3>2
    <3> QED
      BY <3>1, <3>2, <3>3 DEF Exclusive
  <2> QED
    BY <2>4, <2>5 DEF Exclusive
<1>5. CASE \E w \in Workers : Proceeds(w) /\ (UNCHANGED task \/ task' = [k \in Kinds |-> None])
  <2>1. PICK w \in Workers : Proceeds(w) /\ (UNCHANGED task \/ task' = [k \in Kinds |-> None])
    BY <1>5
  <2>2. held' = held /\ \A v \in Workers : Working(v)' => Working(v)
    BY <2>1 DEF Proceeds, Goto, Working, Tables
  <2> QED
    BY <2>1, <2>2 DEF Exclusive, OneWorkerPerTask, Mine, Queued
<1>6. CASE \E w \in Workers : Exits(w) \/ Leaves(w)
  <2>1. PICK w \in Workers : Exits(w) \/ Leaves(w)
    BY <1>6
  <2>2. /\ ~Working(w)'
        /\ \A v \in Workers \ {w} : held'[v] = held[v] /\ (Working(v)' <=> Working(v))
    BY <2>1 DEF Exits, Leaves, Goto, Working, Tables
  <2>3. \A k \in Kinds : RowLeft(w, k)
    BY <2>1, RowsLeft DEF Exits, Leaves
  <2>4. OneWorkerPerTask'
    BY <2>2 DEF OneWorkerPerTask, Exclusive
  <2>5. ASSUME NEW v \in Workers, NEW k \in Kinds, Working(v)', Mine(v, k)' PROVE task'[k].claim = "yes"
    <3>1. v # w /\ held'[v] = held[v] /\ Working(v)
      BY <2>2, <2>5
    <3>2. Mine(v, k) /\ Queued(k)' /\ SameRow(k)
      BY <2>3, <2>5, <3>1 DEF Mine, RowLeft, SameRow
    <3>3. Working(w) => ~Mine(w, k)
      BY <3>1, <3>2 DEF Exclusive, OneWorkerPerTask, Mine
    <3> QED
      BY <2>3, <3>1, <3>2, <3>3 DEF Exclusive, RowLeft
  <2> QED
    BY <2>4, <2>5 DEF Exclusive
<1>7. CASE \E w \in Workers : Takes(w)
  <2>1. PICK w \in Workers : Takes(w)
    BY <1>7
  <2>2. PICK k \in Claimable :
          /\ task' = [task EXCEPT ![k].claim = "yes"]
          /\ held' = [held EXCEPT ![w] = [kind |-> k, id |-> task[k].id, ref |-> task[k].ref]]
          /\ Goto(w, FirstStep(k))
    BY <2>1 DEF Takes
  <2>3. k \in Kinds /\ Queued(k) /\ task[k] \in TaskRows /\ task[k].claim # "yes"
    BY DEF Claimable, Queued, Tables
  <2>4. /\ \A j \in Kinds : RowKept(j)
        /\ task'[k].claim = "yes" /\ \A j \in Kinds \ {k} : task'[j] = task[j]
    BY <2>2, <2>3, ClaimSet
  <2>5. held'[w].id = task[k].id /\ \A v \in Workers \ {w} : held'[v] = held[v] /\ (Working(v)' <=> Working(v))
    BY <2>2, <2>3, HeldFields DEF Goto, Working, Tables
  <2>6. \A v \in Workers : Working(v) => ~Mine(v, k)
    BY <2>3 DEF Exclusive
  <2>7. OneWorkerPerTask'
    BY <1>0, <2>3, <2>5, <2>6 DEF OneWorkerPerTask, Exclusive, Mine
  <2>8. ASSUME NEW v \in Workers, NEW j \in Kinds, Working(v)', Mine(v, j)' PROVE task'[j].claim = "yes"
    <3>1. CASE j = k
      BY <2>4, <3>1
    <3>2. CASE j # k /\ v # w
      BY <2>4, <2>5, <2>8, <3>2 DEF Exclusive, Mine, RowKept, SameRow
    <3>3. CASE j # k /\ v = w
      BY <2>3, <2>4, <2>5, <2>8, <3>3 DEF Mine, Ids, RowKept, Queued
    <3> QED
      BY <3>1, <3>2, <3>3
  <2> QED
    BY <2>7, <2>8 DEF Exclusive
<1> QED
  BY <1>1, <1>2, <1>3, <1>4, <1>5, <1>6, <1>7 DEF TaskSteps

\* claim_task() claims a row that no worker has or whose claim is old: as long as no task outlasts
\* CLAIM_TIMEOUT_HOURS, no two workers run the same one.
THEOREM OneWorkerPerTaskCorrect ==
  ASSUME SlowWorkers = FALSE PROVE Spec => []OneWorkerPerTask
<1> DEFINE Inv == Tables /\ Ids /\ Exclusive
<1>1. Init => Inv
  BY TablesInit DEF Init, Ids, Exclusive, Queued, Mine, Working, OneWorkerPerTask
<1>2. Inv /\ [Next]_vars => Inv'
  <2>1. CASE Next
    BY <2>1, TablesStep, TablesSteps, IdsStep, ExclusiveStep
  <2>2. CASE UNCHANGED vars
    BY <2>2, TablesStep DEF vars, rows, worker, Ids, Exclusive, Queued, Mine, Working, OneWorkerPerTask
  <2> QED
    BY <2>1, <2>2
<1>3. Inv => OneWorkerPerTask
  BY DEF Exclusive
<1> QED
  BY <1>1, <1>2, <1>3, PTL DEF Spec

-----------------------------------------------------------------------------
(* The references of tasks, and the steps that a task of a kind takes. *)

References ==
    /\ asked \in Nat /\ asked <= heard
    /\ \A k \in Kinds : Queued(k) => Fits(k, task[k].ref, asked)
    /\ \A w \in Workers : held[w] # None => Fits(held[w].kind, held[w].ref, asked)

Stages ==
    \A w \in Workers :
        /\ wpc[w] \in ImportSteps => held[w].kind = "import"
        /\ wpc[w] \in ExportSteps => held[w].kind = "export"
        /\ wpc[w] \in DeletionSteps => held[w].kind \in {"history", "account"}

\* Only requests ask for deletions, and they ask for what has been listened to so far.
LEMMA AskedStep ==
  ASSUME Tables, References, Next
  PROVE  asked' \in Nat /\ asked <= asked' /\ asked' <= heard'
<1>1. CASE Request
  <2>1. ASSUME NEW k \in Kinds, RequestDeletion(k) PROVE asked' = heard /\ heard' = heard
    BY <2>1 DEF RequestDeletion, user
  <2>2. Hear => asked' = asked /\ heard' = heard + 1
    BY DEF Hear, tracked
  <2>3. ASSUME NEW e \in Exports, RequestExport(e) \/ DeleteExport(e) PROVE UNCHANGED <<asked, heard>>
    BY <2>3 DEF RequestExport, DeleteExport, user, tracked
  <2>4. ASSUME NEW i \in Imports,
               \/ RequestImport(i) \/ UploadFile(i) \/ CreateImport(i) \/ ImportRequestFails(i)
               \/ CancelImport(i) \/ CommitCancel(i) \/ CancelFails(i)
        PROVE  UNCHANGED <<asked, heard>>
    BY <2>4 DEF RequestImport, UploadFile, CreateImport, ImportRequestFails, CancelImport, CommitCancel,
        CancelFails, user, tracked
  <2> QED
    BY <1>1, <2>1, <2>2, <2>3, <2>4 DEF Request, References, Tables
<1>2. ASSUME NEW w \in Workers, WorkerStep(w) PROVE UNCHANGED asked
  BY <1>2 DEF WorkerStep, Release, Remove, LoadImport, BeginImport, SetImport, FetchFile, SubmitListens,
      FinishImport, FailImport, UnlinkFile, LoadExport, BeginExport, UploadArchive, FinishExport, SetExport,
      MarkExportFailed, DeleteListens, DeleteUser, tracked
<1>3. ASSUME NEW w \in Workers, Claim(w) \/ Fail(w) \/ Shutdown(w) \/ Crash(w) PROVE UNCHANGED <<asked, heard>>
  BY <1>3 DEF Claim, Fail, Shutdown, Crash, tracked, user
<1>4. ASSUME NEW k \in Kinds, ExpireClaim(k) PROVE UNCHANGED <<asked, heard>>
  BY <1>4 DEF ExpireClaim, tracked, user
<1>5. CleanUp => UNCHANGED <<asked, heard>>
  BY DEF CleanUp, ListExports, SweepArchives, AgeFile, ListFiles, SweepFiles, tracked, user
<1>6. ASSUME NEW w \in Workers, WorkerStep(w) PROVE UNCHANGED heard
  BY <1>6, WorkerTasks
<1> QED
  BY <1>1, <1>2, <1>3, <1>4, <1>5, <1>6 DEF Next, References, Tables

LEMMA FitsLonger ==
  ASSUME NEW k, NEW ref, NEW t \in Nat, NEW u \in Nat, t <= u, Fits(k, ref, t) PROVE Fits(k, ref, u)
  BY DEF Fits

LEMMA ReferencesStep ==
  ASSUME Tables, References, Next
  PROVE  References'
<1>1. asked \in Nat /\ asked' \in Nat /\ asked <= asked' /\ asked' <= heard'
  BY AskedStep DEF References
<1>2. TaskSteps
  BY TablesSteps
<1>3. ASSUME NEW k \in Kinds, Queued(k)' PROVE Fits(k, task'[k].ref, asked')
  <2>1. CASE Queued(k)
    <3>1. SameRow(k)
      BY <1>2, <1>3, <2>1, RowSteps DEF RowsFollow, RowBecomes
    <3> QED
      BY <1>1, <2>1, <3>1, FitsLonger DEF References, SameRow
  <2>2. CASE ~Queued(k)
    <3>1. \E ref \in Refs : Fits(k, ref, asked') /\ task'[k].ref = ref
      BY <1>2, <1>3, <2>2, NewRow DEF NewTask
    <3> QED
      BY <3>1
  <2> QED
    BY <2>1, <2>2
<1>4. ASSUME NEW w \in Workers, held'[w] # None PROVE Fits(held'[w].kind, held'[w].ref, asked')
  <2>1. HoldBecomes(w)
    BY <1>2, HoldSteps
  <2>2. CASE held'[w] = held[w]
    BY <1>1, <1>4, <2>2, FitsLonger DEF References
  <2>3. CASE \E k \in Kinds : Queued(k) /\ RowKept(k) /\ Taken(held'[w], k)
    <3>1. PICK k \in Kinds : Queued(k) /\ Taken(held'[w], k)
      BY <2>3
    <3>2. Fits(k, task[k].ref, asked')
      BY <1>1, <3>1, FitsLonger DEF References
    <3> QED
      BY <3>1, <3>2 DEF Taken
  <2> QED
    BY <1>4, <2>1, <2>2, <2>3 DEF HoldBecomes
<1> QED
  BY <1>1, <1>3, <1>4 DEF References

LEMMA StagesStep ==
  ASSUME Tables, Stages, TaskSteps
  PROVE  Stages'
<1> USE DEF Stages
<1>1. CASE UNCHANGED <<wpc, held>>
  BY <1>1
<1>2. ASSUME NEW w \in Workers, Proceeds(w) PROVE Stages'
  BY <1>2 DEF Proceeds, Goto, Tables
<1>3. ASSUME NEW w \in Workers, Exits(w) PROVE Stages'
  BY <1>3 DEF Exits, Goto, Tables, ImportSteps, ExportSteps, DeletionSteps
<1>4. ASSUME NEW w \in Workers, Leaves(w) PROVE Stages'
  BY <1>4 DEF Leaves, Goto, Tables, ImportSteps, ExportSteps, DeletionSteps
<1>5. ASSUME NEW w \in Workers, Takes(w) PROVE Stages'
  <2>1. PICK k \in Claimable :
          /\ held' = [held EXCEPT ![w] = [kind |-> k, id |-> task[k].id, ref |-> task[k].ref]]
          /\ wpc' = [wpc EXCEPT ![w] = FirstStep(k)]
    BY <1>5 DEF Takes, Goto
  <2>2. k \in Kinds /\ task[k] \in TaskRows
    BY DEF Claimable, Queued, Tables
  <2>3. /\ wpc'[w] = FirstStep(k) /\ held'[w].kind = k
        /\ \A v \in Workers \ {w} : wpc'[v] = wpc[v] /\ held'[v] = held[v]
    BY <2>1, <2>2, HeldFields DEF Tables
  <2>4. k \in {"export", "import", "history", "account"}
    BY <2>2, KindsAssumption
  <2>5. /\ FirstStep(k) \in ImportSteps => k = "import"
        /\ FirstStep(k) \in ExportSteps => k = "export"
        /\ FirstStep(k) \in DeletionSteps => k \in {"history", "account"}
    BY <2>4 DEF FirstStep, ImportSteps, ExportSteps, DeletionSteps
  <2> QED
    BY <2>3, <2>5
<1> QED
  BY <1>1, <1>2, <1>3, <1>4, <1>5 DEF TaskSteps, ExpireClaim, worker

-----------------------------------------------------------------------------
(* Deletions of listens. *)

LEMMA ListensStep ==
  ASSUME Tables, Next
  PROVE  UNCHANGED <<listens, heard>> \/ Hear \/ \E w \in Workers : DeleteListens(w) /\ UNCHANGED heard
<1>1. CASE Request
  BY <1>1 DEF Request, RequestExport, DeleteExport, RequestImport, UploadFile, CreateImport,
      ImportRequestFails, CancelImport, CommitCancel, CancelFails, RequestDeletion, user
<1>2. ASSUME NEW w \in Workers, WorkerStep(w)
      PROVE  UNCHANGED listens \/ DeleteListens(w)
  BY <1>2 DEF WorkerStep, Release, Remove, LoadImport, BeginImport, SetImport, FetchFile, SubmitListens,
      FinishImport, FailImport, UnlinkFile, LoadExport, BeginExport, UploadArchive, FinishExport, SetExport,
      MarkExportFailed, DeleteUser, user
<1>3. ASSUME NEW w \in Workers, Claim(w) \/ Fail(w) \/ Shutdown(w) \/ Crash(w) PROVE UNCHANGED <<listens, heard>>
  BY <1>3 DEF Claim, Fail, Shutdown, Crash, user
<1>4. ASSUME NEW k \in Kinds, ExpireClaim(k) PROVE UNCHANGED <<listens, heard>>
  BY <1>4 DEF ExpireClaim, user
<1>5. CleanUp => UNCHANGED <<listens, heard>>
  BY DEF CleanUp, ListExports, SweepArchives, AgeFile, ListFiles, SweepFiles, user
<1>6. ASSUME NEW w \in Workers, WorkerStep(w) PROVE UNCHANGED heard
  BY <1>6, WorkerTasks
<1> QED
  BY <1>1, <1>2, <1>3, <1>4, <1>5, <1>6 DEF Next

LEMMA LaterListensStep ==
  ASSUME Tables, Stages, References, LaterListensKept, Next
  PROVE  LaterListensKept'
<1>1. asked \in Nat /\ asked' \in Nat /\ asked <= asked' /\ heard \in Nat
  BY AskedStep DEF References, Tables
<1>2. CASE UNCHANGED <<listens, heard>>
  BY <1>1, <1>2 DEF LaterListensKept
<1>3. CASE Hear
  BY <1>1, <1>3 DEF LaterListensKept, Hear, tracked
<1>4. ASSUME NEW w \in Workers, DeleteListens(w), UNCHANGED heard PROVE LaterListensKept'
  <2>1. /\ wpc[w] = "delete listens"
        /\ listens' = {l \in listens : l > held[w].ref}
    BY <1>4 DEF DeleteListens
  <2>2. held[w].ref \in Nat /\ held[w].ref <= asked
    BY <2>1 DEF Tables, Stages, DeletionSteps, References, Fits
  <2>3. ASSUME NEW l \in 1..heard', l > asked' PROVE l \in listens'
    <3>1. l \in Int /\ l \in 1..heard /\ l > asked /\ l > held[w].ref
      BY <1>1, <1>4, <2>2, <2>3
    <3> QED
      BY <2>1, <3>1 DEF LaterListensKept
  <2> QED
    BY <2>3 DEF LaterListensKept
<1> QED
  BY <1>2, <1>3, <1>4, ListensStep

\* listens_db.delete_user() is given the time of the request: what the user has listened to since is kept.
THEOREM LaterListensKeptCorrect == Spec => []LaterListensKept
<1> DEFINE Inv == Tables /\ References /\ Stages /\ LaterListensKept
<1>1. Init => Inv
  BY TablesInit
     DEF Init, References, Stages, LaterListensKept, Queued, ImportSteps, ExportSteps, DeletionSteps
<1>2. Inv /\ [Next]_vars => Inv'
  <2> SUFFICES ASSUME Inv, [Next]_vars PROVE Inv'
    OBVIOUS
  <2>1. CASE Next
    BY <2>1, TablesStep, TablesSteps, ReferencesStep, StagesStep, LaterListensStep
  <2>2. CASE UNCHANGED vars
    <3>1. UNCHANGED <<task, held, wpc, asked, heard, listens>>
      BY <2>2 DEF vars, rows, user, worker, tracked
    <3>2. References'
      BY <3>1 DEF References, Queued
    <3>3. Stages'
      BY <3>1 DEF Stages
    <3>4. LaterListensKept'
      BY <3>1 DEF LaterListensKept
    <3> QED
      BY <2>2, <3>2, <3>3, <3>4, TablesStep
  <2> QED
    BY <2>1, <2>2
<1> QED
  BY <1>1, <1>2, PTL DEF Spec

-----------------------------------------------------------------------------
(* Cancelled imports. *)

\* A worker that will bring its import into progress, or has.
Running == {"begin import"} \cup InImport

CancelOnce ==
    /\ \A i \in Imports : import[i].status # "none" => asking[i] = "answered"
    /\ cancelling \subseteq Imports /\ cancelled \subseteq Imports
    /\ \A i \in cancelling : import[i].status = "waiting"
    /\ \A i \in cancelled : import[i].status = "deleted"
    /\ \A i \in submitted : i \in Imports /\ import[i].status \notin {"none", "waiting"}
    /\ (cancelling \cup cancelled) \cap files \subseteq spoiled
    /\ CancelledNotImported
    /\ \A w \in Workers :
          /\ wpc[w] \in Running => import[Import(w)].status # "none"
          /\ wpc[w] \in InImport => import[Import(w)].status # "waiting"
          /\ wpc[w] = "submit listens" /\ Import(w) \in cancelling \cup cancelled => Import(w) \in spoiled

\* A row that is not being cancelled is begun, finished or deleted.
ImportMoves(i) ==
    \/ import'[i] = import[i]
    \/ /\ i \notin cancelling /\ import[i].status \notin {"none", "deleted"}
       /\ import'[i].status \notin {"none", "waiting"}

RunsOn(w) == wpc'[w] \in Running => wpc'[w] = wpc[w] /\ held'[w] = held[w]

\* The steps that come between a request for an import and the submission of its listens only so.
Aside ==
    /\ \A i \in Imports : ImportMoves(i)
    /\ UNCHANGED <<cancelling, cancelled, submitted>>
    /\ files' \subseteq files /\ spoiled \subseteq spoiled'
    /\ \A i \in Imports : asking[i] = "answered" => asking'[i] = "answered"
    /\ \A w \in Workers : RunsOn(w)

LEMMA RequestsAside ==
  ASSUME Tables, Request
  PROVE  \/ Aside
         \/ \E i \in Imports :
               UploadFile(i) \/ CreateImport(i) \/ CancelImport(i) \/ CommitCancel(i) \/ CancelFails(i)
<1> USE DEF Aside, ImportMoves, RunsOn
<1>1. ASSUME NEW e \in Exports, RequestExport(e) \/ DeleteExport(e) PROVE Aside
  BY <1>1 DEF RequestExport, DeleteExport, store, web, worker, tracked
<1>2. ASSUME NEW i \in Imports, RequestImport(i) PROVE Aside
  BY <1>2, NoneAssumption, ServicesAssumption DEF RequestImport, rows, store, worker, tracked, Tables
<1>3. ASSUME NEW i \in Imports, ImportRequestFails(i) PROVE Aside
  BY <1>3 DEF ImportRequestFails, rows, worker, tracked, Tables
<1>4. ASSUME NEW k \in Kinds, RequestDeletion(k) PROVE Aside
  BY <1>4 DEF RequestDeletion, store, web, worker
<1>5. Hear => Aside
  BY DEF Hear, rows, store, web, worker, tracked
<1> QED
  BY <1>1, <1>2, <1>3, <1>4, <1>5 DEF Request

LEMMA WorkersAside ==
  ASSUME Tables, Stages, References, NEW w \in Workers,
         Claim(w) \/ WorkerStep(w) \/ Fail(w) \/ Shutdown(w) \/ Crash(w)
  PROVE  Aside \/ LoadImport(w) \/ BeginImport(w) \/ FetchFile(w) \/ SubmitListens(w)
<1> USE DEF Aside, ImportMoves, RunsOn, Running, InImport, Goto, GoIdle, Tables
<1>1. CASE Claim(w)
  <2>1. \A k \in Claimable : k \in {"export", "import", "history", "account"}
    BY KindsAssumption DEF Claimable
  <2>2. \A k \in Claimable : FirstStep(k) \notin Running
    BY <2>1 DEF FirstStep
  <2> QED
    BY <1>1, <2>2 DEF Claim, store, web, tracked
<1>2. CASE Release(w) \/ Remove(w)
  BY <1>2 DEF Release, Remove, store, web, tracked
<1>3. CASE FinishImport(w) \/ FailImport(w)
  <2>1. PICK st \in {"completed", "failed"} :
          Import(w) \notin cancelling /\ import' = Update(import, Import(w), st)
    BY <1>3 DEF FinishImport, FailImport, SetImport
  <2>2. /\ \A j \in Imports \ {Import(w)} : import'[j] = import[j]
        /\ Import(w) \in Imports =>
              \/ import'[Import(w)] = import[Import(w)]
              \/ import[Import(w)].status \notin {"none", "deleted"} /\ import'[Import(w)].status = st
    BY <2>1 DEF Update, Status, ImportRows
  <2>3. \A i \in Imports : ImportMoves(i)
    BY <2>1, <2>2
  <2> QED
    BY <1>3, <2>3 DEF FinishImport, FailImport, SetImport, store, web, tracked
<1>4. CASE UnlinkFile(w)
  BY <1>4 DEF UnlinkFile, RemoveFile, rows, web, tracked
<1>5. CASE LoadExport(w) \/ BeginExport(w) \/ UploadArchive(w)
  BY <1>5 DEF LoadExport, BeginExport, UploadArchive, rows, store, web, tracked
<1>6. CASE FinishExport(w) \/ MarkExportFailed(w)
  BY <1>6 DEF FinishExport, MarkExportFailed, SetExport, store, web, tracked
<1>7. CASE DeleteListens(w)
  BY <1>7 DEF DeleteListens, rows, store, web, tracked
<1>8. CASE DeleteUser(w)
  <2>1. cancelling = {} /\ import' = [i \in Imports |-> Update(import, i, "deleted")[i]]
    BY <1>8 DEF DeleteUser
  <2>2. \A i \in Imports : ImportMoves(i)
    BY <2>1 DEF Update, Status, ImportRows
  <2> QED
    BY <1>8, <2>2 DEF DeleteUser, store, web, tracked
<1>9. CASE Fail(w)
  BY <1>9 DEF Fail, rows, store, web
<1>10. CASE Shutdown(w)
  BY <1>10 DEF Shutdown, store, web
<1>11. CASE Crash(w)
  BY <1>11 DEF Crash, rows, store, web, tracked
<1> QED
  BY <1>1, <1>2, <1>3, <1>4, <1>5, <1>6, <1>7, <1>8, <1>9, <1>10, <1>11 DEF WorkerStep

LEMMA CleanUpAside == CleanUp \/ (\E k \in Kinds : ExpireClaim(k)) => Aside
  BY DEF CleanUp, ExpireClaim, ListExports, SweepArchives, AgeFile, ListFiles, SweepFiles, rows, store,
      web, worker, tracked, Aside, ImportMoves, RunsOn

LEMMA CancelOnceAside ==
  ASSUME Tables, Stages, References, CancelOnce, Aside
  PROVE  CancelOnce'
<1> USE DEF Aside, ImportMoves
<1>1. ASSUME NEW i \in Imports, import'[i].status # "none" PROVE asking'[i] = "answered"
  BY <1>1 DEF CancelOnce
<1>2. /\ \A i \in cancelling : import'[i].status = "waiting"
      /\ \A i \in cancelled : import'[i].status = "deleted"
      /\ \A i \in submitted : i \in Imports /\ import'[i].status \notin {"none", "waiting"}
  BY DEF CancelOnce
<1>3. ASSUME NEW w \in Workers
      PROVE  /\ wpc'[w] \in Running => import'[Import(w)'].status # "none"
             /\ wpc'[w] \in InImport => import'[Import(w)'].status # "waiting"
             /\ wpc'[w] = "submit listens" /\ Import(w)' \in cancelling \cup cancelled => Import(w)' \in spoiled'
  <2>1. CASE wpc'[w] \in Running
    <3>1. wpc'[w] = wpc[w] /\ held'[w] = held[w]
      BY <2>1 DEF RunsOn
    <3>2. wpc[w] \in ImportSteps
      BY <2>1, <3>1 DEF Running, InImport, ImportSteps
    <3>3. held[w] # None /\ held[w].kind = "import"
      BY <3>2 DEF Tables, Stages, ImportSteps
    <3>4. Import(w) \in Imports /\ Import(w)' = Import(w)
      BY <3>1, <3>3 DEF References, Fits, Import
    <3> QED
      BY <3>1, <3>4 DEF CancelOnce
  <2>2. CASE wpc'[w] \notin Running
    BY <2>2 DEF Running, InImport
  <2> QED
    BY <2>1, <2>2
<1> QED
  BY <1>1, <1>2, <1>3 DEF CancelOnce, CancelledNotImported

\* The import of a worker that runs it.
LEMMA RunningImport ==
  ASSUME Tables, Stages, References, NEW w \in Workers, wpc[w] \in ImportSteps
  PROVE  held[w] # None /\ held[w].kind = "import" /\ Import(w) \in Imports
<1>1. held[w] # None /\ held[w].kind = "import"
  BY DEF Tables, Stages, ImportSteps
<1> QED
  BY <1>1 DEF References, Fits, Import

LEMMA CancelOnceRequests ==
  ASSUME Tables, Stages, References, CancelOnce, NEW i \in Imports,
         UploadFile(i) \/ CreateImport(i) \/ CancelImport(i) \/ CommitCancel(i) \/ CancelFails(i)
  PROVE  CancelOnce'
<1> USE DEF CancelOnce, CancelledNotImported
<1>1. \A w \in Workers : wpc[w] \in Running => Import(w) \in Imports
  BY RunningImport DEF Running, InImport, ImportSteps
<1>2. UNCHANGED <<wpc, held>> /\ \A w \in Workers : Import(w)' = Import(w)
  BY DEF UploadFile, CreateImport, CancelImport, CommitCancel, CancelFails, worker, Import
<1>3. CASE UploadFile(i)
  <2>1. UNCHANGED <<import, asking, cancelling, cancelled, submitted, spoiled>>
    BY <1>3 DEF UploadFile, rows, web, user, tracked
  <2>2. i \notin cancelling \cup cancelled
    BY <1>3, ServicesAssumption DEF UploadFile
  <2> QED
    BY <1>2, <1>3, <2>1, <2>2 DEF UploadFile
<1>4. CASE CreateImport(i)
  <2>1. asking[i] # "answered" /\ import[i].status = "none"
    BY <1>4, ServicesAssumption DEF CreateImport
  <2>2. UNCHANGED <<cancelling, cancelled, submitted, spoiled>> /\ files' \subseteq files
    BY <1>4 DEF CreateImport, tracked
  <2>3. asking'[i] = "answered" /\ \A j \in Imports \ {i} : asking'[j] = asking[j]
    BY <1>4 DEF CreateImport, Tables
  <2>4. \A j \in Imports \ {i} : import'[j] = import[j]
    BY <1>4 DEF CreateImport, Tables
  <2>5. i \notin cancelling \cup cancelled \cup submitted
    BY <2>1
  <2>6. \A w \in Workers : wpc[w] \in Running => import'[Import(w)] = import[Import(w)]
    BY <1>1, <2>1, <2>4
  <2>7. InImport \subseteq Running
    BY DEF Running
  <2>8. /\ \A j \in Imports : import'[j].status # "none" => asking'[j] = "answered"
        /\ \A j \in cancelling \cup cancelled \cup submitted : j \in Imports /\ import'[j] = import[j]
    BY <2>3, <2>4, <2>5
  <2>9. \A w \in Workers :
          /\ wpc'[w] \in Running => import'[Import(w)'].status # "none"
          /\ wpc'[w] \in InImport => import'[Import(w)'].status # "waiting"
    BY <1>2, <2>6, <2>7
  <2> QED
    BY <1>2, <2>2, <2>8, <2>9
<1>5. CASE CancelImport(i)
  <2>1. UNCHANGED <<import, asking, cancelled, submitted>> /\ cancelling' = cancelling \cup {i}
    BY <1>5 DEF CancelImport, rows
  <2>2. /\ import[i].status = "waiting" /\ files' \subseteq files /\ spoiled \subseteq spoiled'
        /\ i \notin files' \/ i \in spoiled'
    BY <1>5 DEF CancelImport, RemoveFile
  <2>3. \A w \in Workers : wpc[w] = "submit listens" => Import(w) # i
    BY <2>2 DEF InImport
  <2> QED
    BY <1>2, <2>1, <2>2, <2>3
<1>6. CASE CommitCancel(i)
  <2>1. /\ UNCHANGED <<asking, submitted, files, spoiled>>
        /\ i \in cancelling /\ cancelling' = cancelling \ {i} /\ cancelled' = cancelled \cup {i}
    BY <1>6 DEF CommitCancel, store
  <2>2. import'[i].status = "deleted" /\ \A j \in Imports \ {i} : import'[j] = import[j]
    BY <1>6, <2>1, UpdatedImport DEF CommitCancel
  <2>3. \A w \in Workers : wpc[w] \in Running => import'[Import(w)] = import[Import(w)] \/ import'[Import(w)].status = "deleted"
    BY <1>1, <2>2
  <2>4. InImport \subseteq Running
    BY DEF Running
  <2>5. \A w \in Workers :
          /\ wpc'[w] \in Running => import'[Import(w)'].status # "none"
          /\ wpc'[w] \in InImport => import'[Import(w)'].status # "waiting"
    BY <1>2, <2>3, <2>4
  <2>6. /\ \A j \in Imports : import'[j].status # "none" => asking'[j] = "answered"
        /\ \A j \in cancelled' : import'[j].status = "deleted"
        /\ \A j \in cancelling' : import'[j].status = "waiting"
        /\ i \notin submitted
    BY <2>1, <2>2
  <2>7. \A j \in submitted' : import'[j].status \notin {"none", "waiting"}
    BY <2>1, <2>2
  <2>8. cancelling' \cup cancelled' = cancelling \cup cancelled
    BY <2>1
  <2>9. /\ (cancelling' \cup cancelled') \cap files' \subseteq spoiled'
        /\ \A w \in Workers :
              wpc'[w] = "submit listens" /\ Import(w)' \in cancelling' \cup cancelled' => Import(w)' \in spoiled'
    BY <1>2, <2>1, <2>8
  <2>10. CancelledNotImported'
    BY <2>1, <2>6
  <2>11. cancelling' \subseteq Imports /\ cancelled' \subseteq Imports /\ submitted' \subseteq Imports
    BY <2>1
  <2> QED
    BY <2>5, <2>6, <2>7, <2>9, <2>10, <2>11
<1>7. CASE CancelFails(i)
  BY <1>2, <1>7 DEF CancelFails, rows, store
<1> QED
  BY <1>3, <1>4, <1>5, <1>6, <1>7

LEMMA CancelOnceRuns ==
  ASSUME Tables, Stages, References, CancelOnce, NEW w \in Workers,
         LoadImport(w) \/ BeginImport(w) \/ FetchFile(w) \/ SubmitListens(w)
  PROVE  CancelOnce'
<1> USE DEF CancelOnce, CancelledNotImported
<1>1. wpc[w] \in ImportSteps
  BY DEF LoadImport, BeginImport, SetImport, FetchFile, SubmitListens, ImportSteps
<1>2. Import(w) \in Imports
  BY <1>1, RunningImport
<1>3. UNCHANGED <<held, cancelling, cancelled, spoiled, asking>> /\ files' \subseteq files
  BY DEF LoadImport, RemoveFile, BeginImport, SetImport, FetchFile, SubmitListens, store, web, tracked
<1>4. \A v \in Workers : Import(v)' = Import(v)
  BY <1>3 DEF Import
<1>5. \A v \in Workers : wpc[v] \in Running => Import(v) \in Imports
  BY RunningImport DEF Running, InImport, ImportSteps
<1>6. CASE LoadImport(w)
  <2>1. UNCHANGED <<import, submitted>>
    BY <1>6 DEF LoadImport, rows, tracked
  <2>2. /\ \A v \in Workers \ {w} : wpc'[v] = wpc[v]
        /\ wpc'[w] = "remove" \/ (wpc'[w] = "begin import" /\ import[Import(w)].status \in Unfinished)
    BY <1>6 DEF LoadImport, Goto, Tables
  <2> QED
    BY <1>3, <1>4, <2>1, <2>2 DEF Running, InImport, Unfinished
<1>7. CASE FetchFile(w)
  <2>1. UNCHANGED <<import, submitted>>
    BY <1>7 DEF FetchFile, rows, tracked
  <2>2. /\ \A v \in Workers \ {w} : wpc'[v] = wpc[v]
        /\ wpc'[w] = "fail import" \/ (wpc'[w] = "submit listens" /\ Import(w) \in files)
        /\ wpc[w] = "fetch file"
    BY <1>7 DEF FetchFile, Goto, Tables
  <2> QED
    BY <1>3, <1>4, <2>1, <2>2 DEF Running, InImport
<1>8. CASE SubmitListens(w)
  <2>1. UNCHANGED import /\ submitted' = submitted \cup {Import(w)}
    BY <1>8 DEF SubmitListens, rows
  <2>2. \A v \in Workers \ {w} : wpc'[v] = wpc[v]
    BY <1>8 DEF SubmitListens, Goto, Tables
  <2>3. wpc'[w] = "finish import" /\ wpc[w] = "submit listens"
    BY <1>8 DEF SubmitListens, Goto, Tables
  <2> QED
    BY <1>2, <1>3, <1>4, <2>1, <2>2, <2>3 DEF Running, InImport
<1>9. CASE BeginImport(w)
  <2>1. UNCHANGED submitted /\ wpc[w] = "begin import" /\ \A v \in Workers \ {w} : wpc'[v] = wpc[v]
    BY <1>9 DEF BeginImport, SetImport, Goto, Tables, tracked
  <2>2. CASE UNCHANGED import /\ wpc'[w] = "release"
    BY <1>3, <1>4, <2>1, <2>2 DEF Running, InImport
  <2>3. CASE SetImport(w, "begin import", "in_progress", "fetch file")
    <3>1. wpc'[w] = "fetch file" /\ Import(w) \notin cancelling
      BY <2>3 DEF SetImport, Goto, Tables
    <3>2. /\ \A j \in Imports \ {Import(w)} : import'[j] = import[j]
          /\ import'[Import(w)].status = IF import[Import(w)].status \in {"none", "deleted"}
                                         THEN import[Import(w)].status ELSE "in_progress"
      BY <1>2, <2>3, UpdatedImport DEF SetImport
    <3>3. import[Import(w)].status # "none"
      BY <2>1 DEF Running
    <3>4. import'[Import(w)].status \notin {"none", "waiting"}
      BY <3>2, <3>3
    <3>5. Import(w) \in cancelled => import'[Import(w)].status = "deleted"
      BY <3>2
    <3>6. \A j \in Imports : import'[j].status # "none" => import[j].status # "none"
      BY <1>2, <3>3, <3>2
    <3>7. \A v \in Workers : wpc'[v] \in Running => import'[Import(v)].status # "none"
      BY <1>2, <1>5, <2>1, <3>1, <3>2, <3>4
    <3>8. \A v \in Workers : wpc'[v] \in InImport => import'[Import(v)].status # "waiting"
      BY <1>2, <1>5, <2>1, <3>1, <3>2, <3>4 DEF Running
    <3>9. /\ \A j \in cancelling : import'[j].status = "waiting"
          /\ \A j \in cancelled : import'[j].status = "deleted"
          /\ \A j \in submitted : import'[j].status \notin {"none", "waiting"}
      BY <1>2, <3>1, <3>2, <3>4, <3>5
    <3>10. \A v \in Workers : wpc'[v] = "submit listens" => wpc[v] = "submit listens"
      BY <2>1, <3>1
    <3>11. \A v \in Workers : /\ wpc'[v] \in Running => import'[Import(v)'].status # "none"
                              /\ wpc'[v] \in InImport => import'[Import(v)'].status # "waiting"
      BY <1>4, <3>7, <3>8
    <3>12. \A v \in Workers : wpc'[v] = "submit listens" /\ Import(v)' \in (cancelling \cup cancelled)'
                              => Import(v)' \in spoiled'
      BY <1>3, <1>4, <3>10
    <3>13. \A i \in Imports : import'[i].status # "none" => asking'[i] = "answered"
      BY <1>3, <3>6
    <3>14. /\ (cancelling \cup cancelled)' \cap files' \subseteq spoiled'
           /\ cancelled' \cap submitted' \subseteq spoiled'
      BY <1>3, <2>1
    <3>15. /\ cancelling' \subseteq Imports /\ cancelled' \subseteq Imports
           /\ \A j \in cancelling' : import'[j].status = "waiting"
           /\ \A j \in cancelled' : import'[j].status = "deleted"
           /\ \A j \in submitted' : j \in Imports /\ import'[j].status \notin {"none", "waiting"}
      BY <1>3, <2>1, <3>9
    <3> QED
      BY <3>11, <3>12, <3>13, <3>14, <3>15
  <2> QED
    BY <1>9, <2>2, <2>3 DEF BeginImport, Goto, Tables, rows
<1> QED
  BY <1>6, <1>7, <1>8, <1>9

\* cancel_import() deletes the row while it is waiting, in the transaction that deletes its file: a worker that had
\* read the row before finds neither, at whatever step it is, and however slow workers are.
THEOREM CancelledNotImportedCorrect == Spec => []CancelledNotImported
<1> DEFINE Inv == Tables /\ References /\ Stages /\ CancelOnce
<1>1. Init => Inv
  BY TablesInit DEF Init, References, Stages, Queued, ImportSteps, ExportSteps, DeletionSteps, CancelOnce,
      CancelledNotImported, Running, InImport
<1>2. Inv /\ [Next]_vars => Inv'
  <2> SUFFICES ASSUME Inv, [Next]_vars PROVE Inv'
    OBVIOUS
  <2>1. CASE Next
    <3>1. CancelOnce'
      BY <2>1, RequestsAside, WorkersAside, CleanUpAside, CancelOnceAside, CancelOnceRequests, CancelOnceRuns DEF Next
    <3> QED
      BY <2>1, <3>1, TablesStep, TablesSteps, ReferencesStep, StagesStep
  <2>2. CASE UNCHANGED vars
    <3>1. UNCHANGED <<task, held, wpc, asked, heard>>
      BY <2>2 DEF vars, rows, user, worker, tracked
    <3>2. UNCHANGED <<import, asking, cancelling, cancelled, submitted, spoiled, files>>
      BY <2>2 DEF vars, rows, web, store, tracked
    <3>3. References' /\ Stages'
      BY <3>1 DEF References, Queued, Stages
    <3>4. CancelOnce'
      BY <3>1, <3>2 DEF CancelOnce, CancelledNotImported, Import
    <3> QED
      BY <2>2, <3>3, <3>4, TablesStep
  <2> QED
    BY <2>1, <2>2
<1>3. Inv => CancelledNotImported
  BY DEF CancelOnce
<1> QED
  BY <1>1, <1>2, <1>3, PTL DEF Spec

-----------------------------------------------------------------------------
(* One task per import and export. *)

\* A row once asked for has been asked for ever since.
LEMMA MadeStays ==
  ASSUME Tables, References, Next
  PROVE  \A k \in Kinds, ref \in Refs : Fits(k, ref, heard) /\ Made(k, ref) => Made(k, ref)'
<1>1. ASSUME NEW e \in Exports, export[e].status # "none" PROVE export'[e].status # "none"
  <2>1. ASSUME NEW f \in Exports, RequestExport(f) \/ DeleteExport(f) PROVE export'[e].status # "none"
    BY <1>1, <2>1 DEF RequestExport, DeleteExport, Status, Tables, ExportRows
  <2>2. ASSUME NEW w \in Workers, BeginExport(w) PROVE export'[e].status # "none"
    <3>1. \/ UNCHANGED export
          \/ export' = [export EXCEPT ![Export(w)] = [status |-> "in_progress", file |-> names + 1]]
      BY <2>2 DEF BeginExport
    <3>2. [status |-> "in_progress", file |-> names + 1].status # "none"
      OBVIOUS
    <3> QED
      BY <1>1, <3>1, <3>2 DEF Tables
  <2>3. ASSUME NEW w \in Workers, FinishExport(w) \/ MarkExportFailed(w) PROVE export'[e].status # "none"
    <3>1. PICK st \in {"completed", "failed"} : export' = Update(export, Export(w), st)
      BY <2>3 DEF FinishExport, MarkExportFailed, SetExport
    <3> QED
      BY <1>1, <3>1, UpdatedExport
  <2>4. ASSUME NEW w \in Workers, DeleteUser(w) PROVE export'[e].status # "none"
    BY <1>1, <2>4 DEF DeleteUser, Update, Status, Tables, ExportRows
  <2>5. ListExports => export'[e].status # "none"
    BY <1>1 DEF ListExports, Status, Tables, ExportRows
  <2> QED
    BY <1>1, <2>1, <2>2, <2>3, <2>4, <2>5, ExportChanges
<1>2. \A i \in Imports : asking[i] = "answered" => asking'[i] = "answered"
  BY AskingStep
<1> QED
  BY <1>1, <1>2 DEF Fits, Made

\* A task is queued for a row when the row is made, and never again.
OneTask ==
    /\ \A k \in Kinds : Queued(k) => Made(k, task[k].ref)
    /\ \A w \in Workers : held[w] # None => Made(held[w].kind, held[w].ref)
    /\ \A v, w \in Workers :
          /\ held[v] # None /\ held[w] # None /\ held[v].kind \in {"import", "export"}
          /\ held[v].kind = held[w].kind /\ held[v].ref = held[w].ref
          => held[v].id = held[w].id
    /\ \A w \in Workers, k \in Kinds \cap {"import", "export"} :
          held[w] # None /\ Queued(k) /\ held[w].kind = k /\ held[w].ref = task[k].ref
          => held[w].id = task[k].id

LEMMA OneTaskStep ==
  ASSUME Tables, References, OneTask, Ids, Next
  PROVE  OneTask'
<1>1. /\ TaskSteps /\ asked \in Nat /\ heard \in Nat /\ asked <= heard
      /\ \A k \in Kinds : RowBecomes(k)
      /\ \A w \in Workers : HoldBecomes(w)
  BY TablesSteps, RowSteps, HoldSteps DEF RowsFollow, References, Tables
<1>2. /\ \A k \in Kinds, ref \in Refs : Queued(k) /\ task[k].ref = ref => Made(k, ref)'
      /\ \A w \in Workers, k \in Kinds, ref \in Refs :
            held[w] # None /\ held[w].kind = k /\ held[w].ref = ref => Made(k, ref)'
      /\ \A k \in Kinds : Queued(k) => task[k].ref \in Refs
      /\ \A w \in Workers : held[w] # None => held[w].kind \in Kinds /\ held[w].ref \in Refs
  <2>1. /\ \A k \in Kinds : Queued(k) => task[k].ref \in Refs /\ Fits(k, task[k].ref, heard)
        /\ \A w \in Workers : held[w] # None =>
              held[w].kind \in Kinds /\ held[w].ref \in Refs /\ Fits(held[w].kind, held[w].ref, heard)
    BY <1>1, FitsLonger DEF References, Tables, TaskRows, Helds, Queued
  <2> QED
    BY <2>1, MadeStays DEF OneTask
<1>3. ASSUME NEW k \in Kinds, Queued(k)' PROVE Made(k, task[k].ref)'
  <2>1. CASE Queued(k)
    <3>1. task'[k].ref = task[k].ref /\ task[k].ref \in Refs
      BY <1>1, <1>2, <1>3, <2>1 DEF RowBecomes, SameRow
    <3>2. \E ref \in Refs : task'[k].ref = ref /\ Made(k, ref)'
      BY <1>2, <2>1, <3>1
    <3> QED
      BY <3>2 DEF Made
  <2>2. CASE ~Queued(k)
    <3>1. \E ref \in Refs : Made(k, ref)' /\ task'[k].ref = ref
      BY <1>1, <1>3, <2>2, NewRow DEF NewTask
    <3> QED
      BY <3>1 DEF Made
  <2> QED
    BY <2>1, <2>2
<1>4. ASSUME NEW w \in Workers, held'[w] # None PROVE Made(held[w].kind, held[w].ref)'
  <2>1. CASE held'[w] = held[w]
    <3>1. \E k \in Kinds, ref \in Refs : held'[w].kind = k /\ held'[w].ref = ref /\ Made(k, ref)'
      BY <1>2, <1>4, <2>1
    <3> QED
      BY <3>1 DEF Made
  <2>2. CASE \E k \in Kinds : Queued(k) /\ Taken(held'[w], k)
    <3>1. \E k \in Kinds, ref \in Refs : held'[w].kind = k /\ held'[w].ref = ref /\ Made(k, ref)'
      BY <1>2, <2>2 DEF Taken
    <3> QED
      BY <3>1 DEF Made
  <2> QED
    BY <1>1, <1>4, <2>1, <2>2 DEF HoldBecomes
\* What a worker holds afterwards, it or another has held, or it was queued.
<1>5. ASSUME NEW v \in Workers, NEW w \in Workers, held'[v] # None, held'[w] # None,
             held'[v].kind \in {"import", "export"},
             held'[v].kind = held'[w].kind, held'[v].ref = held'[w].ref
      PROVE  held'[v].id = held'[w].id
  <2>1. /\ held'[v] = held[v] \/ \E k \in Kinds : Queued(k) /\ Taken(held'[v], k)
        /\ held'[w] = held[w] \/ \E k \in Kinds : Queued(k) /\ Taken(held'[w], k)
    BY <1>1, <1>5 DEF HoldBecomes
  <2>2. CASE held'[v] = held[v] /\ held'[w] = held[w]
    BY <1>5, <2>2 DEF OneTask
  <2>3. CASE held'[v] = held[v] /\ \E k \in Kinds : Queued(k) /\ Taken(held'[w], k)
    BY <1>5, <2>3 DEF OneTask, Taken
  <2>4. CASE held'[w] = held[w] /\ \E k \in Kinds : Queued(k) /\ Taken(held'[v], k)
    BY <1>5, <2>4 DEF OneTask, Taken
  <2>5. CASE (\E k \in Kinds : Queued(k) /\ Taken(held'[v], k)) /\ (\E k \in Kinds : Queued(k) /\ Taken(held'[w], k))
    BY <1>5, <2>5 DEF Taken
  <2> QED
    BY <2>1, <2>2, <2>3, <2>4, <2>5
<1>6. ASSUME NEW w \in Workers, NEW k \in Kinds \cap {"import", "export"},
             held'[w] # None, Queued(k)', held'[w].kind = k, held'[w].ref = task'[k].ref
      PROVE  held'[w].id = task'[k].id
  <2>1. held'[w] = held[w] \/ (Queued(k) /\ RowKept(k) /\ Taken(held'[w], k))
    BY <1>1, <1>6 DEF HoldBecomes, Taken
  <2>2. CASE Queued(k) /\ RowKept(k) /\ Taken(held'[w], k)
    BY <2>2 DEF RowKept, SameRow, Taken
  <2>3. CASE held'[w] = held[w] /\ Queued(k)
    BY <1>1, <1>6, <2>3 DEF OneTask, RowBecomes, SameRow
  <2>4. CASE held'[w] = held[w] /\ ~Queued(k)
    <3>1. \E ref \in Refs : ~Made(k, ref) /\ task'[k].ref = ref
      BY <1>1, <1>6, <2>4, NewRow DEF NewTask
    <3>2. Made(k, held[w].ref)
      BY <1>6, <2>4 DEF OneTask
    <3> QED
      BY <1>6, <2>4, <3>1, <3>2
  <2> QED
    BY <2>1, <2>2, <2>3, <2>4
<1> QED
  BY <1>3, <1>4, <1>5, <1>6 DEF OneTask

-----------------------------------------------------------------------------
(* Exports and their tasks. *)

\* The row of a task goes with the task, with its export or import, or with the account.
LEMMA TaskLost ==
  ASSUME Tables, Next, NEW k \in Kinds, Queued(k), ~Queued(k)'
  PROVE  \/ \E e \in Exports : DeleteExport(e) /\ k = "export" /\ task[k].ref = e
         \/ k = "import"
         \/ \E w \in Workers : Remove(w) /\ Mine(w, k)
         \/ \E w \in Workers : DeleteUser(w)
<1>1. ~ UNCHANGED task
  BY DEF Queued
<1>2. \A j \in Kinds : \A ref : ~ AddTask(j, ref)
  BY DEF AddTask, Queued, Tables
<1>3. CASE Request
  <2>1. ASSUME NEW e \in Exports, DeleteExport(e) PROVE k = "export" /\ task[k].ref = e
    BY <1>1, <2>1 DEF DeleteExport, DropTask, HasTask, Queued, Tables
  <2>2. ASSUME NEW i \in Imports, CommitCancel(i) PROVE k = "import"
    BY <1>1, <2>2 DEF CommitCancel, DropTask, HasTask, Queued, Tables
  <2>3. \A e \in Exports : ~ RequestExport(e)
    BY <1>2 DEF RequestExport
  <2>4. \A j \in Kinds : ~ RequestDeletion(j)
    BY <1>2 DEF RequestDeletion
  <2>5. ASSUME NEW i \in Imports, CreateImport(i) PROVE FALSE
    <3>1. "import" \in Kinds
      BY <2>5, ServicesAssumption DEF CreateImport, Tables
    <3> QED
      BY <1>1, <1>2, <2>5, <3>1 DEF CreateImport
  <2>6. ASSUME NEW i \in Imports,
               RequestImport(i) \/ UploadFile(i) \/ ImportRequestFails(i) \/ CancelImport(i) \/ CancelFails(i)
        PROVE  FALSE
    BY <1>1, <2>6 DEF RequestImport, UploadFile, ImportRequestFails, CancelImport, CancelFails, rows
  <2>7. ~Hear
    BY <1>1 DEF Hear, rows
  <2> QED
    BY <1>3, <2>1, <2>2, <2>3, <2>4, <2>5, <2>6, <2>7 DEF Request
<1>4. ASSUME NEW w \in Workers, task' = Released(w) PROVE FALSE
  <2>1. task[k] \in TaskRows
    BY DEF Tables, Queued
  <2> QED
    BY <1>4, <2>1, RowFields DEF Released, Queued
<1>5. ASSUME NEW w \in Workers, WorkerStep(w) PROVE Remove(w) \/ DeleteUser(w)
  BY <1>1, <1>4, <1>5 DEF WorkerStep, Release, LoadImport, BeginImport, SetImport, FetchFile, SubmitListens,
      FinishImport, FailImport, UnlinkFile, LoadExport, BeginExport, UploadArchive, FinishExport, SetExport,
      MarkExportFailed, DeleteListens, rows
<1>6. ASSUME NEW w \in Workers, Remove(w) PROVE Mine(w, k)
  BY <1>6 DEF Remove, Removed, Queued
<1>7. ASSUME NEW w \in Workers, Fail(w) \/ Shutdown(w) \/ Crash(w) PROVE FALSE
  BY <1>1, <1>4, <1>7 DEF Fail, Shutdown, Crash, rows
<1>8. ASSUME NEW w \in Workers, Claim(w) PROVE FALSE
  <2>1. \A j \in Claimable : j \in Kinds /\ Queued(j)
    BY DEF Claimable
  <2> QED
    BY <1>8, <2>1, ClaimSet DEF Claim, RowKept
<1>9. ASSUME NEW j \in Kinds, ExpireClaim(j) PROVE FALSE
  BY <1>9, ClaimSet DEF ExpireClaim, RowKept
<1>10. ~CleanUp
  BY <1>1 DEF CleanUp, ListExports, SweepArchives, AgeFile, ListFiles, SweepFiles, rows
<1> QED
  BY <1>3, <1>5, <1>6, <1>7, <1>8, <1>9, <1>10 DEF Next

\* How the status of an export moves.
LEMMA ExportStatus ==
  ASSUME Tables, Next, NEW e \in Exports
  PROVE  /\ export[e].status = "deleted" => export'[e].status = "deleted"
         /\ export[e].status \notin Unfinished /\ export'[e].status \in Unfinished =>
               \/ RequestExport(e) /\ export[e].status = "none"
               \/ \E w \in Workers : BeginExport(w) /\ Export(w) = e /\ export[e].status # "deleted"
<1> USE DEF Unfinished
<1>1. ASSUME NEW f \in Exports, RequestExport(f) \/ DeleteExport(f)
      PROVE  \/ export'[e] = export[e]
             \/ export'[e].status = "deleted"
             \/ RequestExport(e) /\ export[e].status = "none"
  BY <1>1 DEF RequestExport, DeleteExport, Status, Tables, ExportRows
<1>2. ASSUME NEW w \in Workers, BeginExport(w)
      PROVE  export'[e] = export[e] \/ (Export(w) = e /\ export[e].status # "deleted")
  BY <1>2 DEF BeginExport, Tables
<1>3. ASSUME NEW w \in Workers, FinishExport(w) \/ MarkExportFailed(w)
      PROVE  export'[e] = export[e] \/ (export[e].status # "deleted" /\ export'[e].status \in {"completed", "failed"})
  <2>1. PICK st \in {"completed", "failed"} : export' = Update(export, Export(w), st)
    BY <1>3 DEF FinishExport, MarkExportFailed, SetExport
  <2> QED
    BY <2>1 DEF Update, Status, Tables, ExportRows
<1>4. ASSUME NEW w \in Workers, DeleteUser(w) PROVE export'[e] = export[e] \/ export'[e].status = "deleted"
  BY <1>4 DEF DeleteUser, Update, Status, Tables, ExportRows
<1>5. ListExports => export'[e] = export[e] \/ export'[e].status = "deleted"
  BY DEF ListExports, Status, Tables, ExportRows
<1> QED
  BY <1>1, <1>2, <1>3, <1>4, <1>5, ExportChanges

\* A worker comes to remove the task of an export that is gone or finished.
LEMMA RemovesExport ==
  ASSUME Tables, Stages, Next, NEW w \in Workers,
         wpc'[w] = "remove", wpc[w] # "remove", held[w].kind = "export"
  PROVE  \/ LoadExport(w) /\ export[Export(w)].status = "deleted"
         \/ FinishExport(w)
<1> USE DEF Tables, Goto
<1>1. Request \/ CleanUp \/ (\E k \in Kinds : ExpireClaim(k)) => UNCHANGED wpc
  BY DEF Request, RequestExport, DeleteExport, RequestImport, UploadFile, CreateImport, ImportRequestFails,
      CancelImport, CommitCancel, CancelFails, RequestDeletion, Hear, CleanUp, ListExports, SweepArchives,
      AgeFile, ListFiles, SweepFiles, ExpireClaim, worker
<1>2. ASSUME NEW v \in Workers, Claim(v) PROVE FALSE
  <2>1. \A k \in Claimable : k \in {"export", "import", "history", "account"}
    BY KindsAssumption DEF Claimable
  <2>2. \A k \in Claimable : FirstStep(k) # "remove"
    BY <2>1 DEF FirstStep
  <2> QED
    BY <1>2, <2>2 DEF Claim
<1>3. ASSUME NEW v \in Workers, Fail(v) \/ Shutdown(v) \/ Crash(v) PROVE FALSE
  BY <1>3 DEF Fail, Shutdown, Crash, GoIdle
<1>4. ASSUME NEW v \in Workers, WorkerStep(v)
      PROVE  v = w /\ (FinishExport(w) \/ (LoadExport(w) /\ export[Export(w)].status = "deleted"))
  <2>1. CASE Release(v) \/ Remove(v)
    BY <2>1 DEF Release, Remove, GoIdle
  <2>2. CASE LoadImport(v) \/ BeginImport(v) \/ FetchFile(v) \/ SubmitListens(v) \/ FinishImport(v) \/ FailImport(v)
             \/ UnlinkFile(v)
    <3>1. v = w /\ wpc[w] \in ImportSteps
      BY <2>2 DEF LoadImport, BeginImport, SetImport, FetchFile, SubmitListens, FinishImport, FailImport,
          UnlinkFile, GoIdle, ImportSteps
    <3> QED
      BY <3>1 DEF Stages
  <2>3. CASE DeleteListens(v) \/ DeleteUser(v)
    <3>1. v = w /\ wpc[w] \in DeletionSteps
      BY <2>3 DEF DeleteListens, DeleteUser, DeletionSteps
    <3> QED
      BY <3>1 DEF Stages
  <2>4. CASE LoadExport(v)
    BY <2>4 DEF LoadExport
  <2>5. CASE BeginExport(v) \/ UploadArchive(v) \/ MarkExportFailed(v)
    BY <2>5 DEF BeginExport, UploadArchive, MarkExportFailed, SetExport
  <2>6. CASE FinishExport(v)
    BY <2>6 DEF FinishExport, SetExport
  <2> QED
    BY <1>4, <2>1, <2>2, <2>3, <2>4, <2>5, <2>6 DEF WorkerStep
<1> QED
  BY <1>1, <1>2, <1>3, <1>4 DEF Next

ExportsOwned ==
    /\ ExportHasTask
    /\ \A w \in Workers :
          Working(w) /\ held[w].kind = "export" =>
              /\ export[Export(w)].status = "deleted" \/ Mine(w, "export")
              /\ wpc[w] = "remove" => export[Export(w)].status \notin Unfinished

\* The export of a worker that runs one.
LEMMA RunningExport ==
  ASSUME Tables, References, OneTask, NEW w \in Workers, held[w] # None, held[w].kind = "export"
  PROVE  Export(w) \in Exports /\ "export" \in Kinds /\ export[Export(w)].status # "none"
<1>1. held[w] \in Helds
  BY DEF Tables
<1>2. held[w].ref \in Exports
  BY DEF References, Fits
<1>3. Made("export", held[w].ref)
  BY DEF OneTask
<1> QED
  BY <1>1, <1>2, <1>3 DEF Helds, Made, Export

\* Two workers do not run the same export.
LEMMA OneRun ==
  ASSUME OneTask, OneWorkerPerTask, NEW v \in Workers, NEW w \in Workers,
         Working(v), Working(w), held[v] # None, held[w] # None,
         held[v].kind \in {"import", "export"}, held[v].kind = held[w].kind, held[v].ref = held[w].ref
  PROVE  v = w
  BY DEF OneTask, OneWorkerPerTask

\* A worker of an export goes on with it, or has just claimed it.
LEMMA WorkingStep ==
  ASSUME Tables, Stages, Next, NEW w \in Workers, Working(w)', held'[w].kind = "export"
  PROVE  \/ held'[w] = held[w] /\ held[w] # None /\ Working(w)
         \/ wpc'[w] # "remove" /\ \E k \in Kinds : Queued(k) /\ RowKept(k) /\ Taken(held'[w], k)
<1>1. TaskSteps
  BY TablesSteps
<1>2. Tables' /\ held'[w] # None
  BY TablesStep DEF Tables, Working
<1>3. CASE held'[w] = held[w]
  <2>1. held[w] # None /\ held[w].kind = "export"
    BY <1>2, <1>3
  <2> QED
    BY <1>3, <2>1 DEF Working, Tables, Stages, ImportSteps
<1>4. CASE held'[w] # held[w]
  <2>1. \E k \in Kinds : Queued(k) /\ RowKept(k) /\ Taken(held'[w], k)
    BY <1>1, <1>2, <1>4, HoldSteps DEF HoldBecomes
  <2>2. Takes(w)
    <3>1. ASSUME NEW v \in Workers, Leaves(v) PROVE held'[w] \in {held[w], None}
      BY <3>1 DEF Leaves, Tables
    <3>2. ASSUME NEW v \in Workers \ {w}, Takes(v) PROVE held'[w] = held[w]
      BY <3>2 DEF Takes, Tables
    <3>3. ~ UNCHANGED held
      BY <1>4
    <3> QED
      BY <1>1, <1>2, <1>4, <3>1, <3>2, <3>3 DEF TaskSteps, ExpireClaim, worker, Proceeds, Exits
  <2>3. \A k \in Claimable : k \in {"export", "import", "history", "account"}
    BY KindsAssumption DEF Claimable
  <2>4. wpc'[w] # "remove"
    BY <2>2, <2>3 DEF Takes, Goto, FirstStep, Tables
  <2> QED
    BY <2>1, <2>4
<1> QED
  BY <1>3, <1>4

LEMMA DeletedWithUser ==
  ASSUME Tables, NEW w \in Workers, DeleteUser(w), NEW e \in Exports
  PROVE  export'[e].status \in {"none", "deleted"} /\ (export[e].status # "none" => export'[e].status = "deleted")
  BY DEF DeleteUser, Update, Status, Tables, ExportRows

LEMMA ExportsOwnedStep ==
  ASSUME Tables, Ids, Stages, References, OneTask, OneWorkerPerTask, ExportsOwned, Next
  PROVE  ExportsOwned'
<1>1. \A k \in Kinds : RowBecomes(k)
  BY TablesSteps, RowSteps DEF RowsFollow
<1>2. ASSUME NEW w \in Workers, Working(w)', held'[w].kind = "export"
      PROVE  export'[Export(w)'].status = "deleted" \/ Mine(w, "export")'
  <2>1. CASE held'[w] = held[w] /\ held[w] # None /\ Working(w)
    <3>1. held[w].kind = "export" /\ Export(w)' = Export(w)
      BY <1>2, <2>1 DEF Export
    <3>2. Export(w) \in Exports /\ "export" \in Kinds /\ export[Export(w)].status # "none"
      BY <2>1, <3>1, RunningExport
    <3>3. CASE export[Export(w)].status = "deleted"
      BY <3>1, <3>2, <3>3, ExportStatus
    <3>4. CASE Mine(w, "export") /\ Queued("export")'
      BY <1>1, <2>1, <3>2, <3>4 DEF RowBecomes, SameRow, Mine
    <3>5. CASE Mine(w, "export") /\ ~Queued("export")'
      <4>1. Queued("export") /\ task["export"].ref = Export(w)
        BY <3>2, <3>5 DEF Mine, Ids, Export
      <4>2. CASE DeleteExport(Export(w))
        BY <3>1, <3>2, <4>2 DEF DeleteExport, Status, Tables, ExportRows
      <4>3. ASSUME NEW v \in Workers, DeleteUser(v) PROVE export'[Export(w)'].status = "deleted"
        BY <3>1, <3>2, <4>3, DeletedWithUser
      <4>4. ASSUME NEW v \in Workers, Remove(v), Mine(v, "export") PROVE FALSE
        <5>1. Working(v) /\ held[v].id = held[w].id
          BY <3>5, <4>4 DEF Remove, Working, Mine
        <5>2. v = w
          BY <2>1, <5>1 DEF OneWorkerPerTask
        <5>3. wpc'[v] = "idle"
          BY <4>4 DEF Remove, GoIdle, Goto, Tables
        <5> QED
          BY <1>2, <5>2, <5>3 DEF Working
      <4> QED
        BY <3>2, <3>5, <4>1, <4>2, <4>3, <4>4, TaskLost
    <3> QED
      BY <2>1, <3>1, <3>3, <3>4, <3>5 DEF ExportsOwned
  <2>2. CASE \E k \in Kinds : Queued(k) /\ RowKept(k) /\ Taken(held'[w], k)
    BY <1>2, <2>2 DEF Taken, RowKept, SameRow, Mine
  <2> QED
    BY <1>2, <2>1, <2>2, WorkingStep
<1>3. ASSUME NEW w \in Workers, wpc'[w] = "remove", held'[w].kind = "export"
      PROVE  export'[Export(w)'].status \notin Unfinished
  <2>1. held'[w] = held[w] /\ held[w] # None /\ Working(w)
    BY <1>3, WorkingStep DEF Working
  <2>2. held[w].kind = "export" /\ Export(w)' = Export(w)
    BY <1>3, <2>1 DEF Export
  <2>3. Export(w) \in Exports /\ export[Export(w)].status # "none"
    BY <2>1, <2>2, RunningExport
  <2>4. CASE wpc[w] = "remove"
    <3>1. ASSUME NEW v \in Workers, BeginExport(v), Export(v) = Export(w) PROVE FALSE
      <4>1. wpc[v] = "begin export" /\ Working(v) /\ held[v] # None
        BY <3>1 DEF BeginExport, Working, Tables
      <4>2. held[v].kind = "export"
        BY <4>1 DEF Stages, ExportSteps
      <4> QED
        BY <2>1, <2>2, <2>4, <3>1, <4>1, <4>2, OneRun DEF Export
    <3>2. export[Export(w)].status \notin Unfinished
      BY <2>1, <2>2, <2>4 DEF ExportsOwned
    <3> QED
      BY <2>2, <2>3, <3>1, <3>2, ExportStatus
  <2>5. CASE wpc[w] # "remove"
    <3>1. CASE LoadExport(w) /\ export[Export(w)].status = "deleted"
      BY <2>2, <3>1 DEF LoadExport, rows, Unfinished
    <3>2. CASE FinishExport(w)
      <4>1. export' = Update(export, Export(w), "completed")
        BY <3>2 DEF FinishExport, SetExport
      <4>2. export'[Export(w)].status \in {"none", "deleted", "completed"}
        BY <2>3, <4>1, UpdatedExport
      <4> QED
        BY <2>2, <4>2 DEF Unfinished
    <3> QED
      BY <1>3, <2>2, <2>5, <3>1, <3>2, RemovesExport
  <2> QED
    BY <2>4, <2>5
<1>4. ASSUME NEW e \in Exports, export'[e].status \in Unfinished PROVE HasTask("export", e)'
  <2>1. CASE export[e].status \in Unfinished
    <3>1. HasTask("export", e)
      BY <2>1 DEF ExportsOwned, ExportHasTask
    <3>2. ASSUME DeleteExport(e) PROVE FALSE
      BY <1>4, <3>2 DEF DeleteExport, Status, Tables, ExportRows, Unfinished
    <3>3. ASSUME NEW w \in Workers, DeleteUser(w) PROVE FALSE
      BY <1>4, <3>3, DeletedWithUser DEF Unfinished
    <3>4. ASSUME NEW w \in Workers, Remove(w), Mine(w, "export") PROVE FALSE
      <4>1. /\ wpc[w] = "remove" /\ Working(w)
            /\ held[w].kind = "export" /\ Export(w) = e
        BY <3>1, <3>4 DEF Remove, Working, Mine, Ids, HasTask, Export
      <4> QED
        BY <2>1, <4>1 DEF ExportsOwned
    <3>5. Queued("export")'
      BY <3>1, <3>2, <3>3, <3>4, TaskLost DEF HasTask
    <3> QED
      BY <1>1, <3>1, <3>5 DEF HasTask, RowBecomes, SameRow
  <2>2. CASE RequestExport(e)
    BY <2>2, NoneAssumption DEF RequestExport, AddTask, HasTask, Queued, Tables
  <2>3. ASSUME NEW w \in Workers, BeginExport(w), Export(w) = e, export[e].status # "deleted"
        PROVE  HasTask("export", e)'
    <3>1. UNCHANGED task /\ wpc[w] = "begin export"
      BY <2>3 DEF BeginExport
    <3>2. held[w].kind = "export" /\ Working(w)
      BY <3>1 DEF Stages, ExportSteps, Working
    <3>3. Mine(w, "export")
      BY <2>3, <3>2 DEF ExportsOwned
    <3>4. HasTask("export", e)
      BY <2>3, <3>3 DEF Mine, Ids, HasTask, Export
    <3> QED
      BY <3>1, <3>4 DEF HasTask, Queued
  <2> QED
    BY <1>4, <2>1, <2>2, <2>3, ExportStatus
<1> QED
  BY <1>2, <1>3, <1>4 DEF ExportsOwned, ExportHasTask

-----------------------------------------------------------------------------
(* Imports that have finished. *)

Begun == Running \cup {"fail import"}

\* A worker that has begun an import finishes or fails one that has not ended.
ImportsOwned ==
    \A w \in Workers : wpc[w] \in Begun => import[Import(w)].status \in Unfinished \cup {"deleted"}

LEMMA BegunStep ==
  ASSUME Tables, Next, NEW w \in Workers, wpc'[w] \in Begun
  PROVE  \/ wpc[w] \in Begun /\ held'[w] = held[w]
         \/ LoadImport(w) /\ import[Import(w)].status \in Unfinished
<1> USE DEF Tables, Goto, GoIdle, Begun, Running, InImport
<1>1. Request \/ CleanUp \/ (\E k \in Kinds : ExpireClaim(k)) => UNCHANGED <<wpc, held>>
  BY DEF Request, RequestExport, DeleteExport, RequestImport, UploadFile, CreateImport, ImportRequestFails,
      CancelImport, CommitCancel, CancelFails, RequestDeletion, Hear, CleanUp, ListExports, SweepArchives,
      AgeFile, ListFiles, SweepFiles, ExpireClaim, worker
<1>2. ASSUME NEW v \in Workers, Claim(v) PROVE wpc'[w] = wpc[w] /\ held'[w] = held[w]
  <2>1. \A k \in Claimable : k \in {"export", "import", "history", "account"}
    BY KindsAssumption DEF Claimable
  <2>2. \A k \in Claimable : FirstStep(k) \notin Begun
    BY <2>1 DEF FirstStep
  <2>3. PICK k \in Claimable :
          /\ wpc' = [wpc EXCEPT ![v] = FirstStep(k)]
          /\ held' = [held EXCEPT ![v] = [kind |-> k, id |-> task[k].id, ref |-> task[k].ref]]
    BY <1>2 DEF Claim
  <2>4. v # w
    BY <2>2, <2>3
  <2> QED
    BY <2>3, <2>4
<1>3. ASSUME NEW v \in Workers, Fail(v) \/ Shutdown(v) \/ Crash(v) PROVE wpc[w] \in Begun /\ held'[w] = held[w]
  <2>1. CASE v # w
    BY <1>3, <2>1 DEF Fail, Shutdown, Crash
  <2>2. CASE v = w /\ Fail(v)
    BY <2>2 DEF Fail, InExport
  <2>3. CASE v = w /\ (Shutdown(v) \/ Crash(v))
    BY <2>3 DEF Shutdown, Crash
  <2> QED
    BY <1>3, <2>1, <2>2, <2>3
<1>4. ASSUME NEW v \in Workers, WorkerStep(v), ~LoadImport(v)
      PROVE  wpc[w] \in Begun /\ held'[w] = held[w]
  <2>1. CASE Release(v) \/ Remove(v) \/ UnlinkFile(v)
    BY <2>1 DEF Release, Remove, UnlinkFile
  <2>2. CASE BeginImport(v) \/ FetchFile(v) \/ SubmitListens(v) \/ FinishImport(v) \/ FailImport(v)
    BY <2>2 DEF BeginImport, SetImport, FetchFile, SubmitListens, FinishImport, FailImport
  <2>3. CASE LoadExport(v) \/ BeginExport(v) \/ UploadArchive(v) \/ FinishExport(v) \/ MarkExportFailed(v)
    BY <2>3 DEF LoadExport, BeginExport, UploadArchive, FinishExport, MarkExportFailed, SetExport
  <2>4. CASE DeleteListens(v) \/ DeleteUser(v)
    BY <2>4 DEF DeleteListens, DeleteUser
  <2> QED
    BY <1>4, <2>1, <2>2, <2>3, <2>4 DEF WorkerStep
<1>5. ASSUME NEW v \in Workers, LoadImport(v)
      PROVE  \/ wpc[w] \in Begun /\ held'[w] = held[w]
             \/ LoadImport(w) /\ import[Import(w)].status \in Unfinished
  BY <1>5 DEF LoadImport
<1> QED
  BY <1>1, <1>2, <1>3, <1>4, <1>5 DEF Next

\* A status is changed by the request, a cancellation, the end of the account, and a worker of the import.
LEMMA ImportStatus ==
  ASSUME Tables, Stages, References, CancelOnce, Next, NEW i \in Imports, import'[i].status # import[i].status
  PROVE  \/ import[i].status = "none"
         \/ import'[i].status = "deleted"
         \/ \E w \in Workers : BeginImport(w) /\ Import(w) = i /\ import'[i].status = "in_progress"
         \/ \E w \in Workers : (FinishImport(w) \/ FailImport(w)) /\ Import(w) = i
<1>1. ASSUME NEW j \in Imports, CreateImport(j) PROVE import[i].status = "none"
  <2>1. asking[j] # "answered" /\ import[j].status = "none"
    BY <1>1, ServicesAssumption DEF CreateImport, CancelOnce
  <2> QED
    BY <1>1, <2>1 DEF CreateImport, Tables
<1>2. ASSUME NEW j \in Imports, CommitCancel(j) PROVE import'[i].status = "deleted"
  BY <1>2, UpdatedImport DEF CommitCancel
<1>3. ASSUME NEW w \in Workers, BeginImport(w) PROVE Import(w) = i /\ import'[i].status = "in_progress"
  <2>1. import' = Update(import, Import(w), "in_progress")
    BY <1>3 DEF BeginImport, SetImport, rows
  <2> QED
    BY <2>1, UpdatedImport
<1>4. ASSUME NEW w \in Workers, FinishImport(w) \/ FailImport(w) PROVE Import(w) = i
  <2>1. PICK st \in {"completed", "failed"} : import' = Update(import, Import(w), st)
    BY <1>4 DEF FinishImport, FailImport, SetImport
  <2> QED
    BY <2>1, UpdatedImport
<1>5. ASSUME NEW w \in Workers, DeleteUser(w) PROVE import'[i].status = "deleted"
  BY <1>5 DEF DeleteUser, Update, Status, Tables, ImportRows
<1> QED
  BY <1>1, <1>2, <1>3, <1>4, <1>5, ImportChanges

LEMMA ImportsOwnedStep ==
  ASSUME Tables, Stages, References, OneTask, OneWorkerPerTask, CancelOnce, ImportsOwned, Next
  PROVE  ImportsOwned'
<1> SUFFICES ASSUME NEW w \in Workers, wpc'[w] \in Begun
             PROVE  import'[Import(w)'].status \in Unfinished \cup {"deleted"}
  BY DEF ImportsOwned
<1>1. CASE LoadImport(w) /\ import[Import(w)].status \in Unfinished
  BY <1>1 DEF LoadImport, rows, Import
<1>2. CASE wpc[w] \in Begun /\ held'[w] = held[w]
  <2>1. wpc[w] \in ImportSteps /\ Working(w)
    BY <1>2 DEF Begun, Running, InImport, ImportSteps, Working
  <2>2. held[w] # None /\ held[w].kind = "import" /\ Import(w) \in Imports
    BY <2>1, RunningImport
  <2>3. Import(w)' = Import(w) /\ import[Import(w)].status \in Unfinished \cup {"deleted"}
    BY <1>2 DEF Import, ImportsOwned
  <2>4. ASSUME NEW v \in Workers, FinishImport(v) \/ FailImport(v), Import(v) = Import(w) PROVE FALSE
    <3>1. wpc[v] \in ImportSteps /\ Working(v) /\ wpc'[v] = "unlink file"
      BY <2>4 DEF FinishImport, FailImport, SetImport, ImportSteps, Working, Goto, Tables
    <3>2. held[v] # None /\ held[v].kind = "import"
      BY <3>1, RunningImport
    <3>3. v = w
      BY <2>1, <2>2, <2>4, <3>1, <3>2, OneRun DEF Import
    <3> QED
      BY <3>1, <3>3 DEF Begun, Running, InImport
  <2> QED
    BY <2>2, <2>3, <2>4, ImportStatus DEF Unfinished
<1> QED
  BY <1>1, <1>2, BegunStep

Inductive ==
    /\ Tables /\ Ids /\ Exclusive /\ References /\ Stages
    /\ CancelOnce /\ OneTask /\ ExportsOwned /\ ImportsOwned

LEMMA InductiveHolds == ASSUME SlowWorkers = FALSE PROVE Spec => []Inductive
<1>1. Init => Inductive
  <2>1. Init => Tables
    BY TablesInit
  <2>2. Init => Ids /\ Exclusive
    BY DEF Init, Ids, Exclusive, Queued, Mine, Working, OneWorkerPerTask
  <2>3. Init => References /\ Stages /\ OneTask
    BY DEF Init, References, Stages, Queued, ImportSteps, ExportSteps, DeletionSteps, OneTask
  <2>4. Init => CancelOnce /\ ImportsOwned
    BY DEF Init, CancelOnce, CancelledNotImported, Begun, Running, InImport, ImportsOwned
  <2>5. Init => ExportsOwned
    BY DEF Init, ExportsOwned, ExportHasTask, Working, Unfinished
  <2> QED
    BY <2>1, <2>2, <2>3, <2>4, <2>5 DEF Inductive
<1>2. Inductive /\ [Next]_vars => Inductive'
  <2> SUFFICES ASSUME Inductive, [Next]_vars PROVE Inductive'
    OBVIOUS
  <2> USE DEF Inductive
  <2>1. CASE Next
    <3>1. TaskSteps /\ Tables' /\ Ids' /\ Exclusive'
      BY <2>1, TablesStep, TablesSteps, IdsStep, ExclusiveStep
    <3>2. References' /\ Stages' /\ OneTask'
      BY <2>1, <3>1, ReferencesStep, StagesStep, OneTaskStep
    <3>3. CancelOnce'
      BY <2>1, RequestsAside, WorkersAside, CleanUpAside, CancelOnceAside, CancelOnceRequests, CancelOnceRuns DEF Next
    <3>4. ExportsOwned' /\ ImportsOwned'
      BY <2>1, ExportsOwnedStep, ImportsOwnedStep DEF Exclusive
    <3> QED
      BY <3>1, <3>2, <3>3, <3>4
  <2>2. CASE UNCHANGED vars
    <3>1. UNCHANGED <<task, last, export, import, asking, cancelling, files, heard, wpc, held, asked, submitted,
                      cancelled, spoiled>>
      BY <2>2 DEF vars, rows, user, worker, tracked, web, store
    <3>2. Tables' /\ Ids' /\ Exclusive'
      BY <2>2, <3>1, TablesStep DEF Ids, Exclusive, Queued, Mine, Working, OneWorkerPerTask
    <3>3. References' /\ Stages' /\ OneTask'
      BY <3>1 DEF References, Stages, OneTask, Made, Queued
    <3>4. CancelOnce' /\ ImportsOwned'
      BY <3>1 DEF CancelOnce, CancelledNotImported, ImportsOwned, Import
    <3>5. ExportsOwned'
      BY <3>1 DEF ExportsOwned, ExportHasTask, HasTask, Working, Mine, Queued, Export
    <3> QED
      BY <3>2, <3>3, <3>4, <3>5
  <2> QED
    BY <2>1, <2>2
<1> QED
  BY <1>1, <1>2, PTL DEF Spec

\* An unfinished export has the task that will finish it or mark it as failed, however tasks fail, are shut down
\* and are run again, as long as none outlasts CLAIM_TIMEOUT_HOURS.
THEOREM ExportHasTaskCorrect ==
  ASSUME SlowWorkers = FALSE PROVE Spec => []ExportHasTask
<1>1. Inductive => ExportHasTask
  BY DEF Inductive, ExportsOwned
<1> QED
  BY <1>1, InductiveHolds, PTL

\* FINISHED_STATUSES: an import that has finished is not run again when its task is.
THEOREM FinishedImportsStayCorrect ==
  ASSUME SlowWorkers = FALSE PROVE Spec => FinishedImportsStay
<1> DEFINE Stay == \A i \in Imports : import[i].status \in FINISHED_STATUSES
                                        => import'[i].status \in {import[i].status, "deleted"}
<1>1. Inductive /\ [Next]_vars => [Stay]_vars
  <2> SUFFICES ASSUME Inductive, Next, NEW i \in Imports, import[i].status \in FINISHED_STATUSES
               PROVE  import'[i].status \in {import[i].status, "deleted"}
    OBVIOUS
  <2>1. ASSUME NEW w \in Workers, BeginImport(w) \/ FinishImport(w) \/ FailImport(w), Import(w) = i PROVE FALSE
    <3>1. wpc[w] \in Begun
      BY <2>1 DEF BeginImport, FinishImport, FailImport, SetImport, Begun, Running, InImport
    <3> QED
      BY <2>1, <3>1 DEF Inductive, ImportsOwned, Unfinished, FINISHED_STATUSES
  <2> QED
    BY <2>1, ImportStatus DEF Inductive, FINISHED_STATUSES
<1> QED
  BY <1>1, InductiveHolds, PTL DEF Spec, FinishedImportsStay

-----------------------------------------------------------------------------
(* The files of imports that can still run. *)

\* The clean-up job lists no file of a request that is still on its way.
UploadsKept ==
    /\ old \subseteq files /\ drop \subseteq old
    /\ \A i \in Imports : (asking[i] = None => i \notin files) /\ (asking[i] \in Services => i \notin old)

\* What it has listed, no import needs when it comes to delete it.
NeededKept ==
    \A i \in Imports \ spoiled :
        import[i].status \in Unfinished /\ i \notin cancelling => i \in files /\ i \notin drop

\* A worker deletes the file of its import after its end, or after an interruption.
UnlinkedLate ==
    \A w \in Workers :
        /\ wpc[w] = "unlink file" => import[Import(w)].status \notin Unfinished
        /\ wpc[w] \in {"unlink and release", "unlink and exit"} => Import(w) \in spoiled

FilesInv == Inductive /\ UploadsKept /\ NeededKept /\ UnlinkedLate

\* Which steps upload, age, list and delete files, ...
LEMMA FileChanges ==
  ASSUME Next
  PROVE  \/ UNCHANGED <<files, old, drop>>
         \/ \E i \in Imports : UploadFile(i) \/ CreateImport(i) \/ ImportRequestFails(i) \/ CancelImport(i) \/ AgeFile(i)
         \/ \E w \in Workers : LoadImport(w) \/ UnlinkFile(w)
         \/ ListFiles \/ SweepFiles
<1>1. CASE Request
  BY <1>1 DEF Request, RequestExport, DeleteExport, RequestImport, CommitCancel, CancelFails, RequestDeletion, Hear,
      store, cleanup
<1>2. ASSUME NEW w \in Workers, WorkerStep(w)
      PROVE  UNCHANGED <<files, old, drop>> \/ LoadImport(w) \/ UnlinkFile(w)
  BY <1>2 DEF WorkerStep, Release, Remove, BeginImport, SetImport, FinishImport, FailImport, FetchFile, SubmitListens,
      LoadExport, BeginExport, UploadArchive, FinishExport, SetExport, MarkExportFailed, DeleteListens, DeleteUser,
      store, cleanup
<1>3. ASSUME NEW w \in Workers, Claim(w) \/ Fail(w) \/ Shutdown(w) \/ Crash(w) PROVE UNCHANGED <<files, old, drop>>
  BY <1>3 DEF Claim, Fail, Shutdown, Crash, store, cleanup
<1>4. ASSUME NEW k \in Kinds, ExpireClaim(k) PROVE UNCHANGED <<files, old, drop>>
  BY <1>4 DEF ExpireClaim, store, cleanup
<1>5. CASE CleanUp
  BY <1>5 DEF CleanUp, ListExports, SweepArchives, store
<1> QED
  BY <1>1, <1>2, <1>3, <1>4, <1>5 DEF Next

\* ... and which start and end cancellations, or interrupt imports.
LEMMA CancellingChanges ==
  ASSUME Next
  PROVE  /\ spoiled \subseteq spoiled'
         /\ UNCHANGED cancelling \/ \E i \in Imports : CancelImport(i) \/ CommitCancel(i) \/ CancelFails(i)
<1>1. CASE Request
  BY <1>1 DEF Request, RequestExport, DeleteExport, RequestImport, UploadFile, CreateImport, ImportRequestFails,
      CancelImport, CommitCancel, CancelFails, RequestDeletion, Hear, web, tracked
<1>2. ASSUME NEW w \in Workers, WorkerStep(w) PROVE UNCHANGED <<cancelling, spoiled>>
  <2>1. CASE Release(w) \/ Remove(w) \/ LoadImport(w) \/ FetchFile(w) \/ SubmitListens(w) \/ UnlinkFile(w)
    BY <2>1 DEF Release, Remove, LoadImport, FetchFile, SubmitListens, UnlinkFile, web, tracked
  <2>2. CASE BeginImport(w) \/ FinishImport(w) \/ FailImport(w)
    BY <2>2 DEF BeginImport, SetImport, FinishImport, FailImport, web, tracked
  <2>3. CASE LoadExport(w) \/ BeginExport(w) \/ UploadArchive(w) \/ FinishExport(w) \/ MarkExportFailed(w)
    BY <2>3 DEF LoadExport, BeginExport, UploadArchive, FinishExport, SetExport, MarkExportFailed, web, tracked
  <2>4. CASE DeleteListens(w) \/ DeleteUser(w)
    BY <2>4 DEF DeleteListens, DeleteUser, web, tracked
  <2> QED
    BY <1>2, <2>1, <2>2, <2>3, <2>4 DEF WorkerStep
<1>3. ASSUME NEW w \in Workers, Claim(w) \/ Fail(w) \/ Shutdown(w) \/ Crash(w)
      PROVE  UNCHANGED cancelling /\ spoiled \subseteq spoiled'
  BY <1>3 DEF Claim, Fail, Shutdown, Crash, web, tracked
<1>4. ASSUME NEW k \in Kinds, ExpireClaim(k) PROVE UNCHANGED <<cancelling, spoiled>>
  BY <1>4 DEF ExpireClaim, web, tracked
<1>5. CleanUp => UNCHANGED <<cancelling, spoiled>>
  BY DEF CleanUp, ListExports, SweepArchives, AgeFile, ListFiles, SweepFiles, web, tracked
<1> QED
  BY <1>1, <1>2, <1>3, <1>4, <1>5 DEF Next

LEMMA UploadsStep ==
  ASSUME Tables, UploadsKept, Next
  PROVE  UploadsKept'
<1> USE ServicesAssumption DEF UploadsKept, Tables
<1>1. \A i \in Imports :
         /\ asking'[i] = None => asking[i] = None
         /\ asking'[i] \in Services => asking[i] \in Services \cup {None}
  <2>1. ASSUME NEW j \in Imports, RequestImport(j) PROVE asking[j] = None /\ \E s \in Services : asking' = [asking EXCEPT ![j] = s]
    BY <2>1 DEF RequestImport
  <2>2. ASSUME NEW j \in Imports, CreateImport(j) \/ ImportRequestFails(j) PROVE asking' = [asking EXCEPT ![j] = "answered"]
    BY <2>2 DEF CreateImport, ImportRequestFails
  <2> QED
    BY <2>1, <2>2, AskingChanges
<1>2. CASE UNCHANGED <<files, old, drop>>
  BY <1>1, <1>2
<1>3. ASSUME NEW i \in Imports, UploadFile(i) PROVE UploadsKept'
  <2>1. asking[i] \in Services /\ files' = files \cup {i} /\ UNCHANGED <<old, asking, drop>>
    BY <1>3 DEF UploadFile, web, cleanup
  <2> QED
    BY <2>1
<1>4. ASSUME NEW i \in Imports, CreateImport(i) \/ ImportRequestFails(i) PROVE UploadsKept'
  <2>1. /\ asking[i] \in Services /\ asking'[i] = "answered" /\ UNCHANGED <<old, drop>>
        /\ files' \in {files, files \ {i}}
    BY <1>4 DEF CreateImport, ImportRequestFails, cleanup
  <2> QED
    BY <1>1, <2>1
<1>5. ASSUME NEW i, RemoveFile(i), UNCHANGED asking PROVE UploadsKept'
  BY <1>5 DEF RemoveFile
<1>6. ASSUME NEW i \in Imports, CancelImport(i) PROVE UploadsKept'
  <2>1. UNCHANGED asking /\ (RemoveFile(i) \/ UNCHANGED <<files, old, drop>>)
    BY <1>6 DEF CancelImport
  <2> QED
    BY <1>5, <2>1
<1>7. ASSUME NEW w \in Workers, LoadImport(w) \/ UnlinkFile(w) PROVE UploadsKept'
  <2>1. UNCHANGED asking /\ (RemoveFile(Import(w)) \/ UNCHANGED <<files, old, drop>>)
    BY <1>7 DEF LoadImport, UnlinkFile, web
  <2> QED
    BY <1>5, <2>1
<1>8. ASSUME NEW i \in Imports, AgeFile(i) PROVE UploadsKept'
  BY <1>8 DEF AgeFile, web, cleanup
<1>9. CASE ListFiles \/ SweepFiles
  BY <1>9 DEF ListFiles, SweepFiles, Dropped, store, web
<1> QED
  BY <1>2, <1>3, <1>4, <1>6, <1>7, <1>8, <1>9, FileChanges

\* A worker comes to delete the file of its import when the import ends, fails or is interrupted.
LEMMA UnlinkStep ==
  ASSUME Tables, Next, NEW w \in Workers, wpc'[w] \in {"unlink file", "unlink and release", "unlink and exit"}
  PROVE  /\ held'[w] = held[w] /\ wpc[w] \in ImportSteps
         /\ \/ wpc'[w] = wpc[w]
            \/ wpc'[w] = "unlink file" /\ (FinishImport(w) \/ FailImport(w))
            \/ wpc'[w] # "unlink file" /\ Import(w) \in spoiled'
<1> USE DEF Tables, Goto, GoIdle, ImportSteps
<1>1. Request \/ CleanUp \/ (\E k \in Kinds : ExpireClaim(k)) => UNCHANGED <<wpc, held>>
  BY DEF Request, RequestExport, DeleteExport, RequestImport, UploadFile, CreateImport, ImportRequestFails,
      CancelImport, CommitCancel, CancelFails, RequestDeletion, Hear, CleanUp, ListExports, SweepArchives,
      AgeFile, ListFiles, SweepFiles, ExpireClaim, worker
<1>2. ASSUME NEW v \in Workers, Claim(v) PROVE wpc'[w] = wpc[w] /\ held'[w] = held[w]
  <2>1. \A k \in Claimable : k \in {"export", "import", "history", "account"}
    BY KindsAssumption DEF Claimable
  <2>2. \A k \in Claimable : FirstStep(k) \notin {"unlink file", "unlink and release", "unlink and exit"}
    BY <2>1 DEF FirstStep
  <2>3. PICK k \in Claimable :
          /\ wpc' = [wpc EXCEPT ![v] = FirstStep(k)]
          /\ held' = [held EXCEPT ![v] = [kind |-> k, id |-> task[k].id, ref |-> task[k].ref]]
    BY <1>2 DEF Claim
  <2>4. v # w
    BY <2>2, <2>3
  <2> QED
    BY <2>3, <2>4
<1>3. ASSUME NEW v \in Workers \ {w}, WorkerStep(v) \/ Fail(v) \/ Shutdown(v) \/ Crash(v)
      PROVE  wpc'[w] = wpc[w] /\ held'[w] = held[w]
  <2>1. CASE Release(v) \/ Remove(v) \/ LoadImport(v) \/ FetchFile(v) \/ SubmitListens(v) \/ UnlinkFile(v)
    BY <2>1 DEF Release, Remove, LoadImport, FetchFile, SubmitListens, UnlinkFile
  <2>2. CASE BeginImport(v) \/ FinishImport(v) \/ FailImport(v)
    BY <2>2 DEF BeginImport, SetImport, FinishImport, FailImport
  <2>3. CASE LoadExport(v) \/ BeginExport(v) \/ UploadArchive(v) \/ FinishExport(v) \/ MarkExportFailed(v)
    BY <2>3 DEF LoadExport, BeginExport, UploadArchive, FinishExport, SetExport, MarkExportFailed
  <2>4. CASE DeleteListens(v) \/ DeleteUser(v)
    BY <2>4 DEF DeleteListens, DeleteUser
  <2>5. CASE Fail(v) \/ Shutdown(v) \/ Crash(v)
    BY <2>5 DEF Fail, Shutdown, Crash
  <2> QED
    BY <1>3, <2>1, <2>2, <2>3, <2>4, <2>5 DEF WorkerStep
<1>4. ASSUME WorkerStep(w) PROVE FinishImport(w) \/ FailImport(w)
  <2>1. ~ (Release(w) \/ Remove(w) \/ LoadImport(w) \/ FetchFile(w) \/ SubmitListens(w))
    BY DEF Release, Remove, LoadImport, FetchFile, SubmitListens
  <2>2. ~ UnlinkFile(w)
    BY DEF UnlinkFile
  <2>3. ~ BeginImport(w)
    BY DEF BeginImport, SetImport
  <2>4. ~ (LoadExport(w) \/ BeginExport(w) \/ UploadArchive(w) \/ FinishExport(w) \/ MarkExportFailed(w))
    BY DEF LoadExport, BeginExport, UploadArchive, FinishExport, SetExport, MarkExportFailed
  <2>5. ~ (DeleteListens(w) \/ DeleteUser(w))
    BY DEF DeleteListens, DeleteUser
  <2> QED
    BY <1>4, <2>1, <2>2, <2>3, <2>4, <2>5 DEF WorkerStep
<1>5. ASSUME FinishImport(w) \/ FailImport(w)
      PROVE  wpc'[w] = "unlink file" /\ held'[w] = held[w] /\ wpc[w] \in ImportSteps
  BY <1>5 DEF FinishImport, FailImport, SetImport
<1>6. ASSUME Fail(w) \/ Shutdown(w) \/ Crash(w)
      PROVE  held'[w] = held[w] /\ wpc[w] \in ImportSteps /\ wpc'[w] # "unlink file" /\ Import(w) \in spoiled'
  BY <1>6 DEF Fail, Shutdown, Crash, InImport, InExport
<1> QED
  BY <1>1, <1>2, <1>3, <1>4, <1>5, <1>6 DEF Next

\* An import becomes unfinished when its request is accepted, or when a worker begins it.
LEMMA BecomesUnfinished ==
  ASSUME Tables, Next, NEW i \in Imports, import[i].status \notin Unfinished, import'[i].status \in Unfinished
  PROVE  CreateImport(i) \/ \E w \in Workers : BeginImport(w) /\ Import(w) = i
<1> USE DEF Unfinished
<1>1. ASSUME NEW j \in Imports, CreateImport(j) PROVE i = j
  BY <1>1 DEF CreateImport, Tables
<1>2. ASSUME NEW j \in Imports, CommitCancel(j) PROVE FALSE
  BY <1>2, UpdatedImport DEF CommitCancel
<1>3. ASSUME NEW w \in Workers, BeginImport(w) PROVE Import(w) = i
  <2>1. import' = Update(import, Import(w), "in_progress")
    BY <1>3 DEF BeginImport, SetImport, rows
  <2> QED
    BY <2>1, UpdatedImport
<1>4. ASSUME NEW w \in Workers, FinishImport(w) \/ FailImport(w) PROVE FALSE
  <2>1. PICK st \in {"completed", "failed"} : import' = Update(import, Import(w), st)
    BY <1>4 DEF FinishImport, FailImport, SetImport
  <2> QED
    BY <2>1, UpdatedImport
<1>5. ASSUME NEW w \in Workers, DeleteUser(w) PROVE FALSE
  BY <1>5 DEF DeleteUser, Update, Status, Tables, ImportRows
<1> QED
  BY <1>1, <1>2, <1>3, <1>4, <1>5, ImportChanges

LEMMA UnlinkedStep ==
  ASSUME Inductive, UnlinkedLate, Next
  PROVE  UnlinkedLate'
<1> SUFFICES ASSUME NEW w \in Workers, wpc'[w] \in {"unlink file", "unlink and release", "unlink and exit"}
             PROVE  /\ wpc'[w] = "unlink file" => import'[Import(w)'].status \notin Unfinished
                    /\ wpc'[w] \in {"unlink and release", "unlink and exit"} => Import(w)' \in spoiled'
  BY DEF UnlinkedLate
<1>1. held'[w] = held[w] /\ wpc[w] \in ImportSteps /\ Import(w)' = Import(w)
  BY UnlinkStep DEF Inductive, Import
<1>2. held[w] # None /\ held[w].kind = "import" /\ Import(w) \in Imports
  BY <1>1, RunningImport DEF Inductive
<1>3. CASE wpc'[w] = "unlink file"
  <2>1. CASE FinishImport(w) \/ FailImport(w)
    <3>1. PICK st \in {"completed", "failed"} : import' = Update(import, Import(w), st)
      BY <2>1 DEF FinishImport, FailImport, SetImport
    <3>2. import'[Import(w)].status \in {"none", "deleted", st}
      BY <1>2, <3>1, UpdatedImport DEF Inductive
    <3> QED
      BY <1>1, <1>3, <3>2 DEF Unfinished
  <2>2. CASE wpc[w] = "unlink file"
    <3>1. import[Import(w)].status \notin Unfinished /\ Working(w)
      BY <2>2 DEF UnlinkedLate, Working
    <3>2. asking[Import(w)] = "answered"
      BY <1>2 DEF Inductive, OneTask, Made, Import
    <3>3. ASSUME NEW v \in Workers, BeginImport(v), Import(v) = Import(w) PROVE FALSE
      <4>1. wpc[v] = "begin import" /\ Working(v)
        BY <3>3 DEF BeginImport, SetImport, Working
      <4>2. held[v] # None /\ held[v].kind = "import"
        BY <4>1, RunningImport DEF Inductive, ImportSteps
      <4>3. v = w
        BY <1>2, <3>1, <3>3, <4>1, <4>2, OneRun DEF Inductive, Exclusive, Import
      <4> QED
        BY <2>2, <4>1, <4>3
    <3>4. ~ CreateImport(Import(w))
      BY <3>2, ServicesAssumption DEF CreateImport
    <3>5. import'[Import(w)].status \notin Unfinished
      BY <1>2, <3>1, <3>3, <3>4, BecomesUnfinished DEF Inductive
    <3> QED
      BY <1>1, <1>3, <3>5
  <2> QED
    BY <1>3, <2>1, <2>2, UnlinkStep DEF Inductive
<1>4. CASE wpc'[w] # "unlink file"
  BY <1>1, <1>4, UnlinkStep, CancellingChanges DEF Inductive, UnlinkedLate
<1> QED
  BY <1>3, <1>4

LEMMA NeededStep ==
  ASSUME FilesInv, Next
  PROVE  NeededKept'
<1> USE DEF FilesInv, Inductive
<1> SUFFICES ASSUME NEW i \in Imports, i \notin spoiled', import'[i].status \in Unfinished, i \notin cancelling'
             PROVE  i \in files' /\ i \notin drop'
  BY DEF NeededKept
<1>1. i \notin spoiled
  BY CancellingChanges
<1>2. CASE import[i].status \in Unfinished
  <2>1. i \notin cancelling
    <3>1. ASSUME NEW j \in Imports, CommitCancel(j), i = j PROVE FALSE
      BY <1>2, <3>1, UpdatedImport DEF CommitCancel, Unfinished
    <3>2. ASSUME NEW j \in Imports, CancelFails(j) PROVE i # j
      BY <3>2 DEF CancelFails
    <3>3. \A j \in Imports : CommitCancel(j) \/ CancelFails(j) => cancelling' = cancelling \ {j}
      BY DEF CommitCancel, CancelFails
    <3>4. \A j \in Imports : CancelImport(j) => cancelling' = cancelling \cup {j}
      BY DEF CancelImport
    <3> QED
      BY <3>1, <3>2, <3>3, <3>4, CancellingChanges
  <2>2. i \in files /\ i \notin drop /\ asking[i] \notin Services
    BY <1>1, <1>2, <2>1, ServicesAssumption DEF NeededKept, CancelOnce, Unfinished
  <2>3. ASSUME NEW j \in Imports, UploadFile(j) \/ CreateImport(j) \/ ImportRequestFails(j) \/ AgeFile(j)
        PROVE  i \in files' /\ i \notin drop'
    BY <2>2, <2>3 DEF UploadFile, CreateImport, ImportRequestFails, AgeFile, store, cleanup
  <2>4. ASSUME NEW j \in Imports, CancelImport(j) PROVE i \in files' /\ i \notin drop'
    <3>1. i # j
      BY <2>4 DEF CancelImport
    <3> QED
      BY <2>2, <2>4, <3>1 DEF CancelImport, RemoveFile
  <2>5. ASSUME NEW w \in Workers, LoadImport(w) \/ UnlinkFile(w) PROVE i \in files' /\ i \notin drop'
    <3>1. \/ UNCHANGED <<files, drop>>
          \/ RemoveFile(Import(w)) /\ LoadImport(w) /\ import[Import(w)].status \in FINISHED_STATUSES
          \/ RemoveFile(Import(w)) /\ UnlinkFile(w)
      BY <2>5 DEF LoadImport, UnlinkFile
    <3>2. ASSUME import[Import(w)].status \in FINISHED_STATUSES PROVE Import(w) # i
      BY <1>2, <3>2 DEF Unfinished, FINISHED_STATUSES
    <3>3. ASSUME UnlinkFile(w) PROVE Import(w) # i
      BY <1>1, <1>2, <3>3 DEF UnlinkFile, UnlinkedLate
    <3> QED
      BY <2>2, <3>1, <3>2, <3>3 DEF RemoveFile
  <2>6. CASE ListFiles \/ SweepFiles
    BY <1>2, <2>2, <2>6 DEF ListFiles, SweepFiles, Dropped, NeededFiles, store
  <2> QED
    BY <2>2, <2>3, <2>4, <2>5, <2>6, FileChanges
<1>3. CASE import[i].status \notin Unfinished
  <2>1. CreateImport(i)
    <3>1. ASSUME NEW w \in Workers, BeginImport(w), Import(w) = i PROVE FALSE
      <4>1. wpc[w] = "begin import" /\ import' \in {import, Update(import, i, "in_progress")}
        BY <3>1 DEF BeginImport, SetImport, rows
      <4>2. import[i].status = "deleted"
        BY <1>3, <3>1, <4>1 DEF ImportsOwned, Begun, Running
      <4>3. import'[i].status = "deleted"
        BY <4>1, <4>2, UpdatedImport
      <4> QED
        BY <4>3 DEF Unfinished
    <3> QED
      BY <1>3, <3>1, BecomesUnfinished
  <2>2. ~ UNCHANGED import
    BY <1>3
  <2>3. files' = files /\ i \in files /\ asking[i] \in Services /\ drop' = drop
    BY <2>1, <2>2 DEF CreateImport, cleanup
  <2> QED
    BY <2>3 DEF UploadsKept
<1> QED
  BY <1>2, <1>3

\* The file of an import that can still run is in the bucket: the job that deletes the files no import needs takes its
\* list after it has read the rows, and leaves out what is younger than any request.
THEOREM UnfinishedHasFileCorrect ==
  ASSUME SlowWorkers = FALSE PROVE Spec => []UnfinishedHasFile
<1> DEFINE FilesHold == UploadsKept /\ NeededKept /\ UnlinkedLate
<1>1. Init => FilesHold
  BY NoneAssumption, ServicesAssumption DEF Init, UploadsKept, NeededKept, UnlinkedLate, Unfinished
<1>2. Inductive /\ FilesHold /\ [Next]_vars => FilesHold'
  <2> SUFFICES ASSUME Inductive, FilesHold, [Next]_vars PROVE FilesHold'
    OBVIOUS
  <2>1. CASE Next
    <3>1. UploadsKept' /\ UnlinkedLate'
      BY <2>1, UploadsStep, UnlinkedStep DEF Inductive
    <3>2. NeededKept'
      BY <2>1, NeededStep DEF FilesInv
    <3> QED
      BY <3>1, <3>2
  <2>2. CASE UNCHANGED vars
    <3>1. UNCHANGED <<import, asking, cancelling, files, old, drop, wpc, held, spoiled>>
      BY <2>2 DEF vars, rows, worker, tracked, web, store, cleanup
    <3> QED
      BY <3>1 DEF UploadsKept, NeededKept, UnlinkedLate, Import
  <2> QED
    BY <2>1, <2>2
<1>3. FilesHold => UnfinishedHasFile
  BY DEF NeededKept, UnfinishedHasFile
<1> QED
  BY <1>1, <1>2, <1>3, InductiveHolds, PTL DEF Spec

-----------------------------------------------------------------------------
(* The archives of exports that are completed. *)

\* The clean-up job that has read the rows keeps an archive, or cannot have known of it.
ListedKept(a) == keep = None \/ a \in keep.files \/ a > keep.listed

\* A clean-up knows the archive of an export, unless the export's run began after it had read the rows.
ArchivesListed ==
    /\ name \in [Workers -> Nat \cup {None}]
    /\ keep # None => keep.listed \in Nat /\ keep.listed <= names
    /\ \A e \in Exports : export[e].status \in {"in_progress", "completed"} => ListedKept(export[e].file)

Uploads == {"upload archive", "finish export"}

\* The row names the archive that its worker uploads or has uploaded, unless it is deleted.
ArchiveNamed(w) == export[Export(w)].status = "deleted" \/ export[Export(w)] = [status |-> "in_progress", file |-> name[w]]

ArchivesUploaded ==
    \A w \in Workers :
        /\ wpc[w] \in Uploads => ArchiveNamed(w)
        /\ wpc[w] = "finish export" => export[Export(w)].status = "deleted" \/ name[w] \in archives \cup swept

ArchivesInv == ArchivesListed /\ ArchivesUploaded /\ CompletedHasArchiveOrSwept

\* How a worker comes to upload and to finish.
LEMMA UploadStep ==
  ASSUME Tables, name \in [Workers -> Nat \cup {None}], Next, NEW w \in Workers, wpc'[w] \in Uploads
  PROVE  /\ held'[w] = held[w]
         /\ \/ wpc'[w] = wpc[w] /\ name'[w] = name[w]
            \/ /\ BeginExport(w) /\ wpc'[w] = "upload archive" /\ name'[w] = names + 1
               /\ \/ export[Export(w)].status = "deleted" /\ UNCHANGED export
                  \/ export' = [export EXCEPT ![Export(w)] = [status |-> "in_progress", file |-> names + 1]]
            \/ UploadArchive(w) /\ wpc'[w] = "finish export" /\ name'[w] = name[w]
<1> USE DEF Tables, Goto, GoIdle, Uploads
<1>1. Request \/ CleanUp \/ (\E k \in Kinds : ExpireClaim(k)) => UNCHANGED <<wpc, held, name>>
  BY DEF Request, RequestExport, DeleteExport, RequestImport, UploadFile, CreateImport, ImportRequestFails,
      CancelImport, CommitCancel, CancelFails, RequestDeletion, Hear, CleanUp, ListExports, SweepArchives,
      AgeFile, ListFiles, SweepFiles, ExpireClaim, worker
<1>2. ASSUME NEW v \in Workers, Claim(v) PROVE wpc'[w] = wpc[w] /\ held'[w] = held[w] /\ name'[w] = name[w]
  <2>1. \A k \in Claimable : k \in {"export", "import", "history", "account"}
    BY KindsAssumption DEF Claimable
  <2>2. \A k \in Claimable : FirstStep(k) \notin Uploads
    BY <2>1 DEF FirstStep
  <2>3. PICK k \in Claimable :
          /\ wpc' = [wpc EXCEPT ![v] = FirstStep(k)]
          /\ held' = [held EXCEPT ![v] = [kind |-> k, id |-> task[k].id, ref |-> task[k].ref]]
          /\ name' = name
    BY <1>2 DEF Claim
  <2>4. v # w
    BY <2>2, <2>3
  <2> QED
    BY <2>3, <2>4
<1>3. ASSUME NEW v \in Workers \ {w}, WorkerStep(v) \/ Fail(v) \/ Shutdown(v) \/ Crash(v)
      PROVE  wpc'[w] = wpc[w] /\ held'[w] = held[w] /\ name'[w] = name[w]
  <2>1. CASE Release(v) \/ Remove(v) \/ LoadImport(v) \/ FetchFile(v) \/ SubmitListens(v) \/ UnlinkFile(v)
    BY <2>1 DEF Release, Remove, LoadImport, FetchFile, SubmitListens, UnlinkFile
  <2>2. CASE BeginImport(v) \/ FinishImport(v) \/ FailImport(v)
    BY <2>2 DEF BeginImport, SetImport, FinishImport, FailImport
  <2>3. CASE LoadExport(v) \/ BeginExport(v) \/ UploadArchive(v) \/ FinishExport(v) \/ MarkExportFailed(v)
    BY <2>3 DEF LoadExport, BeginExport, UploadArchive, FinishExport, SetExport, MarkExportFailed
  <2>4. CASE DeleteListens(v) \/ DeleteUser(v)
    BY <2>4 DEF DeleteListens, DeleteUser
  <2>5. CASE Fail(v) \/ Shutdown(v) \/ Crash(v)
    BY <2>5 DEF Fail, Shutdown, Crash
  <2> QED
    BY <1>3, <2>1, <2>2, <2>3, <2>4, <2>5 DEF WorkerStep
<1>4. ASSUME WorkerStep(w) PROVE BeginExport(w) \/ UploadArchive(w)
  <2>1. ~ (Release(w) \/ Remove(w) \/ LoadImport(w) \/ FetchFile(w) \/ SubmitListens(w) \/ UnlinkFile(w))
    BY DEF Release, Remove, LoadImport, FetchFile, SubmitListens, UnlinkFile
  <2>2. ~ (BeginImport(w) \/ FinishImport(w) \/ FailImport(w))
    BY DEF BeginImport, SetImport, FinishImport, FailImport
  <2>3. ~ (LoadExport(w) \/ FinishExport(w) \/ MarkExportFailed(w))
    BY DEF LoadExport, FinishExport, SetExport, MarkExportFailed
  <2>4. ~ (DeleteListens(w) \/ DeleteUser(w))
    BY DEF DeleteListens, DeleteUser
  <2> QED
    BY <1>4, <2>1, <2>2, <2>3, <2>4 DEF WorkerStep
<1>5. ASSUME BeginExport(w)
      PROVE  /\ held'[w] = held[w] /\ wpc'[w] = "upload archive" /\ name'[w] = names + 1
             /\ \/ export[Export(w)].status = "deleted" /\ UNCHANGED export
                \/ export' = [export EXCEPT ![Export(w)] = [status |-> "in_progress", file |-> names + 1]]
  BY <1>5 DEF BeginExport
<1>6. UploadArchive(w) => held'[w] = held[w] /\ wpc'[w] = "finish export" /\ name'[w] = name[w]
  BY DEF UploadArchive
<1>7. ~ (Fail(w) \/ Shutdown(w) \/ Crash(w))
  BY DEF Fail, Shutdown, Crash, InImport, InExport
<1>8. \/ held'[w] = held[w] /\ wpc'[w] = wpc[w] /\ name'[w] = name[w]
      \/ WorkerStep(w)
  <2>1. ASSUME NEW v \in Workers, WorkerStep(v) \/ Fail(v) \/ Shutdown(v) \/ Crash(v)
        PROVE  WorkerStep(w) \/ (held'[w] = held[w] /\ wpc'[w] = wpc[w] /\ name'[w] = name[w])
    BY <1>3, <1>7, <2>1
  <2>2. CASE Request \/ CleanUp \/ (\E k \in Kinds : ExpireClaim(k))
    BY <1>1, <2>2
  <2> QED
    BY <1>2, <2>1, <2>2 DEF Next
<1> QED
  BY <1>4, <1>5, <1>6, <1>8

\* What becomes of an export's row and of the name of its file.
LEMMA ExportMoves ==
  ASSUME Tables, Next, NEW e \in Exports
  PROVE  \/ export'[e] = export[e]
         \/ export'[e].status = "deleted" /\ export'[e].file = export[e].file
         \/ export[e].status = "none" /\ export'[e].status = "waiting" /\ export'[e].file = export[e].file
         \/ \E w \in Workers : /\ BeginExport(w) /\ Export(w) = e
                               /\ export'[e] = [status |-> "in_progress", file |-> names + 1]
         \/ /\ export[e].status \notin {"none", "deleted"} /\ export'[e].file = export[e].file
            /\ \E w \in Workers : /\ Export(w) = e
                                  /\ \/ FinishExport(w) /\ export'[e].status = "completed"
                                     \/ MarkExportFailed(w) /\ export'[e].status = "failed"
<1> USE DEF Tables, ExportRows
<1>1. ASSUME NEW f \in Exports, RequestExport(f) PROVE
         \/ export'[e] = export[e]
         \/ export[e].status = "none" /\ export'[e].status = "waiting" /\ export'[e].file = export[e].file
  BY <1>1 DEF RequestExport, Status
<1>2. ASSUME NEW f \in Exports, DeleteExport(f)
      PROVE  export'[e] = export[e] \/ (export'[e].status = "deleted" /\ export'[e].file = export[e].file)
  BY <1>2 DEF DeleteExport, Status
<1>3. ASSUME NEW w \in Workers, BeginExport(w)
      PROVE  export'[e] = export[e] \/ (Export(w) = e /\ export'[e] = [status |-> "in_progress", file |-> names + 1])
  BY <1>3 DEF BeginExport
<1>4. ASSUME NEW w \in Workers, NEW st \in {"completed", "failed"}, export' = Update(export, Export(w), st)
      PROVE  \/ export'[e] = export[e]
             \/ /\ export[e].status \notin {"none", "deleted"} /\ export'[e].file = export[e].file
                /\ Export(w) = e /\ export'[e].status = st
  BY <1>4 DEF Update, Status
<1>5. ASSUME NEW w \in Workers
      PROVE  /\ FinishExport(w) => export' = Update(export, Export(w), "completed")
             /\ MarkExportFailed(w) => export' = Update(export, Export(w), "failed")
  BY DEF FinishExport, MarkExportFailed, SetExport
<1>6. ASSUME NEW w \in Workers, DeleteUser(w)
      PROVE  export'[e] = export[e] \/ (export'[e].status = "deleted" /\ export'[e].file = export[e].file)
  BY <1>6 DEF DeleteUser, Update, Status
<1>7. ASSUME ListExports
      PROVE  export'[e] = export[e] \/ (export'[e].status = "deleted" /\ export'[e].file = export[e].file)
  BY <1>7 DEF ListExports, Status
<1> QED
  BY <1>1, <1>2, <1>3, <1>4, <1>5, <1>6, <1>7, ExportChanges

\* Archives are deleted, and rows read, by the clean-up only.
LEMMA ArchiveChanges ==
  ASSUME Next
  PROVE  \/ ListExports \/ SweepArchives
         \/ archives \subseteq archives' /\ swept' = swept /\ keep' = keep
<1>1. CASE Request
  BY <1>1 DEF Request, RequestExport, DeleteExport, RequestImport, UploadFile, CreateImport, ImportRequestFails,
      CancelImport, CommitCancel, CancelFails, RequestDeletion, Hear, store, cleanup, tracked
<1>2. ASSUME NEW w \in Workers, WorkerStep(w) PROVE archives \subseteq archives' /\ swept' = swept /\ keep' = keep
  <2>1. CASE Release(w) \/ Remove(w) \/ LoadImport(w) \/ FetchFile(w) \/ SubmitListens(w) \/ UnlinkFile(w)
    BY <2>1 DEF Release, Remove, LoadImport, FetchFile, SubmitListens, UnlinkFile, store, cleanup, tracked
  <2>2. CASE BeginImport(w) \/ FinishImport(w) \/ FailImport(w)
    BY <2>2 DEF BeginImport, SetImport, FinishImport, FailImport, store, cleanup, tracked
  <2>3. CASE LoadExport(w) \/ BeginExport(w) \/ UploadArchive(w) \/ FinishExport(w) \/ MarkExportFailed(w)
    BY <2>3 DEF LoadExport, BeginExport, UploadArchive, FinishExport, SetExport, MarkExportFailed, store, cleanup, tracked
  <2>4. CASE DeleteListens(w) \/ DeleteUser(w)
    BY <2>4 DEF DeleteListens, DeleteUser, store, cleanup, tracked
  <2> QED
    BY <1>2, <2>1, <2>2, <2>3, <2>4 DEF WorkerStep
<1>3. ASSUME NEW w \in Workers, Claim(w) \/ Fail(w) \/ Shutdown(w) \/ Crash(w)
      PROVE  archives \subseteq archives' /\ swept' = swept /\ keep' = keep
  BY <1>3 DEF Claim, Fail, Shutdown, Crash, store, cleanup, tracked
<1>4. ASSUME NEW k \in Kinds, ExpireClaim(k) PROVE archives \subseteq archives' /\ swept' = swept /\ keep' = keep
  BY <1>4 DEF ExpireClaim, store, cleanup, tracked
<1>5. ASSUME NEW i \in Imports, AgeFile(i) PROVE archives \subseteq archives' /\ swept' = swept /\ keep' = keep
  BY <1>5 DEF AgeFile, cleanup, tracked
<1>6. ListFiles \/ SweepFiles => archives \subseteq archives' /\ swept' = swept /\ keep' = keep
  BY DEF ListFiles, SweepFiles, store, tracked
<1> QED
  BY <1>1, <1>2, <1>3, <1>4, <1>5, <1>6 DEF Next, CleanUp

\* What the clean-up has listed or could not know survives it, or is noted down.
LEMMA ArchiveStays ==
  ASSUME Next, NEW a, a \in archives \cup swept, ListedKept(a)
  PROVE  a \in archives' \cup swept'
<1>1. CASE SweepArchives
  BY <1>1 DEF SweepArchives, ListedKept
<1>2. CASE ListExports
  BY <1>2 DEF ListExports, store, tracked
<1> QED
  BY <1>1, <1>2, ArchiveChanges

LEMMA NameStep ==
  ASSUME Tables, name \in [Workers -> Nat \cup {None}], Next
  PROVE  /\ names' \in Nat /\ names <= names' /\ name' \in [Workers -> Nat \cup {None}]
         /\ \A w \in Workers : name'[w] \in {name[w], None} \/ (name'[w] = names + 1 /\ names' = names + 1)
<1> USE DEF Tables, GoIdle
<1>1. Request \/ CleanUp \/ (\E k \in Kinds : ExpireClaim(k)) => UNCHANGED <<names, name>>
  BY DEF Request, RequestExport, DeleteExport, RequestImport, UploadFile, CreateImport, ImportRequestFails,
      CancelImport, CommitCancel, CancelFails, RequestDeletion, Hear, CleanUp, ListExports, SweepArchives,
      AgeFile, ListFiles, SweepFiles, ExpireClaim, worker
<1>2. ASSUME NEW v \in Workers, WorkerStep(v)
      PROVE  \/ names' = names /\ (name' = name \/ name' = [name EXCEPT ![v] = None])
             \/ names' = names + 1 /\ name' = [name EXCEPT ![v] = names + 1]
  <2>1. CASE Release(v) \/ Remove(v) \/ LoadImport(v) \/ FetchFile(v) \/ SubmitListens(v) \/ UnlinkFile(v)
    BY <2>1 DEF Release, Remove, LoadImport, FetchFile, SubmitListens, UnlinkFile
  <2>2. CASE BeginImport(v) \/ FinishImport(v) \/ FailImport(v)
    BY <2>2 DEF BeginImport, SetImport, FinishImport, FailImport
  <2>3. CASE LoadExport(v) \/ BeginExport(v) \/ UploadArchive(v) \/ FinishExport(v) \/ MarkExportFailed(v)
    BY <2>3 DEF LoadExport, BeginExport, UploadArchive, FinishExport, SetExport, MarkExportFailed
  <2>4. CASE DeleteListens(v) \/ DeleteUser(v)
    BY <2>4 DEF DeleteListens, DeleteUser
  <2> QED
    BY <1>2, <2>1, <2>2, <2>3, <2>4 DEF WorkerStep
<1>3. ASSUME NEW v \in Workers, Claim(v) \/ Fail(v) \/ Shutdown(v) \/ Crash(v)
      PROVE  names' = names /\ (name' = name \/ name' = [name EXCEPT ![v] = None])
  BY <1>3 DEF Claim, Fail, Shutdown, Crash
<1> QED
  BY <1>1, <1>2, <1>3 DEF Next

LEMMA ListedStep ==
  ASSUME Tables, Stages, References, OneTask, ArchivesListed, ArchivesUploaded, Next
  PROVE  ArchivesListed'
<1>1. names \in Nat /\ names' \in Nat /\ names <= names' /\ name' \in [Workers -> Nat \cup {None}]
  BY NameStep DEF Tables, ArchivesListed
<1>2. \/ keep' = keep \/ keep' = None
      \/ ListExports /\ keep' = [files |-> Kept', listed |-> names]
  BY ArchiveChanges DEF ListExports, SweepArchives
<1>3. keep' # None => keep'.listed \in Nat /\ keep'.listed <= names'
  BY <1>1, <1>2 DEF ArchivesListed
<1>4. ASSUME NEW e \in Exports, export'[e].status \in {"in_progress", "completed"}
      PROVE  ListedKept(export[e].file)'
  <2>1. CASE ListExports
    BY <1>2, <1>4, <2>1 DEF ListedKept, Kept, ListExports
  <2>2. CASE keep' = None
    BY <2>2 DEF ListedKept
  <2>3. CASE keep' = keep /\ export'[e].file = names + 1
    BY <1>1, <2>3 DEF ListedKept, ArchivesListed
  <2>4. CASE keep' = keep /\ export[e].status \in {"in_progress", "completed"} /\ export'[e].file = export[e].file
    BY <2>4 DEF ListedKept, ArchivesListed
  <2>5. ASSUME NEW w \in Workers, FinishExport(w), Export(w) = e, export[e].status # "deleted"
        PROVE  export[e].status = "in_progress"
    <3>1. wpc[w] \in Uploads
      BY <2>5 DEF FinishExport, SetExport, Uploads
    <3>2. export[e] = [status |-> "in_progress", file |-> name[w]]
      BY <2>5, <3>1 DEF ArchivesUploaded, ArchiveNamed
    <3> QED
      BY <3>2
  <2> QED
    BY <1>2, <1>4, <2>1, <2>2, <2>3, <2>4, <2>5, ExportMoves
<1> QED
  BY <1>1, <1>3, <1>4 DEF ArchivesListed

LEMMA UploadedStep ==
  ASSUME Inductive, ArchivesListed, ArchivesUploaded, Next
  PROVE  ArchivesUploaded'
<1> USE DEF Inductive
<1> SUFFICES ASSUME NEW w \in Workers, wpc'[w] \in Uploads
             PROVE  /\ ArchiveNamed(w)'
                    /\ wpc'[w] = "finish export" =>
                         export'[Export(w)'].status = "deleted" \/ name'[w] \in archives' \cup swept'
  BY DEF ArchivesUploaded, Uploads
<1>1. held'[w] = held[w] /\ Export(w)' = Export(w)
  BY UploadStep DEF Export, ArchivesListed
<1>2. wpc[w] \in ExportSteps /\ Working(w)
  BY UploadStep DEF Uploads, ExportSteps, Working, BeginExport, UploadArchive, ArchivesListed
<1>3. held[w] # None /\ held[w].kind = "export"
  BY <1>2 DEF Stages, Working, Tables
<1>4. Export(w) \in Exports
  BY <1>3, RunningExport
<1>5. ASSUME BeginExport(w), wpc'[w] = "upload archive", name'[w] = names + 1,
             \/ export[Export(w)].status = "deleted" /\ UNCHANGED export
             \/ export' = [export EXCEPT ![Export(w)] = [status |-> "in_progress", file |-> names + 1]]
      PROVE  ArchiveNamed(w)'
  BY <1>1, <1>4, <1>5 DEF ArchiveNamed, Tables
\* Nobody else runs the export, so that only its deletion changes the row.
<1>6. ASSUME wpc[w] \in Uploads, name'[w] = name[w]
      PROVE  export'[Export(w)].status = "deleted" \/ export'[Export(w)] = [status |-> "in_progress", file |-> name[w]]
  <2>1. export[Export(w)].status = "deleted" \/ export[Export(w)] = [status |-> "in_progress", file |-> name[w]]
    BY <1>6 DEF ArchivesUploaded, ArchiveNamed
  <2>2. ASSUME NEW v \in Workers, BeginExport(v) \/ FinishExport(v) \/ MarkExportFailed(v), Export(v) = Export(w)
        PROVE  FALSE
    <3>1. wpc[v] \in ExportSteps /\ Working(v) /\ wpc[v] # "upload archive"
      BY <2>2 DEF BeginExport, FinishExport, MarkExportFailed, SetExport, ExportSteps, Working
    <3>2. held[v] # None /\ held[v].kind = "export"
      BY <3>1 DEF Stages, Working, Tables
    <3>3. v = w
      BY <1>2, <1>3, <2>2, <3>1, <3>2, OneRun DEF Exclusive, Export
    <3>4. wpc'[v] \notin {"upload archive", "finish export"} \/ BeginExport(v)
      BY <2>2 DEF FinishExport, MarkExportFailed, SetExport, Goto, Tables
    <3> QED
      BY <1>6, <3>3, <3>4 DEF Uploads, BeginExport
  <2>3. export[Export(w)].status = "deleted" => export'[Export(w)].status = "deleted"
    BY <1>4, ExportStatus
  <2> QED
    BY <1>4, <2>1, <2>2, <2>3, ExportMoves
<1>7. ASSUME wpc[w] \in Uploads, name'[w] = name[w] PROVE ArchiveNamed(w)'
  BY <1>1, <1>6, <1>7 DEF ArchiveNamed
<1>8. ASSUME wpc'[w] = "finish export", wpc[w] = "finish export", name'[w] = name[w]
      PROVE  export'[Export(w)].status = "deleted" \/ name[w] \in archives' \cup swept'
  <2>1. CASE export[Export(w)].status = "deleted"
    BY <1>4, <2>1, ExportStatus
  <2>2. CASE export[Export(w)].status # "deleted"
    <3>1. name[w] \in archives \cup swept /\ export[Export(w)] = [status |-> "in_progress", file |-> name[w]]
      BY <1>8, <2>2 DEF ArchivesUploaded, ArchiveNamed, Uploads
    <3>2. ListedKept(name[w])
      BY <1>4, <3>1 DEF ArchivesListed
    <3> QED
      BY <3>1, <3>2, ArchiveStays
  <2> QED
    BY <2>1, <2>2
<1>9. ASSUME UploadArchive(w), name'[w] = name[w] PROVE name'[w] \in archives' /\ wpc[w] \in Uploads
  BY <1>9 DEF UploadArchive, Uploads
<1> QED
  BY <1>1, <1>5, <1>7, <1>8, <1>9, UploadStep DEF Uploads, ArchivesListed

LEMMA CompletedStep ==
  ASSUME Inductive, ArchivesInv, Next
  PROVE  CompletedHasArchiveOrSwept'
<1> USE DEF Inductive, ArchivesInv
<1> SUFFICES ASSUME NEW e \in Exports, export'[e].status = "completed"
             PROVE  export'[e].file \in archives' \cup swept'
  BY DEF CompletedHasArchiveOrSwept
<1>1. CASE export'[e] = export[e]
  <2>1. export[e].file \in archives \cup swept /\ ListedKept(export[e].file)
    BY <1>1 DEF CompletedHasArchiveOrSwept, ArchivesListed
  <2> QED
    BY <1>1, <2>1, ArchiveStays
<1>2. ASSUME NEW w \in Workers, FinishExport(w), Export(w) = e, export[e].status # "deleted",
             export'[e].file = export[e].file
      PROVE  export'[e].file \in archives' \cup swept'
  <2>1. wpc[w] = "finish export"
    BY <1>2 DEF FinishExport, SetExport
  <2>2. name[w] \in archives \cup swept /\ export[e] = [status |-> "in_progress", file |-> name[w]]
    BY <1>2, <2>1 DEF ArchivesUploaded, ArchiveNamed, Uploads
  <2>3. export[e].file = name[w] /\ ListedKept(name[w])
    BY <2>2 DEF ArchivesListed
  <2> QED
    BY <1>2, <2>2, <2>3, ArchiveStays
<1> QED
  BY <1>1, <1>2, ExportMoves

\* The archive of a completed export is in the bucket until the export is deleted, but for archives that were uploaded
\* between the two steps of a clean-up: the one that reads the rows and the one that lists the bucket.
THEOREM CompletedHasArchiveOrSweptCorrect ==
  ASSUME SlowWorkers = FALSE PROVE Spec => []CompletedHasArchiveOrSwept
<1>1. Init => ArchivesInv
  BY DEF Init, ArchivesInv, ArchivesListed, ArchivesUploaded, Uploads, CompletedHasArchiveOrSwept
<1>2. Inductive /\ ArchivesInv /\ [Next]_vars => ArchivesInv'
  <2> SUFFICES ASSUME Inductive, ArchivesInv, [Next]_vars PROVE ArchivesInv'
    OBVIOUS
  <2>1. CASE Next
    <3>1. ArchivesListed' /\ ArchivesUploaded'
      BY <2>1, ListedStep, UploadedStep DEF Inductive, ArchivesInv
    <3> QED
      BY <2>1, <3>1, CompletedStep DEF ArchivesInv
  <2>2. CASE UNCHANGED vars
    <3>1. UNCHANGED <<export, archives, wpc, held, name, names, keep, swept>>
      BY <2>2 DEF vars, rows, store, worker, tracked, cleanup
    <3> QED
      BY <3>1 DEF ArchivesInv, ArchivesListed, ListedKept, ArchivesUploaded, ArchiveNamed, Export,
          CompletedHasArchiveOrSwept
  <2> QED
    BY <2>1, <2>2
<1>3. ArchivesInv => CompletedHasArchiveOrSwept
  BY DEF ArchivesInv
<1> QED
  BY <1>1, <1>2, <1>3, InductiveHolds, PTL DEF Spec

-----------------------------------------------------------------------------
(* The types *)

Given == 1..names \cup {None}

\* Whoever names an archive names one whose name has been given.
NamesGiven ==
    /\ name \in [Workers -> Given]
    /\ \A w \in Workers : wpc[w] = "upload archive" => name[w] \in 1..names
    /\ archives \subseteq 1..names
    /\ \A e \in Exports : export[e].file \in Given
    /\ keep # None => keep.files \subseteq Given /\ keep.listed \in 0..names

\* The counters stay within their bounds, and ids and listens within the counters.
Bounded ==
    /\ last <= MaxTasks
    /\ \A k \in Kinds : Queued(k) => task[k].id \in 1..last
    /\ \A w \in Workers : held[w] # None => held[w].id \in 1..last
    /\ heard <= MaxListens /\ listens \subseteq 1..heard /\ erased \in BOOLEAN
    /\ failures \in 0..MaxFailures

TypeInv ==
    /\ Tables /\ References /\ Stages /\ CancelOnce /\ UploadsKept
    /\ files \subseteq Imports /\ NamesGiven /\ Bounded

\* Archives come from uploads.
LEMMA ArchivesUploadedBy ==
  ASSUME Next
  PROVE  archives' \subseteq archives \/ \E w \in Workers : UploadArchive(w)
<1>1. CASE Request
  BY <1>1 DEF Request, RequestExport, DeleteExport, RequestImport, UploadFile, CreateImport, ImportRequestFails,
      CancelImport, CommitCancel, CancelFails, RequestDeletion, Hear, store
<1>2. ASSUME NEW w \in Workers, WorkerStep(w) PROVE archives' = archives \/ UploadArchive(w)
  BY <1>2 DEF WorkerStep, Release, Remove, LoadImport, BeginImport, SetImport, FetchFile, SubmitListens, FinishImport,
      FailImport, UnlinkFile, LoadExport, BeginExport, FinishExport, SetExport, MarkExportFailed, DeleteListens,
      DeleteUser, store
<1>3. ASSUME NEW w \in Workers, Claim(w) \/ Fail(w) \/ Shutdown(w) \/ Crash(w) PROVE archives' = archives
  BY <1>3 DEF Claim, Fail, Shutdown, Crash, store
<1>4. ASSUME NEW k \in Kinds, ExpireClaim(k) PROVE archives' = archives
  BY <1>4 DEF ExpireClaim, store
<1>5. CASE CleanUp
  BY <1>5 DEF CleanUp, ListExports, SweepArchives, AgeFile, ListFiles, SweepFiles, store
<1> QED
  BY <1>1, <1>2, <1>3, <1>4, <1>5 DEF Next

LEMMA NamesGivenStep ==
  ASSUME Tables, NamesGiven, Next
  PROVE  NamesGiven'
<1>0. names \in Nat /\ Given \subseteq Nat \cup {None}
  BY DEF Tables, Given
<1>1. names \in Nat /\ name \in [Workers -> Nat \cup {None}]
  BY <1>0 DEF NamesGiven
<1>2. /\ names' \in Nat /\ names <= names' /\ name' \in [Workers -> Nat \cup {None}]
      /\ \A w \in Workers : name'[w] \in {name[w], None} \/ (name'[w] = names + 1 /\ names' = names + 1)
  BY <1>1, NameStep
<1>3. /\ 1..names \subseteq 1..names' /\ 0..names \subseteq 0..names' /\ Given \subseteq Given'
      /\ names \in 0..names'
      /\ names' = names + 1 => names + 1 \in 1..names'
      /\ None \in Given' /\ 1..names' \subseteq Given'
  BY <1>1, <1>2 DEF Given
<1>4. name' \in [Workers -> Given']
  <2>1. ASSUME NEW w \in Workers PROVE name'[w] \in Given'
    <3>1. name[w] \in Given
      BY DEF NamesGiven
    <3> QED
      BY <1>2, <1>3, <3>1
  <2> QED
    BY <1>2, <2>1
<1>5. ASSUME NEW w \in Workers, wpc'[w] = "upload archive" PROVE name'[w] \in 1..names'
  <2>1. (wpc'[w] = wpc[w] /\ name'[w] = name[w]) \/ (name'[w] = names + 1 /\ BeginExport(w))
    <3>1. \/ wpc'[w] = wpc[w] /\ name'[w] = name[w]
          \/ BeginExport(w) /\ name'[w] = names + 1
          \/ UploadArchive(w) /\ wpc'[w] = "finish export"
      BY <1>1, <1>5, UploadStep DEF Uploads
    <3> QED
      BY <1>5, <3>1
  <2>2. BeginExport(w) => names' = names + 1
    BY DEF BeginExport
  <2> QED
    BY <1>1, <1>2, <1>3, <1>5, <2>1, <2>2 DEF NamesGiven
<1>6. ASSUME NEW e \in Exports PROVE export'[e].file \in Given'
  <2>1. export'[e].file = export[e].file \/ \E w \in Workers : BeginExport(w) /\ export'[e].file = names + 1
    BY ExportMoves
  <2>2. (\E w \in Workers : BeginExport(w)) => names' = names + 1
    BY DEF BeginExport
  <2> QED
    BY <1>1, <1>2, <1>3, <2>1, <2>2 DEF NamesGiven
<1>7. archives' \subseteq 1..names'
  <2>1. archives' \subseteq archives \/ \E w \in Workers : UploadArchive(w)
    BY ArchivesUploadedBy
  <2>2. ASSUME NEW w \in Workers, UploadArchive(w) PROVE archives' = archives \cup {name[w]} /\ name[w] \in 1..names
    BY <2>2 DEF UploadArchive, NamesGiven
  <2> QED
    BY <1>3, <2>1, <2>2 DEF NamesGiven
<1>8. ASSUME keep' # None PROVE keep'.files \subseteq Given' /\ keep'.listed \in 0..names'
  <2>1. \/ keep' = keep
        \/ ListExports /\ keep' = [files |-> Kept', listed |-> names]
    BY <1>8, ArchiveChanges DEF ListExports, SweepArchives
  <2>2. Kept' \subseteq Given'
    BY <1>6 DEF Kept
  <2>3. CASE keep' = keep
    <3>1. keep.files \subseteq Given /\ keep.listed \in 0..names
      BY <1>8, <2>3 DEF NamesGiven
    <3> QED
      BY <1>3, <2>3, <3>1
  <2>4. CASE keep' = [files |-> Kept', listed |-> names]
    BY <1>3, <2>2, <2>4
  <2> QED
    BY <2>1, <2>3, <2>4
<1> QED
  BY <1>4, <1>5, <1>6, <1>7, <1>8 DEF NamesGiven

\* The counters of listens and of failures.
LEMMA CountersStep ==
  ASSUME Tables, Bounded, Next
  PROVE  /\ heard' \in Nat /\ heard <= heard' /\ heard' <= MaxListens /\ listens' \subseteq 1..heard'
         /\ erased' \in BOOLEAN /\ failures' \in 0..MaxFailures
<1>1. heard \in Nat /\ failures \in Nat /\ MaxFailures \in Nat /\ MaxListens \in Nat
  BY BoundsAssumption DEF Tables, Bounded
<1>2. Budget => failures' \in 0..MaxFailures
  BY <1>1 DEF Budget, MayFail, Bounded
<1>3. UNCHANGED user \/ Hear \/ \E w \in Workers : DeleteListens(w) \/ DeleteUser(w)
  <2>1. CASE Request
    BY <2>1 DEF Request, RequestExport, DeleteExport, RequestImport, UploadFile, CreateImport, ImportRequestFails,
        CancelImport, CommitCancel, CancelFails, RequestDeletion
  <2>2. ASSUME NEW w \in Workers, WorkerStep(w) PROVE UNCHANGED user \/ DeleteListens(w) \/ DeleteUser(w)
    BY <2>2 DEF WorkerStep, Release, Remove, LoadImport, BeginImport, SetImport, FetchFile, SubmitListens, FinishImport,
        FailImport, UnlinkFile, LoadExport, BeginExport, UploadArchive, FinishExport, SetExport, MarkExportFailed
  <2>3. ASSUME NEW w \in Workers, Claim(w) \/ Fail(w) \/ Shutdown(w) \/ Crash(w) PROVE UNCHANGED user
    BY <2>3 DEF Claim, Fail, Shutdown, Crash
  <2>4. ASSUME NEW k \in Kinds, ExpireClaim(k) PROVE UNCHANGED user
    BY <2>4 DEF ExpireClaim
  <2>5. CASE CleanUp
    BY <2>5 DEF CleanUp, ListExports, SweepArchives, AgeFile, ListFiles, SweepFiles
  <2> QED
    BY <2>1, <2>2, <2>3, <2>4, <2>5 DEF Next
<1>4. UNCHANGED failures \/ Budget
  <2>1. CASE Request
    BY <2>1 DEF Request, RequestExport, DeleteExport, RequestImport, UploadFile, CreateImport, ImportRequestFails,
        CancelImport, CommitCancel, CancelFails, RequestDeletion, Hear
  <2>2. ASSUME NEW w \in Workers, WorkerStep(w) PROVE UNCHANGED failures
    BY <2>2 DEF WorkerStep, Release, Remove, LoadImport, BeginImport, SetImport, FetchFile, SubmitListens, FinishImport,
        FailImport, UnlinkFile, LoadExport, BeginExport, UploadArchive, FinishExport, SetExport, MarkExportFailed,
        DeleteListens, DeleteUser
  <2>3. ASSUME NEW w \in Workers, Claim(w) \/ Fail(w) \/ Shutdown(w) \/ Crash(w) PROVE UNCHANGED failures \/ Budget
    BY <2>3 DEF Claim, Fail, Shutdown, Crash
  <2>4. ASSUME NEW k \in Kinds, ExpireClaim(k) PROVE UNCHANGED failures
    BY <2>4 DEF ExpireClaim
  <2>5. CASE CleanUp
    BY <2>5 DEF CleanUp, ListExports, SweepArchives, AgeFile, ListFiles, SweepFiles
  <2> QED
    BY <2>1, <2>2, <2>3, <2>4, <2>5 DEF Next
<1>5. CASE UNCHANGED user
  BY <1>1, <1>2, <1>4, <1>5 DEF user, Bounded
<1>6. CASE Hear
  <2>1. heard' = heard + 1 /\ heard + 1 <= MaxListens /\ listens' = listens \cup {heard + 1} /\ UNCHANGED <<erased, failures>>
    BY <1>1, <1>6 DEF Hear
  <2> QED
    BY <1>1, <2>1 DEF Bounded
<1>7. ASSUME NEW w \in Workers, DeleteListens(w) \/ DeleteUser(w)
      PROVE  heard' = heard /\ listens' \subseteq listens /\ erased' \in BOOLEAN
  BY <1>7 DEF DeleteListens, DeleteUser, Bounded
<1>8. failures' \in 0..MaxFailures
  BY <1>2, <1>4 DEF Bounded
<1>9. ASSUME NEW w \in Workers, DeleteListens(w) \/ DeleteUser(w)
      PROVE  /\ heard' \in Nat /\ heard <= heard' /\ heard' <= MaxListens
             /\ listens' \subseteq 1..heard' /\ erased' \in BOOLEAN
  <2>1. heard' = heard /\ listens' \subseteq listens /\ erased' \in BOOLEAN
    BY <1>7, <1>9
  <2>2. heard <= MaxListens /\ listens \subseteq 1..heard
    BY DEF Bounded
  <2> QED
    BY <1>1, <2>1, <2>2
<1> QED
  BY <1>3, <1>5, <1>6, <1>8, <1>9

\* The ids of tasks.
LEMMA BoundedStep ==
  ASSUME Tables, Bounded, Next
  PROVE  Bounded'
<1>1. TaskSteps
  BY TablesSteps
<1>2. RowsFollow /\ \A w \in Workers : HoldBecomes(w)
  BY <1>1, RowSteps, HoldSteps
<1>3. last \in Nat /\ last' \in Nat /\ last <= last' /\ 1..last \subseteq 1..last'
  BY <1>2 DEF Tables, RowsFollow
<1>4. ASSUME NEW k \in Kinds, Queued(k)' PROVE task'[k].id \in 1..last'
  <2>1. (Queued(k) /\ SameRow(k)) \/ (last' = last + 1 /\ task'[k].id = last')
    BY <1>2, <1>4 DEF RowsFollow, RowBecomes
  <2>2. last' = last + 1 => last' \in 1..last'
    BY <1>3
  <2> QED
    BY <1>3, <2>1, <2>2 DEF SameRow, Bounded
<1>5. ASSUME NEW w \in Workers, held'[w] # None PROVE held'[w].id \in 1..last'
  <2>1. HoldBecomes(w)
    BY <1>2
  <2> QED
    BY <1>3, <1>5, <2>1 DEF HoldBecomes, Taken, Bounded
<1>6. last' <= MaxTasks
  <2>1. last' = last \/ (last < MaxTasks /\ last' = last + 1)
    BY <1>1 DEF TaskSteps, NewTask, AddTask, ExpireClaim, Proceeds, Exits, Leaves, Takes
  <2> QED
    BY <1>3, <2>1, BoundsAssumption DEF Bounded
<1> QED
  BY <1>4, <1>5, <1>6, CountersStep DEF Bounded

LEMMA FilesTyped ==
  ASSUME UploadsKept, files \subseteq Imports, Next
  PROVE  files' \subseteq Imports
<1>1. ASSUME NEW i \in Imports,
             UploadFile(i) \/ CreateImport(i) \/ ImportRequestFails(i) \/ CancelImport(i) \/ AgeFile(i)
      PROVE  files' \subseteq files \cup {i}
  BY <1>1 DEF UploadFile, CreateImport, ImportRequestFails, CancelImport, AgeFile, RemoveFile
<1>2. ASSUME NEW w \in Workers, LoadImport(w) \/ UnlinkFile(w) PROVE files' \subseteq files
  BY <1>2 DEF LoadImport, UnlinkFile, RemoveFile
<1>3. ListFiles \/ SweepFiles => files' \subseteq files
  BY DEF ListFiles, SweepFiles, store
<1> QED
  BY <1>1, <1>2, <1>3, FileChanges

LEMMA TypeInvOK == TypeInv => TypeOK
<1> SUFFICES ASSUME TypeInv PROVE TypeOK
  OBVIOUS
<1> USE DEF TypeInv
<1>1. /\ last \in Nat /\ heard \in Nat /\ asked \in Nat /\ asked <= heard /\ heard <= MaxListens
      /\ MaxListens \in Nat /\ MaxTasks \in Nat /\ last <= MaxTasks
  BY BoundsAssumption DEF Tables, References, Bounded
<1>2. 1..last \subseteq 1..MaxTasks /\ last \in 0..MaxTasks /\ heard \in 0..MaxListens
  BY <1>1
<1>3. ASSUME NEW k \in Kinds, NEW ref, Fits(k, ref, asked) PROVE ref \in Exports \cup Imports \cup 0..MaxListens
  BY <1>1, <1>3, KindsAssumption DEF Fits
<1>4. ASSUME NEW k \in Kinds PROVE task[k] \in TaskRow \cup {None}
  <2>1. CASE Queued(k)
    <3>1. task[k] \in TaskRows
      BY <2>1 DEF Tables, Queued
    <3>2. task[k].id \in 1..MaxTasks /\ task[k].ref \in Exports \cup Imports \cup 0..MaxListens
      BY <1>2, <1>3, <2>1 DEF Bounded, References
    <3> QED
      BY <3>1, <3>2 DEF TaskRows, TaskRow
  <2> QED
    BY <2>1 DEF Queued
<1>5. ASSUME NEW w \in Workers PROVE held[w] \in Held \cup {None}
  <2>1. CASE held[w] # None
    <3>1. held[w] \in Helds
      BY <2>1 DEF Tables
    <3>2. held[w].kind \in Kinds
      BY <3>1 DEF Helds
    <3>3. held[w].id \in 1..MaxTasks /\ held[w].ref \in Exports \cup Imports \cup 0..MaxListens
      BY <1>2, <1>3, <2>1, <3>2 DEF Bounded, References
    <3> QED
      BY <3>1, <3>3 DEF Helds, Held
  <2> QED
    BY <2>1
<1>6. \A e \in Exports : export[e].status \in Statuses /\ export[e].file \in Nat \cup {None}
  BY DEF Tables, ExportRows
<1>7. \A i \in Imports : /\ import[i].status \in Statuses /\ import[i].service \in Services \cup {None}
                         /\ asking[i] \in Services \cup {None, "answered"}
  BY DEF Tables, ImportRows
<1>8. \A S \in {cancelling, files, old, drop, submitted, cancelled} : S \subseteq Imports
  BY DEF CancelOnce, UploadsKept
<1>9. \A w \in Workers : /\ wpc[w] \in Pcs /\ (wpc[w] = "idle" <=> held[w] = None)
                         /\ name[w] \in 1..names \cup {None}
  BY DEF Tables, NamesGiven, Given
<1>10. /\ archives \subseteq 1..names
       /\ keep # None => keep.files \subseteq 1..names \cup {None} /\ keep.listed \in 0..names
  BY DEF NamesGiven, Given
<1>11. listens \subseteq 1..heard /\ erased \in BOOLEAN /\ failures \in 0..MaxFailures
  BY DEF Bounded
<1> QED
  BY <1>2, <1>4, <1>5, <1>6, <1>7, <1>8, <1>9, <1>10, <1>11 DEF TypeOK

\* Rows, workers, objects and what the clean-up remembers are what they can be: tasks refer to rows and times there
\* were, archives have names that were given, and ids and listens stay within their counters, also with slow workers.
THEOREM TypeCorrect == Spec => []TypeOK
<1>1. Init => TypeInv
  <2>1. Init => References /\ Stages /\ CancelOnce /\ UploadsKept /\ files \subseteq Imports
    BY DEF Init, References, Stages, Queued, ImportSteps, ExportSteps, DeletionSteps, CancelOnce,
        CancelledNotImported, Running, InImport, UploadsKept
  <2>2. Init => NamesGiven
    BY DEF Init, NamesGiven, Given
  <2>3. Init => Bounded
    <3>1. MaxTasks \in Nat /\ MaxListens \in Nat /\ MaxFailures \in Nat
      BY BoundsAssumption
    <3>2. 0 <= MaxTasks /\ 0 <= MaxListens /\ 0 \in 0..MaxFailures
      BY <3>1
    <3>3. ASSUME Init PROVE /\ last = 0 /\ heard = 0 /\ listens = {} /\ erased = FALSE /\ failures = 0
                            /\ \A k \in Kinds : ~Queued(k)
                            /\ \A w \in Workers : held[w] = None
      BY <3>3 DEF Init, Queued
    <3> QED
      BY <3>2, <3>3 DEF Bounded
  <2> QED
    BY <2>1, <2>2, <2>3, TablesInit DEF TypeInv
<1>2. TypeInv /\ [Next]_vars => TypeInv'
  <2> SUFFICES ASSUME TypeInv, [Next]_vars PROVE TypeInv'
    OBVIOUS
  <2>1. CASE Next
    <3>1. CancelOnce'
      BY <2>1, RequestsAside, WorkersAside, CleanUpAside, CancelOnceAside, CancelOnceRequests, CancelOnceRuns
         DEF Next, TypeInv
    <3>2. Tables' /\ References' /\ Stages'
      BY <2>1, TablesStep, TablesSteps, ReferencesStep, StagesStep DEF TypeInv
    <3>3. UploadsKept' /\ files' \subseteq Imports /\ NamesGiven' /\ Bounded'
      BY <2>1, UploadsStep, FilesTyped, NamesGivenStep, BoundedStep DEF TypeInv
    <3> QED
      BY <3>1, <3>2, <3>3 DEF TypeInv
  <2>2. CASE UNCHANGED vars
    <3>1. UNCHANGED <<task, last, held, wpc, asked, heard, listens, erased, failures>>
      BY <2>2 DEF vars, rows, user, worker, tracked
    <3>2. UNCHANGED <<export, import, asking, cancelling, cancelled, submitted, spoiled>>
      BY <2>2 DEF vars, rows, web, tracked
    <3>3. UNCHANGED <<files, old, drop, archives, keep, name, names>>
      BY <2>2 DEF vars, store, cleanup, worker
    <3>4. References' /\ Stages' /\ Bounded'
      BY <3>1 DEF TypeInv, References, Queued, Stages, Bounded
    <3>5. CancelOnce'
      BY <3>1, <3>2, <3>3 DEF TypeInv, CancelOnce, CancelledNotImported, Import
    <3>6. UploadsKept' /\ files' \subseteq Imports /\ NamesGiven'
      BY <3>1, <3>2, <3>3 DEF TypeInv, UploadsKept, NamesGiven, Given
    <3> QED
      BY <2>2, <3>4, <3>5, <3>6, TablesStep DEF TypeInv
  <2> QED
    BY <2>1, <2>2
<1> QED
  BY <1>1, <1>2, TypeInvOK, PTL DEF Spec

=============================================================================
