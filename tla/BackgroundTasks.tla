--------------------------- MODULE BackgroundTasks ---------------------------
(***************************************************************************)
(* The background_tasks table, the workers that claim its tasks, and the   *)
(* tasks of one user: exports of the user's data, imports of uploaded      *)
(* files, the deletion of the listen history and of the account.  A claim  *)
(* is committed before the task runs and can be taken over after six       *)
(* hours.  Archives and uploaded files are objects in a store that knows   *)
(* nothing of the database's transactions; clean-up jobs delete those that *)
(* no row needs.                                                           *)
(***************************************************************************)
EXTENDS Integers, FiniteSets

CONSTANTS
    Workers,        \* background tasks processes
    Kinds,          \* the kinds of tasks a configuration lets the user request
    Exports,        \* ids of user_data_export rows
    Imports,        \* ids of user_data_import rows, of the requests for them and of their files
    Services,       \* services that can be imported from
    MaxTasks,       \* bound: tasks ever queued
    MaxListens,     \* bound: listens of the user
    MaxFailures,    \* bound: errors, crashes and shutdowns
    SlowWorkers,    \* whether a task may run for longer than CLAIM_TIMEOUT_HOURS
    None            \* no row, no task, no file

ASSUME KindsAssumption == Kinds \subseteq {"export", "import", "history", "account"}
ASSUME BoundsAssumption == {MaxTasks, MaxListens, MaxFailures} \subseteq Nat
ASSUME SlowWorkersAssumption == SlowWorkers \in BOOLEAN
ASSUME ServicesAssumption == None # "answered" /\ {None, "answered"} \cap Services = {}
ASSUME NoneAssumption ==
    /\ None \notin [id : Nat, ref : Exports \cup Imports \cup Nat, claim : {"no", "yes", "expired"}]
    /\ None \notin [kind : Kinds, id : Nat, ref : Exports \cup Imports \cup Nat]

VARIABLES
    task,       \* the user's row of each kind in background_tasks: (user_id, task) is unique
    last,       \* the id of the task queued last
    export,     \* user_data_export rows: status and filename
    import,     \* user_data_import rows: status and service
    asking,     \* progress of each request for an import
    cancelling, \* imports whose cancellation has deleted the file and not committed
    archives,   \* objects of the export bucket
    files,      \* objects of the import bucket
    old,        \* those that were uploaded more than IMPORT_FILE_MIN_AGE ago
    listens,    \* the user's listens, numbered in the order they were created
    heard,      \* how many have been created
    erased,     \* the account is deleted
    wpc,        \* progress of each worker
    held,       \* the task it has claimed, as it was then
    name,       \* the archive name it has chosen
    keep,       \* the archives the clean-up of exports will keep, and how many names there were
    drop,       \* the files the clean-up of imports will delete
    failures,
    names,      \* archive names used so far
    asked,      \* history variable: the listens the user last asked to delete
    submitted,  \* history variable: imports whose listens have been submitted
    cancelled,  \* history variable: imports whose cancellation was answered with success
    spoiled,    \* history variable: imports interrupted by a shutdown, or half cancelled
    swept       \* history variable: archives deleted by a clean-up that read the rows before them

rows == <<task, last, export, import>>
store == <<archives, files, old>>
user == <<listens, heard, erased>>
web == <<asking, cancelling>>
worker == <<wpc, held, name, names>>
cleanup == <<keep, drop>>
tracked == <<asked, submitted, cancelled, spoiled, swept>>
vars == <<rows, store, user, web, worker, cleanup, failures, tracked>>

Unfinished == {"waiting", "in_progress"}

\* The third of the code, "cancelled", is never written: cancelling an import deletes its row.
FINISHED_STATUSES == {"completed", "failed"}

Init ==
    /\ task = [k \in Kinds |-> None] /\ last = 0
    /\ export = [e \in Exports |-> [status |-> "none", file |-> None]]
    /\ import = [i \in Imports |-> [status |-> "none", service |-> None]]
    /\ asking = [i \in Imports |-> None] /\ cancelling = {}
    /\ archives = {} /\ files = {} /\ old = {}
    /\ listens = {} /\ heard = 0 /\ erased = FALSE
    /\ wpc = [w \in Workers |-> "idle"]
    /\ held = [w \in Workers |-> None]
    /\ name = [w \in Workers |-> None] /\ names = 0
    /\ keep = None /\ drop = {}
    /\ failures = 0
    /\ asked = 0 /\ submitted = {} /\ cancelled = {} /\ spoiled = {} /\ swept = {}

MayFail == failures < MaxFailures

Budget == MayFail /\ failures' = failures + 1

-----------------------------------------------------------------------------
(* Requests of the user *)

Queued(k) == task[k] # None

\* INSERT ... ON CONFLICT DO NOTHING: nothing happens if a task of the kind exists.
AddTask(k, ref) ==
    IF Queued(k) THEN UNCHANGED <<task, last>>
    ELSE /\ last < MaxTasks /\ last' = last + 1
         /\ task' = [task EXCEPT ![k] = [id |-> last + 1, ref |-> ref, claim |-> "no"]]

HasTask(k, ref) == k \in Kinds /\ Queued(k) /\ task[k].ref = ref

\* The task of a deleted row goes with it.
DropTask(k, ref) == task' = IF HasTask(k, ref) THEN [task EXCEPT ![k] = None] ELSE task

Status(table, x, s) == [table EXCEPT ![x].status = s]

\* An UPDATE by id, which changes no row that is not there.
Update(table, x, s) ==
    IF table[x].status \in {"none", "deleted"} THEN table ELSE Status(table, x, s)

\* Mutation: the row is inserted whether or not its task is.
RequestExport_Anyway(e) ==
    /\ "export" \in Kinds /\ ~erased /\ export[e].status = "none"
    /\ \A f \in Exports : export[f].status \notin Unfinished
    /\ export' = Status(export, e, "waiting")
    /\ AddTask("export", e)
    /\ UNCHANGED <<import, store, user, web, worker, cleanup, failures, tracked>>

\* The row and its task are inserted together; a conflict of either rolls both back.
RequestExport(e) ==
    /\ "export" \in Kinds /\ ~erased /\ export[e].status = "none"
    /\ \A f \in Exports : export[f].status \notin Unfinished
    /\ ~Queued("export")
    /\ export' = Status(export, e, "waiting")
    /\ AddTask("export", e)
    /\ UNCHANGED <<import, store, user, web, worker, cleanup, failures, tracked>>

DeleteExport(e) ==
    /\ export[e].status \in Unfinished \cup FINISHED_STATUSES
    /\ export' = Status(export, e, "deleted")
    /\ DropTask("export", e)
    /\ UNCHANGED <<last, import, store, user, web, worker, cleanup, failures, tracked>>

Importing(s) == \E i \in Imports : import[i].service = s /\ import[i].status \in Unfinished

\* The check for an unfinished import, the upload and the insertion are separate steps.
RequestImport(i) ==
    /\ "import" \in Kinds /\ ~erased /\ asking[i] = None
    /\ \E s \in Services : ~Importing(s) /\ asking' = [asking EXCEPT ![i] = s]
    /\ UNCHANGED <<rows, store, user, cancelling, worker, cleanup, failures, tracked>>

UploadFile(i) ==
    /\ asking[i] \in Services /\ i \notin files
    /\ files' = files \cup {i}
    /\ UNCHANGED <<rows, archives, old, user, web, worker, cleanup, failures, tracked>>

\* The unique index refuses a second unfinished import of the service, and any error deletes
\* the file again.  Whether the task was inserted is not looked at.  Both insertions wait for
\* a cancellation that holds the service or the task.
CreateImport(i) ==
    /\ asking[i] \in Services /\ i \in files
    /\ \A j \in cancelling : import[j].service # asking[i] /\ ~HasTask("import", j)
    /\ asking' = [asking EXCEPT ![i] = "answered"]
    /\ IF erased \/ Importing(asking[i])
       THEN files' = files \ {i} /\ UNCHANGED <<task, last, import>>
       ELSE /\ import' = [import EXCEPT ![i] = [status |-> "waiting", service |-> asking[i]]]
            /\ AddTask("import", i)
            /\ UNCHANGED files
    /\ UNCHANGED <<export, archives, old, user, cancelling, worker, cleanup, failures, tracked>>

\* The request fails before its commit, with the file deleted again or, in a crash, left.
ImportRequestFails(i) ==
    /\ asking[i] \in Services /\ Budget
    /\ asking' = [asking EXCEPT ![i] = "answered"]
    /\ files' \in {files, files \ {i}}
    /\ UNCHANGED <<rows, archives, old, user, cancelling, worker, cleanup, tracked>>

RemoveFile(i) == files' = files \ {i} /\ old' = old \ {i} /\ drop' = drop \ {i}

\* Mutation: an import in progress can be cancelled too.
CancelImport_AnyUnfinished(i) ==
    /\ import[i].status \in Unfinished /\ i \notin cancelling
    /\ cancelling' = cancelling \cup {i}
    /\ RemoveFile(i)
    /\ UNCHANGED <<rows, archives, user, asking, worker, keep, failures, tracked>>

\* The rows are deleted and locked, then the file is deleted, and then the rows are committed.
\* A file that cannot be deleted is logged and stays.
CancelImport(i) ==
    /\ import[i].status = "waiting" /\ i \notin cancelling
    /\ cancelling' = cancelling \cup {i}
    /\ \/ RemoveFile(i) /\ UNCHANGED <<failures, spoiled>>
       \/ Budget /\ spoiled' = spoiled \cup {i} /\ UNCHANGED <<files, old, drop>>
    /\ UNCHANGED <<rows, archives, user, asking, worker, keep, asked, submitted, cancelled, swept>>

CommitCancel(i) ==
    /\ i \in cancelling
    /\ cancelling' = cancelling \ {i}
    /\ import' = Update(import, i, "deleted")
    /\ DropTask("import", i)
    /\ cancelled' = cancelled \cup {i}
    /\ UNCHANGED <<last, export, store, user, asking, worker, cleanup, failures, asked, submitted,
                   spoiled, swept>>

\* The commit fails: the import is still waiting and its file is gone.
CancelFails(i) ==
    /\ i \in cancelling /\ Budget
    /\ cancelling' = cancelling \ {i}
    /\ spoiled' = spoiled \cup {i}
    /\ UNCHANGED <<rows, store, user, asking, worker, cleanup, asked, submitted, cancelled, swept>>

Hear ==
    /\ heard < MaxListens /\ ~erased
    /\ heard' = heard + 1
    /\ listens' = listens \cup {heard + 1}
    /\ UNCHANGED <<rows, store, erased, web, worker, cleanup, failures, tracked>>

\* add_task(): it succeeds whether or not the task was added.
RequestDeletion(k) ==
    /\ k \in Kinds \cap {"history", "account"} /\ ~erased
    /\ AddTask(k, heard)
    /\ asked' = heard
    /\ UNCHANGED <<export, import, store, user, web, worker, cleanup, failures, submitted,
                   cancelled, spoiled, swept>>

-----------------------------------------------------------------------------
(* claim_task(), release_task() and remove_task() *)

Goto(w, p) == wpc' = [wpc EXCEPT ![w] = p]

\* Mutations: claims are not looked at; they are held for ever.
Claimable_Any == {k \in Kinds : Queued(k)}

Claimable_NeverExpired == {k \in Kinds : Queued(k) /\ task[k].claim = "no"}

\* Rows that a cancellation has locked are skipped.
Claimable ==
    {k \in Kinds : /\ Queued(k) /\ task[k].claim \in {"no", "expired"}
                   /\ ~ (k = "import" /\ task[k].ref \in cancelling)}

FirstStep(k) ==
    CASE k = "export" -> "load export" [] k = "import" -> "load import"
      [] k \in {"history", "account"} -> "delete listens"

\* The oldest of them.
Claim(w) ==
    /\ wpc[w] = "idle"
    /\ \E k \in Claimable :
          /\ \A j \in Claimable : task[k].id <= task[j].id
          /\ task' = [task EXCEPT ![k].claim = "yes"]
          /\ held' = [held EXCEPT ![w] = [kind |-> k, id |-> task[k].id, ref |-> task[k].ref]]
          /\ Goto(w, FirstStep(k))
    /\ UNCHANGED <<last, export, import, store, user, web, name, names, cleanup, failures, tracked>>

\* The row of the task that w has claimed, if it is still there.
Mine(w, k) == held[w] # None /\ k \in Kinds /\ Queued(k) /\ task[k].id = held[w].id

Released(w) == [k \in Kinds |-> IF Mine(w, k) THEN [task[k] EXCEPT !.claim = "no"] ELSE task[k]]

Removed(w) == [k \in Kinds |-> IF Mine(w, k) THEN None ELSE task[k]]

GoIdle(w) ==
    /\ Goto(w, "idle")
    /\ held' = [held EXCEPT ![w] = None]
    /\ name' = [name EXCEPT ![w] = None]
    /\ UNCHANGED names

\* By id: the claim may have been taken over meanwhile.  Both wait for a cancellation.
Release(w) ==
    /\ wpc[w] = "release" /\ ~ (held[w].kind = "import" /\ held[w].ref \in cancelling)
    /\ task' = Released(w)
    /\ GoIdle(w)
    /\ UNCHANGED <<last, export, import, store, user, web, cleanup, failures, tracked>>

Remove(w) ==
    /\ wpc[w] = "remove" /\ ~ (held[w].kind = "import" /\ held[w].ref \in cancelling)
    /\ task' = Removed(w)
    /\ GoIdle(w)
    /\ UNCHANGED <<last, export, import, store, user, web, cleanup, failures, tracked>>

\* Six hours after the claim its worker has crashed or, with SlowWorkers, is still at work.
ExpireClaim(k) ==
    /\ Queued(k) /\ task[k].claim = "yes"
    /\ SlowWorkers \/ \A w \in Workers : ~Mine(w, k)
    /\ task' = [task EXCEPT ![k].claim = "expired"]
    /\ UNCHANGED <<last, export, import, store, user, web, worker, cleanup, failures, tracked>>

-----------------------------------------------------------------------------
(* import_listens() *)

Import(w) == held[w].ref

\* Mutation: finished imports are run again.
LoadImport_AnyStatus(w) ==
    /\ wpc[w] = "load import"
    /\ Goto(w, IF import[Import(w)].status = "deleted" THEN "remove" ELSE "begin import")
    /\ UNCHANGED <<rows, store, user, web, held, name, names, cleanup, failures, tracked>>

\* A finished import only has its file deleted.
LoadImport(w) ==
    /\ wpc[w] = "load import"
    /\ LET s == import[Import(w)].status IN
          /\ Goto(w, IF s \in Unfinished THEN "begin import" ELSE "remove")
          /\ IF s \in FINISHED_STATUSES THEN RemoveFile(Import(w)) ELSE UNCHANGED <<files, old, drop>>
    /\ UNCHANGED <<rows, archives, user, web, held, name, names, keep, failures, tracked>>

\* w sets the status of its import, waiting for a cancellation of it.
SetImport(w, from, s, to) ==
    /\ wpc[w] = from /\ Import(w) \notin cancelling
    /\ import' = Update(import, Import(w), s)
    /\ Goto(w, to)
    /\ UNCHANGED <<task, last, export, store, user, web, held, name, names, cleanup, failures,
                   tracked>>

Rival(i) ==
    /\ import[i].status # "deleted"
    /\ \E j \in Imports \ {i} :
          import[j].service = import[i].service /\ import[j].status \in Unfinished

\* Outside of the try statement; the unique index refuses a second unfinished import.
BeginImport(w) ==
    /\ wpc[w] = "begin import"
    /\ IF Rival(Import(w))
       THEN /\ Goto(w, "release")
            /\ UNCHANGED <<rows, store, user, web, held, name, names, cleanup, failures, tracked>>
       ELSE SetImport(w, "begin import", "in_progress", "fetch file")

FetchFile(w) ==
    /\ wpc[w] = "fetch file"
    /\ Goto(w, IF Import(w) \in files THEN "submit listens" ELSE "fail import")
    /\ UNCHANGED <<rows, store, user, web, held, name, names, cleanup, failures, tracked>>

SubmitListens(w) ==
    /\ wpc[w] = "submit listens"
    /\ submitted' = submitted \cup {Import(w)}
    /\ Goto(w, "finish import")
    /\ UNCHANGED <<rows, store, user, web, held, name, names, cleanup, failures, asked, cancelled,
                   spoiled, swept>>

FinishImport(w) == SetImport(w, "finish import", "completed", "unlink file")

FailImport(w) == SetImport(w, "fail import", "failed", "unlink file")

\* The finally clause, of a run that ends, raises ("unlink and release") or exits ("unlink and
\* exit").
UnlinkFile(w) ==
    /\ wpc[w] \in {"unlink file", "unlink and release", "unlink and exit"}
    /\ RemoveFile(Import(w))
    /\ CASE wpc[w] = "unlink file" -> Goto(w, "remove") /\ UNCHANGED <<held, name, names>>
         [] wpc[w] = "unlink and release" -> Goto(w, "release") /\ UNCHANGED <<held, name, names>>
         [] OTHER -> GoIdle(w)
    /\ UNCHANGED <<rows, archives, user, web, keep, failures, tracked>>

-----------------------------------------------------------------------------
(* export_user() *)

Export(w) == held[w].ref

LoadExport(w) ==
    /\ wpc[w] = "load export"
    /\ Goto(w, IF export[Export(w)].status = "deleted" THEN "remove" ELSE "begin export")
    /\ UNCHANGED <<rows, store, user, web, held, name, names, cleanup, failures, tracked>>

\* The archive's name holds the time and is a new one in every run.  The unique index refuses a
\* second unfinished export.
BeginExport(w) ==
    /\ wpc[w] = "begin export"
    /\ names' = names + 1 /\ name' = [name EXCEPT ![w] = names + 1]
    /\ IF /\ export[Export(w)].status # "deleted"
          /\ \E e \in Exports \ {Export(w)} : export[e].status \in Unfinished
       THEN UNCHANGED export /\ Goto(w, "fail export")
       ELSE /\ export' = IF export[Export(w)].status = "deleted" THEN export
                         ELSE [export EXCEPT ![Export(w)] =
                                   [status |-> "in_progress", file |-> names + 1]]
            /\ Goto(w, "upload archive")
    /\ UNCHANGED <<task, last, import, store, user, web, held, cleanup, failures, tracked>>

UploadArchive(w) ==
    /\ wpc[w] = "upload archive"
    /\ archives' = archives \cup {name[w]}
    /\ Goto(w, "finish export")
    /\ UNCHANGED <<rows, files, old, user, web, held, name, names, cleanup, failures, tracked>>

SetExport(w, from, s, to) ==
    /\ wpc[w] = from
    /\ export' = Update(export, Export(w), s)
    /\ Goto(w, to)
    /\ UNCHANGED <<task, last, import, store, user, web, held, name, names, cleanup, failures,
                   tracked>>

FinishExport(w) == SetExport(w, "finish export", "completed", "remove")

\* mark_export_failed(), after which the error is raised again and the task released.
MarkExportFailed(w) == SetExport(w, "fail export", "failed", "release")

-----------------------------------------------------------------------------
(* delete_listens_history() and delete_user() *)

\* Mutation: the time of the request is not looked at.
DeleteListens_All(w) ==
    /\ wpc[w] = "delete listens"
    /\ listens' = {}
    /\ Goto(w, IF held[w].kind = "account" THEN "delete user" ELSE "remove")
    /\ UNCHANGED <<rows, store, heard, erased, web, held, name, names, cleanup, failures, tracked>>

\* The listens are in a database of their own.
DeleteListens(w) ==
    /\ wpc[w] = "delete listens"
    /\ listens' = {l \in listens : l > held[w].ref}
    /\ Goto(w, IF held[w].kind = "account" THEN "delete user" ELSE "remove")
    /\ UNCHANGED <<rows, store, heard, erased, web, held, name, names, cleanup, failures, tracked>>

\* The foreign keys delete the user's rows, once a cancellation has committed.
DeleteUser(w) ==
    /\ wpc[w] = "delete user" /\ cancelling = {}
    /\ erased' = TRUE
    /\ task' = [k \in Kinds |-> None]
    /\ export' = [e \in Exports |-> Update(export, e, "deleted")[e]]
    /\ import' = [i \in Imports |-> Update(import, i, "deleted")[i]]
    /\ Goto(w, "remove")
    /\ UNCHANGED <<last, store, listens, heard, web, held, name, names, cleanup, failures, tracked>>

-----------------------------------------------------------------------------
(* Failures of the workers *)

InImport == {"fetch file", "submit listens", "finish import"}

InExport == {"begin export", "upload archive", "finish export"}

\* An exception, at each step the handler that its place in the code has.
Fail(w) ==
    /\ wpc[w] \notin {"idle", "release"} \cup {"unlink file", "unlink and release", "unlink and exit"}
    /\ Budget
    /\ Goto(w, CASE wpc[w] \in InImport -> "fail import"
                 [] wpc[w] = "fail import" -> "unlink and release"
                 [] wpc[w] \in InExport -> "fail export"
                 [] OTHER -> "release")
    /\ spoiled' = IF wpc[w] = "fail import" THEN spoiled \cup {Import(w)} ELSE spoiled
    /\ UNCHANGED <<rows, store, user, web, held, name, names, cleanup, asked, submitted, cancelled,
                   swept>>

\* SIGTERM: the task is released and SystemExit raised, which runs the finally clause only.
Shutdown(w) ==
    /\ wpc[w] \notin {"idle", "unlink and exit"} /\ Budget
    /\ ~ (held[w].kind = "import" /\ Import(w) \in cancelling)
    /\ task' = Released(w)
    /\ IF wpc[w] \in InImport \cup {"fail import", "unlink file", "unlink and release"}
       THEN /\ Goto(w, "unlink and exit")
            /\ spoiled' = spoiled \cup {Import(w)}
            /\ UNCHANGED <<held, name, names>>
       ELSE GoIdle(w) /\ UNCHANGED spoiled
    /\ UNCHANGED <<last, export, import, store, user, web, cleanup, asked, submitted, cancelled,
                   swept>>

\* The process is killed, or exits because releasing the task failed.
Crash(w) ==
    /\ wpc[w] # "idle" /\ Budget
    /\ GoIdle(w)
    /\ UNCHANGED <<rows, store, user, web, cleanup, tracked>>

-----------------------------------------------------------------------------
(* cleanup_old_exports() and cleanup_import_files() *)

Kept == {export[e].file : e \in {f \in Exports : export[f].status \notin {"none", "deleted"}}}

\* The 30 days of some completed exports are over; the names of the others are kept.
ListExports ==
    /\ keep = None
    /\ \E E \in SUBSET {e \in Exports : export[e].status = "completed"} :
          export' = [e \in Exports |-> IF e \in E THEN Status(export, e, "deleted")[e] ELSE export[e]]
    /\ keep' = [files |-> Kept', listed |-> names]
    /\ UNCHANGED <<task, last, import, store, user, web, worker, drop, failures, tracked>>

\* The bucket is listed later, and may hold the archive of an export begun since.
SweepArchives ==
    /\ keep # None
    /\ archives' = archives \cap keep.files
    /\ swept' = swept \cup {a \in archives \ keep.files : a > keep.listed}
    /\ keep' = None
    /\ UNCHANGED <<rows, files, old, user, web, worker, drop, failures, asked, submitted, cancelled,
                   spoiled>>

\* A request for an import does not take a day.
AgeFile(i) ==
    /\ i \in files \ old /\ asking[i] \notin Services
    /\ old' = old \cup {i}
    /\ UNCHANGED <<rows, archives, files, user, web, worker, cleanup, failures, tracked>>

NeededFiles == {i \in Imports : import[i].status \in Unfinished}

\* The cutoff is computed after the rows have been read.
Dropped == old \ NeededFiles

ListFiles ==
    /\ drop = {} /\ Dropped # {}
    /\ drop' = Dropped
    /\ UNCHANGED <<rows, store, user, web, worker, keep, failures, tracked>>

SweepFiles ==
    /\ drop # {}
    /\ files' = files \ drop /\ old' = old \ drop
    /\ drop' = {}
    /\ UNCHANGED <<rows, archives, user, web, worker, keep, failures, tracked>>

-----------------------------------------------------------------------------

WorkerStep(w) ==
    \/ Release(w) \/ Remove(w)
    \/ LoadImport(w) \/ BeginImport(w) \/ FetchFile(w) \/ SubmitListens(w)
    \/ FinishImport(w) \/ FailImport(w) \/ UnlinkFile(w)
    \/ LoadExport(w) \/ BeginExport(w) \/ UploadArchive(w) \/ FinishExport(w)
    \/ MarkExportFailed(w)
    \/ DeleteListens(w) \/ DeleteUser(w)

Request ==
    \/ \E e \in Exports : RequestExport(e) \/ DeleteExport(e)
    \/ \E i \in Imports : RequestImport(i) \/ UploadFile(i) \/ CreateImport(i)
                          \/ ImportRequestFails(i)
                          \/ CancelImport(i) \/ CommitCancel(i) \/ CancelFails(i)
    \/ \E k \in Kinds : RequestDeletion(k)
    \/ Hear

CleanUp ==
    \/ ListExports \/ SweepArchives
    \/ \E i \in Imports : AgeFile(i)
    \/ ListFiles \/ SweepFiles

Next ==
    \/ Request
    \/ \E w \in Workers : Claim(w) \/ WorkerStep(w) \/ Fail(w) \/ Shutdown(w) \/ Crash(w)
    \/ \E k \in Kinds : ExpireClaim(k)
    \/ CleanUp

Spec == Init /\ [][Next]_vars

\* Workers run and are restarted, claims grow old, and transactions end.
FairSpec ==
    /\ Spec
    /\ \A w \in Workers : WF_vars(Claim(w)) /\ WF_vars(WorkerStep(w))
    /\ \A k \in Kinds : WF_vars(ExpireClaim(k))
    /\ \A i \in Imports : WF_vars(CommitCancel(i)) /\ WF_vars(AgeFile(i))
    /\ WF_vars(ListFiles) /\ WF_vars(SweepFiles)

-----------------------------------------------------------------------------

TaskRow == [id : 1..MaxTasks, ref : Exports \cup Imports \cup 0..MaxListens,
            claim : {"no", "yes", "expired"}]

Held == [kind : Kinds, id : 1..MaxTasks, ref : Exports \cup Imports \cup 0..MaxListens]

Pcs == {"idle", "release", "remove", "load import", "begin import", "fetch file",
        "submit listens", "finish import", "fail import", "unlink file", "unlink and release",
        "unlink and exit", "load export", "begin export", "upload archive", "finish export",
        "fail export", "delete listens", "delete user"}

Statuses == {"none", "deleted"} \cup Unfinished \cup FINISHED_STATUSES

\* The types of the rows (create_tables.sql, with the enums of create_types.sql), of the stores
\* and of the workers' progress, and a worker that is idle holds no task.
TypeOK ==
    /\ \A k \in Kinds : task[k] \in TaskRow \cup {None}
    /\ last \in 0..MaxTasks
    /\ \A e \in Exports : export[e].status \in Statuses /\ export[e].file \in Nat \cup {None}
    /\ \A i \in Imports : import[i].status \in Statuses /\ import[i].service \in Services \cup {None}
    /\ \A i \in Imports : asking[i] \in Services \cup {None, "answered"}
    /\ \A S \in {cancelling, files, old, drop, submitted, cancelled} : S \subseteq Imports
    /\ archives \subseteq 1..names
    /\ keep # None => keep.files \subseteq 1..names \cup {None} /\ keep.listed \in 0..names
    /\ heard \in 0..MaxListens /\ listens \subseteq 1..heard /\ erased \in BOOLEAN
    /\ \A w \in Workers : /\ wpc[w] \in Pcs /\ held[w] \in Held \cup {None}
                           /\ (wpc[w] = "idle") <=> (held[w] = None)
                           /\ name[w] \in 1..names \cup {None}
    /\ failures \in 0..MaxFailures

Working(w) == wpc[w] \notin {"idle", "unlink and exit"}

\* claim_task(): as long as no task runs for longer than the claim timeout, no two workers run
\* the same task, whatever fails or is shut down.
OneWorkerPerTask ==
    \A v, w \in Workers :
        v # w /\ Working(v) /\ Working(w) => held[v].id # held[w].id

\* The uploaded file of an import that can still run stays in the bucket until the import ends:
\* the clean-up job never takes it, at whatever moment of the upload it runs.  Imports that a
\* shutdown interrupted and cancellations that failed are excepted.
UnfinishedHasFile ==
    \A i \in Imports \ spoiled : import[i].status \in Unfinished /\ i \notin cancelling => i \in files

\* A cancellation answered with success means that no listen of the import is submitted, also
\* when a worker had already read the row.  Files that could not be deleted are excepted.
CancelledNotImported == cancelled \cap submitted \subseteq spoiled

\* FINISHED_STATUSES: an import that has finished never runs again, also when its task does.
FinishedImportsStay ==
    [][\A i \in Imports : import[i].status \in FINISHED_STATUSES
                             => import'[i].status \in {import[i].status, "deleted"}]_vars

\* An unfinished export, which keeps the user from requesting another one, has a task that will
\* finish it or mark it as failed.
ExportHasTask ==
    \A e \in Exports : export[e].status \in Unfinished => HasTask("export", e)

\* The archive of a completed export can be downloaded until the export expires.
CompletedHasArchive ==
    \A e \in Exports : export[e].status = "completed" => export[e].file \in archives

\* The same, but for archives of exports that began after a clean-up had read the rows.
CompletedHasArchiveOrSwept ==
    \A e \in Exports : export[e].status = "completed" => export[e].file \in archives \cup swept

\* listens_db.delete_user() gets the time of the request and not that of its run: what the user
\* has listened to since is kept, however often the task is run.
LaterListensKept == \A l \in 1..heard : l > asked => l \in listens

\* Every queued task eventually leaves the table, however its workers fail.
TasksSettle ==
    \A n \in 1..MaxTasks :
        (\E k \in Kinds : Queued(k) /\ task[k].id = n) ~> ~(\E k \in Kinds : Queued(k) /\ task[k].id = n)

\* A file that no unfinished import needs is eventually deleted from the bucket, also that of a
\* request or a cancellation that failed half way.
UnneededFilesGo ==
    \A i \in Imports : (i \in files /\ i \notin NeededFiles /\ asking[i] \notin Services) ~> i \notin files

-----------------------------------------------------------------------------
(* What the code's comments say and its behaviour does not keep *)

\* import_listens.py: if the "task already exists in queue, rollback new entry", so a waiting
\* import has a task.
ImportHasTask == \A i \in Imports : import[i].status = "waiting" => HasTask("import", i)

\* release_task(): "Release a claimed task so it can be retried by another worker", and storage.py:
\* "an import in any other status may still need its file".
ReleasedKeepsFile ==
    \A i \in Imports :
        /\ import[i].status = "in_progress" /\ HasTask("import", i)
        /\ task["import"].claim = "no"
        => i \in files

\* settings.py: "Delete all the listens for the currently logged-in user from ListenBrainz": once
\* no deletion is queued, what the user asked to delete is gone.
HistoryDeleted ==
    (\A k \in Kinds : ~Queued(k)) => \A l \in listens : l > asked

=============================================================================
