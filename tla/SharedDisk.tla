----------------------------- MODULE SharedDisk -----------------------------
(***************************************************************************)
(* What the workers leave on disk for each other: TaskHandler::process     *)
(* keeps the request in a file until the task is over, works in two        *)
(* directories whose names are the method and the second, and deletes both *)
(* at the end (task_handle.cpp 84-113, 218-227, 313-335; file_system.cpp). *)
(* When the service starts, the parent reads the requests that are left    *)
(* (process_pool.h 589-618).  All tasks here have one method: those of     *)
(* different methods never meet.                                           *)
(***************************************************************************)
EXTENDS Naturals, Sequences, FiniteSets, SequencesExt

CONSTANTS
  Tasks,         \* requests, by id
  Slots,         \* numbers of workers to start with
  Starts,        \* may the disk be empty at first: {TRUE}, {FALSE} or both
  LastSecond,    \* bound of the clock
  MaxFaults      \* bound: downloads and replies that fail, workers and services killed,
                 \* with a worker for each task; one more for each worker that is missing

ASSUME DiskAssumption ==
  /\ IsFiniteSet(Tasks)  /\ Slots \subseteq Nat \ {0}  /\ LastSecond \in Nat \ {0}
  /\ MaxFaults \in Nat  /\ Starts \subseteq BOOLEAN

VARIABLES
  second,     \* the clock
  dirs,       \* directories
  files,      \* the results in save paths
  message,    \* the file of each request: "none", "torn" or "whole"
  tpc,        \* where the worker of each task is
  call,       \* the local variables of its call of process
  broken,     \* the parent ended while it read the requests that were left
  dfaults, restarts,
  slots,      \* workers of the service
  bare,       \* the directories all tasks share were not there at first
  answered,   \* history: tasks with an answer
  hit,        \* history: tasks whose download failed
  place,      \* history: where a task was when its worker died
  users       \* history: which task used which directory, in which run of the service

taskVars  == <<message, tpc, call>>
deathVars == <<broken, dfaults, restarts, slots, place>>
diskvars  == <<second, dirs, files, taskVars, deathVars, bare, answered, hit, users>>

Bases == {"new_save", "download"}
Base(b) == [base |-> b, at |-> 0]
Dir == [base : Bases, at : 0..LastSecond]
NoDir == [base |-> "none", at |-> 0]
Content == [dir : Dir, of : Tasks]
Running == {t \in Tasks : tpc[t] \notin {"new", "done", "stopped"}}

\* save_path, the directory of the download, whether file_path is set,
\* need_create_directories, what traverse_directory has still to delete.
Start == [save |-> NoDir, down |-> NoDir, file_path |-> FALSE, need |-> << >>, todo |-> {},
          status |-> "success"]

DiskInit ==
  /\ second = 1  /\ bare \in Starts  /\ slots \in Slots
  /\ dirs = (IF bare THEN {} ELSE {Base(b) : b \in Bases})  /\ files = {}
  /\ message = [t \in Tasks |-> "none"]  /\ tpc = [t \in Tasks |-> "new"]
  /\ call = [t \in Tasks |-> Start]
  /\ broken = FALSE  /\ dfaults = 0  /\ restarts = 0
  /\ answered = {}  /\ hit = {}  /\ place = [t \in Tasks |-> "none"]  /\ users = {}

FaultLeft == dfaults + slots < MaxFaults + Cardinality(Tasks)
Fewer(a, b) == IF a < b THEN a ELSE b

Step(t, from, to) == tpc[t] = from  /\ tpc' = [tpc EXCEPT ![t] = to]
Local(t, values) == call' = [call EXCEPT ![t] = values]
Use(t, d) == users' = users \union {[task |-> t, run |-> restarts, dir |-> d]}

-----------------------------------------------------------------------------
\* The request is written to its file, which the opening truncates.
WriteMessage(t, from, to, content) ==
  /\ Step(t, from, to)
  /\ message' = [message EXCEPT ![t] = content]
  /\ UNCHANGED <<second, dirs, files, call, deathVars, bare, answered, hit, users>>

OpenMessage(t) ==
  ~broken /\ Cardinality(Running) < slots /\ WriteMessage(t, "new", "store", "torn")

\* A request that was left by an earlier run is written again, see Restart.
OpenLeft(t) == WriteMessage(t, "loaded", "store", "torn")

CloseMessage(t) == WriteMessage(t, "store", "check", "whole")

-----------------------------------------------------------------------------
(***************************************************************************)
(* create_directories: the missing directories are listed from the last to *)
(* the first, then made from the first.  It fails when nothing is missing, *)
(* and when another process makes one of them in between.                  *)
(***************************************************************************)
Missing(d) == IF d \in dirs THEN << >>
              ELSE IF Base(d.base) \in dirs THEN <<d>> ELSE <<d, Base(d.base)>>

\* The list, or the error.
Walk(t, from, to, values, d, error) ==
  IF d \in dirs
    THEN Step(t, from, "cleanDown") /\ Local(t, [values EXCEPT !.status = error])
    ELSE Step(t, from, to) /\ Local(t, [values EXCEPT !.need = Missing(d)])

MakeOneOf(t, at, next, error, d, rest) ==
  /\ IF d \in dirs
       THEN Step(t, at, "cleanDown") /\ Local(t, [call[t] EXCEPT !.need = << >>, !.status = error])
       ELSE Step(t, at, IF rest = << >> THEN next ELSE at) /\ Local(t, [call[t] EXCEPT !.need = rest])
  /\ dirs' = dirs \union {d}
  /\ UNCHANGED <<second, files, message, deathVars, bare, answered, hit, users>>

Make(t, at, next, error) ==
  LET need == call[t].need IN
    need # << >> /\ MakeOneOf(t, at, next, error, Last(need), Front(need))

CheckSaveWhen(t, ready) ==
  LET d == [base |-> "new_save", at |-> second] IN
    /\ ready
    /\ Step(t, "check", IF d \in dirs THEN "name" ELSE "walkSave")
    /\ Local(t, [call[t] EXCEPT !.save = d])  /\ Use(t, d)
    /\ UNCHANGED <<second, dirs, files, message, deathVars, bare, answered, hit>>

\* Mutant: a task waits until nobody has its save path.
CheckSaveWaiting(t) == CheckSaveWhen(t, [base |-> "new_save", at |-> second] \notin dirs)

\* A save path that exists is used as it is.
CheckSave(t) == CheckSaveWhen(t, TRUE)

WalkSave(t) ==
  /\ Walk(t, "walkSave", "makeSave", call[t], call[t].save, "create")
  /\ UNCHANGED <<second, dirs, files, message, deathVars, bare, answered, hit, users>>

MakeSave(t) == Make(t, "makeSave", "name", "create")

\* download_file reads the clock again.
NameDownload(t) ==
  LET d == [base |-> "download", at |-> second] IN
    /\ Walk(t, "name", "makeDown", [call[t] EXCEPT !.down = d], d, "download")
    /\ Use(t, d)
    /\ UNCHANGED <<second, dirs, files, message, deathVars, bare, answered, hit>>

MakeDownload(t) == Make(t, "makeDown", "fetch", "download")

-----------------------------------------------------------------------------
Fetch(t) ==
  /\ Step(t, "fetch", "work")  /\ Local(t, [call[t] EXCEPT !.file_path = TRUE])
  /\ UNCHANGED <<second, dirs, files, message, deathVars, bare, answered, hit, users>>

\* The bucket is unknown, or the download fails: file_path stays empty, and the
\* directory of the download, if it was made, is not deleted.
DownloadError(t, from) ==
  /\ FaultLeft
  /\ Step(t, from, "cleanDown")  /\ Local(t, [call[t] EXCEPT !.status = "download"])
  /\ dfaults' = dfaults + 1  /\ hit' = hit \union {t}
  /\ UNCHANGED <<second, dirs, files, message, broken, restarts, slots, place, bare, answered, users>>

UnknownBucket(t) == DownloadError(t, "name")
FetchFails(t)    == DownloadError(t, "fetch")

\* The results go to the save path, if it is there.
Work(t) ==
  /\ Step(t, "work", "upload")
  /\ files' = IF call[t].save \in dirs THEN files \union {[dir |-> call[t].save, of |-> t]} ELSE files
  /\ UNCHANGED <<second, dirs, message, call, deathVars, bare, answered, hit, users>>

UploadThen(t, kept) ==
  /\ Step(t, "upload", "cleanDown")
  /\ Local(t, IF [dir |-> call[t].save, of |-> t] \in files THEN call[t]
              ELSE [call[t] EXCEPT !.status = "upload"])
  /\ message' = [message EXCEPT ![t] = kept]
  /\ UNCHANGED <<second, dirs, files, deathVars, bare, answered, hit, users>>

\* Mutant: the request is deleted as soon as its results are uploaded.
UploadForget(t) == UploadThen(t, "none")

Upload(t) == UploadThen(t, message[t])

\* process returns false, for an archive or a result that cannot be encoded: nothing
\* is deleted, and the parent, without a reply, keeps the worker for busy.
NoReply(t) ==
  /\ FaultLeft
  /\ \E at \in {"upload", "cleanDown"} : Step(t, at, "silent")
  /\ dfaults' = dfaults + 1
  /\ UNCHANGED <<second, dirs, files, message, call, broken, restarts, slots, place, bare, answered, hit, users>>

-----------------------------------------------------------------------------
(***************************************************************************)
(* delete_directories, on the download's directory, then on the save path: *)
(* the entries there at the beginning, one by one, then the directory.  It *)
(* ends when an entry is gone already, or when the directory is not empty. *)
(***************************************************************************)
\* The directory of a download has one user, as long as it is there.
DeleteDownloadAnd(t, next) ==
  /\ Step(t, "cleanDown", next)
  /\ dirs' = IF call[t].file_path THEN dirs \ {call[t].down} ELSE dirs
  /\ UNCHANGED <<second, files, message, call, deathVars, bare, answered, hit, users>>

\* Mutant: without a source file nothing is deleted.
DeleteDownloadOrNothing(t) == DeleteDownloadAnd(t, IF call[t].file_path THEN "listSave" ELSE "forget")

DeleteDownload(t) == DeleteDownloadAnd(t, "listSave")

ListOf(t, entries) ==
  /\ Step(t, "listSave", IF call[t].save \in dirs THEN "cleanSave" ELSE "forget")
  /\ Local(t, [call[t] EXCEPT !.todo = entries])
  /\ UNCHANGED <<second, dirs, files, message, deathVars, bare, answered, hit, users>>

\* Mutant: every save path is emptied with this one.
ListEverySave(t) == ListOf(t, files)

ListSave(t) == ListOf(t, {f \in files : f.dir = call[t].save})

DeleteEntry(t, f) ==
  /\ f \in call[t].todo
  /\ Step(t, "cleanSave", IF f \in files THEN "cleanSave" ELSE "forget")
  /\ Local(t, [call[t] EXCEPT !.todo = IF f \in files THEN @ \ {f} ELSE {}])
  /\ files' = files \ {f}
  /\ UNCHANGED <<second, dirs, message, deathVars, bare, answered, hit, users>>

RemoveSave(t) ==
  /\ call[t].todo = {}
  /\ Step(t, "cleanSave", "forget")
  /\ dirs' = IF \E f \in files : f.dir = call[t].save THEN dirs ELSE dirs \ {call[t].save}
  /\ UNCHANGED <<second, files, message, call, deathVars, bare, answered, hit, users>>

\* The request is deleted before the answer is sent.
Forget(t) == WriteMessage(t, "forget", "reply", "none")

Reply(t) ==
  /\ Step(t, "reply", "done")  /\ Local(t, Start)
  /\ answered' = answered \union {t}
  /\ UNCHANGED <<second, dirs, files, message, deathVars, bare, hit, users>>

-----------------------------------------------------------------------------
(***************************************************************************)
(*                       time, deaths and restarts                         *)
(***************************************************************************)
\* Bound: a service that was started again lives for less than a second.
Tick ==
  /\ second < LastSecond  /\ restarts = 0
  /\ second' = second + 1
  /\ UNCHANGED <<dirs, files, taskVars, deathVars, bare, answered, hit, users>>

\* The places from which a request cannot be done again, and the others.
Place(t) == IF tpc[t] \in {"store", "reply"} THEN tpc[t] ELSE "other"

\* A worker is killed; the parent answers that the task failed and forks another
\* worker.  The file of the request stays.
Kill(t) ==
  /\ t \in Running  /\ ~broken  /\ FaultLeft
  /\ dfaults' = dfaults + 1
  /\ place' = [place EXCEPT ![t] = Place(t)]  /\ answered' = answered \union {t}
  /\ tpc' = [tpc EXCEPT ![t] = "stopped"]  /\ Local(t, Start)
  /\ UNCHANGED <<second, dirs, files, message, broken, restarts, slots, bare, hit, users>>

\* The service is killed with its workers and started again: the requests that are
\* left are read in the order of the directory, and each is given to a free worker;
\* the first one that finds none ends the loading.  A torn request that is read ends
\* the parent (an exception of the archive).
Restart(found, loaded) ==
  /\ FaultLeft  /\ ~broken
  /\ LET left == {t \in Tasks : message[t] # "none"} IN
       /\ found \subseteq left
       /\ Cardinality(found) = Fewer(Cardinality(left), slots + 1)
       /\ Cardinality(loaded) = Fewer(Cardinality(found), slots)
  /\ dfaults' = dfaults + 1  /\ restarts' = restarts + 1
  /\ broken' = \E t \in found : message[t] = "torn"
  /\ place' = [t \in Tasks |-> IF t \in Running THEN Place(t) ELSE place[t]]
  /\ tpc' = [t \in Tasks |-> IF t \in loaded /\ ~broken' THEN "loaded"
                             ELSE IF t \in Running THEN "stopped" ELSE tpc[t]]
  /\ call' = [t \in Tasks |-> Start]
  /\ UNCHANGED <<second, dirs, files, message, slots, bare, answered, hit, users>>

DiskStep(t) ==
  \/ OpenLeft(t) \/ CloseMessage(t) \/ CheckSave(t) \/ WalkSave(t) \/ MakeSave(t)
  \/ UnknownBucket(t) \/ NameDownload(t) \/ MakeDownload(t) \/ Fetch(t) \/ FetchFails(t)
  \/ Work(t) \/ Upload(t) \/ NoReply(t) \/ DeleteDownload(t) \/ ListSave(t) \/ RemoveSave(t) \/ Forget(t) \/ Reply(t)
  \/ \E f \in Content : DeleteEntry(t, f)

DiskNext ==
  \/ \E t \in Tasks : OpenMessage(t) \/ DiskStep(t) \/ Kill(t)
  \/ Tick
  \/ \E found \in SUBSET Tasks : \E loaded \in SUBSET found : Restart(found, loaded)

\* Every worker is scheduled.
DiskSpec == DiskInit /\ [][DiskNext]_diskvars /\ \A t \in Tasks : WF_diskvars(DiskStep(t))
=============================================================================
