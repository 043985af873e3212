----------------------------- MODULE WorkerTask -----------------------------
(***************************************************************************)
(* What a worker process does with the tasks it is handed, one after       *)
(* another: TaskHandler::process (task_handle.cpp), the branches of a flow *)
(* on the two threads of AlgorithmFunctions, the uploads on the four of    *)
(* TaskHandler, OssHandle, and the files on disk that outlive the worker.  *)
(*                                                                         *)
(* "main" is the thread of process(), between two of its steps.  A mesh is *)
(* the file it was read from and its kind; a file is the mesh it holds and *)
(* the step that saved it; a compute result is the mesh it describes.  The *)
(* pools have a thread for every branch and upload of the instances (what  *)
(* a pool promises is WorkQueue).                                          *)
(***************************************************************************)
EXTENDS Integers, Sequences, FiniteSets, Settings

CONSTANTS
  Jobs,          \* task messages the pool hands to the worker
  Docs,          \* Docs[j]: the settings that the message of j names
  Config,        \* the settings of the configuration file
  PubKnown,      \* jobs that name a configured public bucket
  Parts,         \* files that an archive may hold
  Branches,      \* the branches a flow may have
  Flow,          \* Flow[j][b]: the steps of branch b of the flow of j
  SaveOf,        \* SaveOf[b]: the operation that saves files in branch b
  Kinds,         \* what meshes the files hold: "bad" (to be repaired), "clean"
  StartCounts,   \* what m_thread_count, which nothing sets, may hold at first
  MaxFaults,     \* bound: crashes and restarts
  None           \* nothing

\* "plain" is a step that always succeeds and that no later one depends on:
\* simplify, or a name that m_funcs does not know.
Steps == {"compute", "repair", "plain", "save"}

ASSUME WorkerAssumption ==
  /\ PubKnown \subseteq Jobs
  /\ DOMAIN Config = Fields /\ \A f \in Switches : Config[f] \in BOOLEAN
  /\ \A j \in Jobs : /\ DOMAIN Docs[j] \subseteq Fields
                     /\ \A f \in Switches \cap DOMAIN Docs[j] : Docs[j][f] \in BOOLEAN
  /\ SaveOf \in [Branches -> {"saveGlb", "saveStl", "savePly", "saveBeb", "save3mf", "saveObj"}]
  /\ Flow \in [Jobs -> [Branches -> Seq(Steps)]]
  /\ Kinds \subseteq {"bad", "clean"} /\ IsFiniteSet(Branches) /\ None \notin Jobs \cup Parts \cup Branches
  /\ StartCounts \in SUBSET Nat /\ StartCounts # {} /\ MaxFaults \in Nat

VARIABLES
  inbox, msgs,          \* tasks to be handed over; message files that are whole
  torn,                 \* message files that were opened and not closed
  main, job, fetched,   \* the thread of process(), its request, whether file_path is set
  left,                 \* what the memory of a field that is not read holds
  todo, result,         \* files still to read, and task_result
  at, mesh,             \* where each branch is in its flow (0: not running), its mesh
  m_thread_count, m_err_msg, m_save_results, m_cr, m_final_cr,
  posting, flying,      \* files upload_files has still to post; uploads under way
  m_upcounts,
  b_upload,             \* a local of upload_files, TRUE outside it
  download, save,       \* jobs with a directory of downloaded, of new files
  ended,                \* history: the uploads of this task that ended, well or not
  failed,               \* history: whether a step of this task failed
  answered,             \* history: jobs with a reply
  lost,                 \* history: jobs whose worker died with their message neither on disk nor answered
  faults                \* bound

diskVars   == <<msgs, torn, download, save>>
mainVars   == <<main, job, fetched, left, todo, result>>
funcVars   == <<at, mesh, m_thread_count, m_err_msg, m_save_results, m_cr, m_final_cr>>
uploadVars == <<posting, flying, m_upcounts, b_upload>>
history    == <<ended, failed, answered, lost>>
vars == <<inbox, diskVars, mainVars, funcVars, uploadVars, history, faults>>

Mesh == [job : Jobs, part : Parts \cup {None}, kind : {"bad", "clean", "fixed", "empty", "zip"}]
File == [mesh : Mesh, at : (Branches \cup {None}) \X Nat, isPub : BOOLEAN]
Upload == [file : File, call : Jobs, there : BOOLEAN]
Result == [status : {"success", "error"}, files : SUBSET File,
           cr : Mesh \cup {None}, final : Mesh \cup {None}]

FreshResult == [status |-> "success", files |-> {}, cr |-> None, final |-> None]

Init ==
  /\ inbox = Jobs /\ msgs = {} /\ torn = {} /\ download = {} /\ save = {}
  /\ main = "idle" /\ job = None /\ fetched = FALSE /\ left = FALSE /\ todo = {}
  /\ result = FreshResult
  /\ at = [b \in Branches |-> 0] /\ mesh = [b \in Branches |-> None]
  /\ m_thread_count \in StartCounts
  /\ m_err_msg = {} /\ m_save_results = {} /\ m_cr = None /\ m_final_cr = None
  /\ posting = {} /\ flying = {} /\ m_upcounts = 0 /\ b_upload = TRUE
  /\ ended = {} /\ failed = FALSE /\ answered = {} /\ lost = {}
  /\ faults = 0

-----------------------------------------------------------------------------
(***************************************************************************)
(*             process(): the message, the download, the mesh              *)
(***************************************************************************)
\* The history of a task ends with it.
Forget == ended' = {} /\ failed' = FALSE

Fail == [result EXCEPT !.status = "error"]

\* The settings of the request; a message that is resolved needs no memory.
Setting(op, key) == Resolve(Docs[job], Config, left)[<<op, key>>]

IsZip == Setting("readOp", "isZip")

\* The request is in the pipe, or read from it.  Its file may be there, from an
\* earlier run of the service.
Take(j) ==
  /\ main = "idle" /\ j \in inbox
  /\ left' \in IF StlBucket \in DOMAIN Docs[j] THEN {FALSE} ELSE BOOLEAN
  /\ inbox'  = inbox \ {j}
  /\ main'   = "taken"
  /\ job'    = j
  /\ result' = FreshResult
  /\ UNCHANGED <<diskVars, fetched, todo, funcVars, uploadVars, history, faults>>

\* The opening truncates the file.
OpenMessage ==
  /\ main = "taken"
  /\ torn' = torn \cup {job}
  /\ msgs' = msgs \ {job}
  /\ main' = "store"
  /\ UNCHANGED <<inbox, download, save, job, fetched, left, todo, result, funcVars, uploadVars,
                 history, faults>>

CloseMessage ==
  /\ main = "store"
  /\ torn' = torn \ {job}
  /\ msgs' = msgs \cup {job}
  /\ main' = "prepare"
  /\ UNCHANGED <<inbox, download, save, job, fetched, left, todo, result, funcVars, uploadVars,
                 history, faults>>

\* A directory cannot be made, or the download fails with or without its directory.
PrepareFails ==
  /\ main = "prepare"
  /\ \/ UNCHANGED <<download, save>>
     \/ save' = save \cup {job} /\ download' \in {download, download \cup {job}}
  /\ result' = Fail
  /\ main'   = "send"
  /\ UNCHANGED <<inbox, msgs, torn, job, fetched, left, todo, funcVars, uploadVars, history, faults>>

Prepare ==
  /\ main = "prepare"
  /\ save'     = save \cup {job}
  /\ download' = download \cup {job}
  /\ fetched'  = TRUE
  /\ main'     = "open"
  /\ UNCHANGED <<inbox, msgs, torn, job, left, todo, result, funcVars, uploadVars, history, faults>>

UnzipFails ==
  /\ main = "open" /\ IsZip
  /\ result' = Fail
  /\ main'   = "send"
  /\ UNCHANGED <<inbox, diskVars, job, fetched, left, todo, funcVars, uploadVars, history, faults>>

Open(P) ==
  /\ main = "open"
  /\ IF IsZip THEN P \subseteq Parts ELSE P = {None}
  /\ todo' = P
  /\ main' = IF P = {} THEN "zip" ELSE "read"
  /\ UNCHANGED <<inbox, diskVars, job, fetched, left, result, funcVars, uploadVars, history, faults>>

\* No reader for the format, or it fails: read_mesh_ex returns at once.
ReadFails(p) ==
  /\ main = "read" /\ p \in todo
  /\ todo'      = todo \ {p}
  /\ m_err_msg' = m_err_msg \cup {job}
  /\ failed'    = TRUE
  /\ main'      = "collect"
  /\ UNCHANGED <<inbox, diskVars, job, fetched, left, result, at, mesh, m_thread_count,
                 m_save_results, m_cr, m_final_cr, uploadVars, ended, answered, lost, faults>>

\* The branches get copies of the mesh; a method without a flow has none.
ReadMesh(p, k) ==
  /\ main = "read" /\ p \in todo
  /\ LET posted == {b \in Branches : Flow[job][b] # << >>}
     IN /\ at'   = [b \in Branches |-> IF b \in posted THEN 1 ELSE 0]
        /\ mesh' = [b \in Branches |-> IF b \in posted
                                       THEN [job |-> job, part |-> p, kind |-> k] ELSE None]
        /\ m_thread_count' = m_thread_count + Cardinality(posted)
  /\ todo' = todo \ {p}
  /\ main' = "join"
  /\ UNCHANGED <<inbox, diskVars, job, fetched, left, result, m_err_msg,
                 m_save_results, m_cr, m_final_cr, uploadVars, history, faults>>

-----------------------------------------------------------------------------
(***************************************************************************)
(* dispatch_task: a branch runs its steps on a thread of the pool.  A      *)
(* repair leaves the branch's mesh as it is: repair_ex swaps the result    *)
(* into its own copy of the pointer.                                       *)
(***************************************************************************)
Running(b, s) == at[b] \in DOMAIN Flow[job][b] /\ Flow[job][b][at[b]] = s

Advance(b) == at' = [at EXCEPT ![b] = @ + 1]

Describes(m) == [m EXCEPT !.kind = IF @ = "bad" THEN "fixed" ELSE "empty"]

ToPublic(b) == Setting(SaveOf[b], "pubBucket")

\* What a save adds to m_save_results; its bucket must be in the configuration.
Saved(b) == IF Setting(SaveOf[b], "needUpload")
            THEN {[mesh |-> mesh[b], at |-> <<b, at[b]>>, isPub |-> ToPublic(b)]} ELSE {}

Placed(b) == ToPublic(b) => job \in PubKnown

\* The branch ends; the caller says where it had got to.
Leave(b) == /\ at'   = [at EXCEPT ![b] = 0]
            /\ mesh' = [mesh EXCEPT ![b] = None]

Compute(b) == /\ Running(b, "compute")
              /\ m_cr' = mesh[b]
              /\ Advance(b)
              /\ UNCHANGED <<mesh, m_thread_count, m_err_msg, m_save_results, m_final_cr, failed>>

Repair(b) == /\ Running(b, "repair")
             /\ m_final_cr' = Describes(mesh[b])
             /\ Advance(b)
             /\ UNCHANGED <<mesh, m_thread_count, m_err_msg, m_save_results, m_cr, failed>>

Plain(b) == /\ Running(b, "plain")
            /\ Advance(b)
            /\ UNCHANGED <<mesh, m_thread_count, m_err_msg, m_save_results, m_cr, m_final_cr, failed>>

Save(b) == /\ Running(b, "save")
           /\ Saved(b) = {} \/ Placed(b)
           /\ m_save_results' = m_save_results \cup Saved(b)
           /\ Advance(b)
           /\ UNCHANGED <<mesh, m_thread_count, m_err_msg, m_cr, m_final_cr, failed>>

\* What a save may leave in m_save_results when it fails later, at another picture.
SavedBefore(b) == IF Placed(b) THEN Saved(b) ELSE {}

\* Mutant: a branch that fails is not counted down.
SaveFailsUncounted(b) ==
  /\ Running(b, "save")
  /\ m_save_results' = m_save_results
  /\ m_err_msg' = m_err_msg \cup {job}
  /\ failed'    = TRUE
  /\ Leave(b)
  /\ UNCHANGED <<m_thread_count, m_cr, m_final_cr>>

\* A save or a rendering fails, or its bucket is unknown: the branch is broken off.
SaveFails(b) ==
  /\ Running(b, "save")
  /\ \E F \in SUBSET SavedBefore(b) : m_save_results' = m_save_results \cup F
  /\ m_err_msg'      = m_err_msg \cup {job}
  /\ failed'         = TRUE
  /\ m_thread_count' = m_thread_count - 1
  /\ Leave(b)
  /\ UNCHANGED <<m_cr, m_final_cr>>

BranchEnds(b) ==
  /\ at[b] > Len(Flow[job][b])
  /\ m_thread_count' = m_thread_count - 1
  /\ Leave(b)
  /\ UNCHANGED <<m_err_msg, m_save_results, m_cr, m_final_cr, failed>>

BranchStep(b) ==
  /\ at[b] # 0
  /\ \/ Compute(b) \/ Repair(b) \/ Plain(b) \/ Save(b) \/ SaveFails(b) \/ BranchEnds(b)
  /\ UNCHANGED <<inbox, diskVars, mainVars, uploadVars, ended, answered, lost, faults>>

-----------------------------------------------------------------------------
(***************************************************************************)
(* process(), once the branches are done: serialize_result and clear(),    *)
(* which keeps m_save_results, m_cr and m_final_cr.                        *)
(***************************************************************************)
\* Mutant: the last branch is not waited for.
JoinedButOne == m_thread_count <= 1

Joined == m_thread_count = 0

AfterRead == IF todo # {} THEN "read" ELSE IF IsZip THEN "zip" ELSE "upload"

\* Mutant: clear() clears the errors too, between two files of an archive.
CollectForgets ==
  /\ main = "collect" \/ (main = "join" /\ Joined)
  /\ result' = [status |-> IF m_err_msg # {} THEN "error" ELSE "success",
                files  |-> m_save_results, cr |-> m_cr, final |-> m_final_cr]
  /\ m_thread_count' = 0
  /\ m_err_msg' = {}
  /\ main' = AfterRead
  /\ UNCHANGED <<inbox, diskVars, job, fetched, left, todo, at, mesh,
                 m_save_results, m_cr, m_final_cr, uploadVars, history, faults>>

Collect ==
  /\ main = "collect" \/ (main = "join" /\ Joined)
  /\ result' = [status |-> IF m_err_msg # {} THEN "error" ELSE "success",
                files  |-> m_save_results, cr |-> m_cr, final |-> m_final_cr]
  /\ m_thread_count' = 0
  /\ main' = AfterRead
  /\ UNCHANGED <<inbox, diskVars, job, fetched, left, todo, at, mesh, m_err_msg,
                 m_save_results, m_cr, m_final_cr, uploadVars, history, faults>>

\* Whether an archive goes to the public bucket is told from needUpload.
ZipFile == [mesh |-> [job |-> job, part |-> None, kind |-> "zip"], at |-> <<None, 0>>,
            isPub |-> ~Setting("saveZip", "needUpload")]

Pack ==
  /\ main = "zip"
  /\ ZipFile.isPub => job \in PubKnown
  /\ result' = [result EXCEPT !.files = @ \cup {ZipFile}]
  /\ main'   = "upload"
  /\ UNCHANGED <<inbox, diskVars, job, fetched, left, todo, funcVars, uploadVars, history, faults>>

(***************************************************************************)
(* process() returns false: zip failed, the archive's bucket is unknown,   *)
(* or the result cannot be encoded.  No reply, nothing is cleaned up.      *)
(***************************************************************************)
GiveNoReply ==
  /\ main \in {"zip", "send"}
  /\ main'    = "idle"
  /\ job'     = None
  /\ fetched' = FALSE
  /\ left'    = FALSE
  /\ result'  = FreshResult
  /\ Forget
  /\ UNCHANGED <<inbox, diskVars, todo, funcVars, uploadVars, answered, lost, faults>>

-----------------------------------------------------------------------------
(***************************************************************************)
(*                              upload_files                               *)
(***************************************************************************)
StartUploads ==
  /\ main = "upload"
  /\ m_err_msg' = {}
  /\ b_upload'  = TRUE
  /\ posting'   = result.files
  /\ main'      = "post"
  /\ UNCHANGED <<inbox, diskVars, job, fetched, left, todo, result, at, mesh, m_thread_count,
                 m_save_results, m_cr, m_final_cr, flying, m_upcounts, history, faults>>

BucketKnown(f) == f.isPub => job \in PubKnown

\* Mutant: the upload is not counted.
PostUploadUncounted(f) ==
  /\ main = "post" /\ f \in posting /\ BucketKnown(f)
  /\ posting' = posting \ {f}
  /\ flying'  = flying \cup {[file |-> f, call |-> job, there |-> f.mesh.job \in save]}
  /\ UNCHANGED <<inbox, diskVars, mainVars, funcVars, m_upcounts, b_upload, history, faults>>

PostUpload(f) ==
  /\ main = "post" /\ f \in posting /\ BucketKnown(f)
  /\ posting' = posting \ {f}
  /\ flying'  = flying \cup {[file |-> f, call |-> job, there |-> f.mesh.job \in save]}
  /\ m_upcounts' = m_upcounts + 1
  /\ UNCHANGED <<inbox, diskVars, mainVars, funcVars, b_upload, history, faults>>

\* return false: what was posted goes on, and refers to a b_upload that is gone.
PostFails(f) ==
  /\ main = "post" /\ f \in posting /\ ~BucketKnown(f)
  /\ posting' = {}
  /\ result'  = Fail
  /\ main'    = "send"
  /\ b_upload' = TRUE
  /\ UNCHANGED <<inbox, diskVars, job, fetched, left, todo, funcVars, flying, m_upcounts,
                 history, faults>>

(***************************************************************************)
(* An upload ends; it can succeed only if its file was there.  It writes   *)
(* the b_upload of its call; when that call is over, the reference dangles *)
(* and may hit the b_upload of the next call, which is in the same place.  *)
(***************************************************************************)
UploadEnds(u, ok) ==
  /\ u \in flying
  /\ ok => u.there
  /\ flying' = flying \ {u}
  /\ m_upcounts' = m_upcounts - 1
  /\ \/ main = "post" /\ job = u.call
        /\ b_upload' = ok
        /\ ended' = ended \cup {[file |-> u.file, ok |-> ok]}
     \/ main = "post" /\ job # u.call
        /\ b_upload' \in {b_upload, ok}
        /\ UNCHANGED ended
     \/ main # "post" /\ UNCHANGED <<b_upload, ended>>
  /\ UNCHANGED <<inbox, diskVars, mainVars, funcVars, posting, failed, answered, lost, faults>>

\* Mutant: the wait ends when one upload is left.
UploadedButOne == m_upcounts <= 1

Uploaded == m_upcounts = 0

FinishUploads ==
  /\ main = "post" /\ posting = {} /\ Uploaded
  /\ result' = IF b_upload THEN result ELSE Fail
  /\ main'   = "send"
  /\ b_upload' = TRUE
  /\ UNCHANGED <<inbox, diskVars, job, fetched, left, todo, funcVars, posting, flying, m_upcounts,
                 history, faults>>

UploadTimeout ==
  /\ main = "post" /\ posting = {} /\ ~Uploaded
  /\ result' = Fail
  /\ main'   = "send"
  /\ b_upload' = TRUE
  /\ UNCHANGED <<inbox, diskVars, job, fetched, left, todo, funcVars, posting, flying, m_upcounts,
                 history, faults>>

(***************************************************************************)
(* The clean-up, and then the reply; a directory of a failed download      *)
(* stays.                                                                  *)
(***************************************************************************)
\* Mutant: the message file is deleted only after a success.
CleanUpKeeps ==
  /\ main = "send"
  /\ download' = IF fetched THEN download \ {job} ELSE download
  /\ save'     = save \ {job}
  /\ msgs'     = IF result.status = "success" THEN msgs \ {job} ELSE msgs
  /\ main'     = "reply"
  /\ UNCHANGED <<inbox, torn, job, fetched, left, todo, result, funcVars, uploadVars, history, faults>>

\* The three deletions: a death between them leaves what a death before them may leave.
CleanUp ==
  /\ main = "send"
  /\ download' = IF fetched THEN download \ {job} ELSE download
  /\ save'     = save \ {job}
  /\ msgs'     = msgs \ {job}
  /\ main'     = "reply"
  /\ UNCHANGED <<inbox, torn, job, fetched, left, todo, result, funcVars, uploadVars, history, faults>>

\* process() has returned: run_child sends the result to the parent.
Reply ==
  /\ main = "reply"
  /\ answered' = answered \cup {job}
  /\ main'     = "idle"
  /\ job'      = None
  /\ fetched'  = FALSE
  /\ left'     = FALSE
  /\ result'   = FreshResult
  /\ Forget
  /\ UNCHANGED <<inbox, diskVars, todo, funcVars, uploadVars, lost, faults>>

-----------------------------------------------------------------------------
(***************************************************************************)
(* The worker dies and a new one takes its slot: what was in memory is     *)
(* gone.  When the whole service starts again, the tasks whose messages    *)
(* are on disk are handed over once more; with a message that is torn it   *)
(* does not start (SharedDisk has that).                                   *)
(***************************************************************************)
Die(restart) ==
  /\ faults < MaxFaults
  /\ restart => torn = {}
  /\ faults' = faults + 1
  /\ lost'   = IF main \in {"taken", "store", "reply"} THEN lost \cup ({job} \ msgs) ELSE lost
  /\ inbox'  = IF restart THEN inbox \cup msgs ELSE inbox
  /\ main' = "idle" /\ job' = None /\ fetched' = FALSE /\ left' = FALSE /\ todo' = {} /\ result' = FreshResult
  /\ at' = [b \in Branches |-> 0] /\ mesh' = [b \in Branches |-> None]
  /\ m_thread_count' \in StartCounts
  /\ m_err_msg' = {} /\ m_save_results' = {} /\ m_cr' = None /\ m_final_cr' = None
  /\ posting' = {} /\ flying' = {} /\ m_upcounts' = 0 /\ b_upload' = TRUE
  /\ Forget
  /\ UNCHANGED <<diskVars, answered>>

MainStep ==
  \/ \E j \in Jobs : Take(j)
  \/ OpenMessage \/ CloseMessage
  \/ PrepareFails \/ Prepare \/ UnzipFails
  \/ \E P \in SUBSET (Parts \cup {None}) : Open(P)
  \/ \E p \in Parts \cup {None} : ReadFails(p) \/ \E k \in Kinds : ReadMesh(p, k)
  \/ Collect \/ Pack \/ GiveNoReply \/ StartUploads
  \/ \E f \in posting : PostUpload(f) \/ PostFails(f)
  \/ FinishUploads \/ UploadTimeout \/ CleanUp \/ Reply

Next == \/ MainStep
        \/ \E b \in Branches : BranchStep(b)
        \/ \E u \in flying, ok \in BOOLEAN : UploadEnds(u, ok)
        \/ \E restart \in BOOLEAN : Die(restart)

(***************************************************************************)
(* The threads are scheduled, and every system call of a step returns; an  *)
(* upload may hang, since the main thread gives it up after 500 seconds.   *)
(***************************************************************************)
Fairness == WF_vars(MainStep) /\ \A b \in Branches : WF_vars(BranchStep(b))

Spec     == Init /\ [][Next]_vars
FairSpec == Spec /\ Fairness
=============================================================================
