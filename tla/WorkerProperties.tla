-------------------------- MODULE WorkerProperties --------------------------
(***************************************************************************)
(* What a task's reply must say, and what must survive the worker.         *)
(***************************************************************************)
EXTENDS WorkerTask

\* Types.
TypeOK ==
  /\ inbox \subseteq Jobs /\ msgs \subseteq Jobs /\ torn \subseteq Jobs /\ download \subseteq Jobs /\ save \subseteq Jobs
  /\ main \in {"idle", "taken", "store", "prepare", "open", "read", "join", "collect", "zip",
               "upload", "post", "send", "reply"}
  /\ job \in Jobs \cup {None} /\ (main = "idle" <=> job = None) /\ fetched \in BOOLEAN /\ left \in BOOLEAN
  /\ todo \subseteq Parts \cup {None} /\ result \in Result
  /\ at \in [Branches -> Nat] /\ mesh \in [Branches -> Mesh \cup {None}]
  /\ m_thread_count \in Nat /\ m_err_msg \subseteq Jobs /\ m_save_results \subseteq File
  /\ m_cr \in Mesh \cup {None} /\ m_final_cr \in Mesh \cup {None}
  /\ posting \subseteq File /\ flying \subseteq Upload /\ m_upcounts \in Nat /\ b_upload \in BOOLEAN
  /\ ended \subseteq [file : File, ok : BOOLEAN] /\ failed \in BOOLEAN
  /\ answered \subseteq Jobs /\ lost \subseteq Jobs /\ faults \in 0..MaxFaults

Own(j, F) == {f \in F : f.mesh.job = j}

(***************************************************************************)
(* No file that a branch saved misses the result: process() serializes it  *)
(* only after the last branch of the last file has ended, whatever the     *)
(* order in which they end or fail (algorithm_functions.cpp:116-123).      *)
(***************************************************************************)
ResultComplete ==
  main \in {"zip", "upload", "post"} /\ todo = {} =>
    /\ \A b \in Branches : at[b] = 0
    /\ Own(job, m_save_results) \subseteq result.files

(***************************************************************************)
(* A task with a file that could not be read, or a step that failed, in    *)
(* any branch and any file of its archive, is not answered "success"       *)
(* (protocol.md:421).                                                      *)
(***************************************************************************)
FailureIsReported ==
  main = "send" /\ failed => result.status = "error"

(***************************************************************************)
(* A task is answered "success" only after the upload of each of its files *)
(* has ended, though uploads of an earlier task that gave up waiting still *)
(* count m_upcounts down (task_handle.cpp:276-294).                        *)
(***************************************************************************)
SuccessMeansTried ==
  main = "send" /\ result.status = "success" =>
    Own(job, result.files) \subseteq {u.file : u \in ended}

\* The task that the worker has and that is not on disk yet, or not any more.
InGap == IF main \in {"taken", "store", "reply"} THEN {job} ELSE {}

(***************************************************************************)
(* Until a task is answered it is in the inbox or whole on disk, and       *)
(* afterwards in neither, not even torn: a death anywhere loses no task    *)
(* and repeats none that was answered, except for two gaps: before its     *)
(* message is whole on disk (task_handle.cpp:84-90), and between the       *)
(* deletion of the message and the reply (task_handle.cpp:225,             *)
(* process_pool.h:472-474; protocol.md:430).                               *)
(***************************************************************************)
KeptUntilAnswered ==
  \A j \in Jobs :
    /\ j \in answered <=> j \notin inbox \cup msgs \cup InGap \cup lost
    /\ j \in answered => j \notin torn

(***************************************************************************)
(* process() returns, whatever fails and though uploads may hang, if the   *)
(* memory of m_thread_count happened to be 0.                              *)
(***************************************************************************)
JobEnds ==
  [](main = "idle" => m_thread_count = 0) => (main # "idle" ~> main = "idle")

(***************************************************************************)
(* "1、任务间相互不干扰" (docs/design.md:4: tasks do not interfere with     *)
(* each other): the result of a task speaks of its own files and meshes.   *)
(***************************************************************************)
OwnResult ==
  main = "send" =>
    /\ result.files = Own(job, result.files)
    /\ \A m \in {result.cr, result.final} \ {None} : m.job = job

(***************************************************************************)
(* "success 处理成功" (docs/protocol.md:169: processed with success): the   *)
(* files of a task answered "success" are in the object store.             *)
(***************************************************************************)
SuccessMeansStored ==
  main = "send" /\ result.status = "success" =>
    Own(job, result.files) \subseteq {u.file : u \in {v \in ended : v.ok}}

(***************************************************************************)
(* "任务执行细节参数优先顺序：消息》配置文件》默认值" (docs/design.md:5: the   *)
(* parameters of a task come from the message first, then from the         *)
(* configuration file): a saved file goes to the bucket asked for.         *)
(***************************************************************************)
FilesGoWhereAsked ==
  \A f \in m_save_results :
    f.isPub = Merged(Docs[f.mesh.job], Config, <<SaveOf[f.at[1]], "pubBucket">>)
=============================================================================
