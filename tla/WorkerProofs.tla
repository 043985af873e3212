---------------------------- MODULE WorkerProofs ----------------------------
(***************************************************************************)
(* TLAPS proofs about one worker and its tasks, for any tasks, flows,      *)
(* archives, settings and number of crashes.                               *)
(***************************************************************************)
EXTENDS WorkerProperties, FiniteSetTheorems, TLAPS

Busy == {b \in Branches : at[b] # 0}

(***************************************************************************)
(* A task is with the worker, in the inbox or on disk, and its files and   *)
(* uploads are new to the worker when it is taken.  Its message is whole   *)
(* while the worker is between the two gaps, and torn only while it is     *)
(* written or after a death at that moment.                                *)
(***************************************************************************)
JobShape ==
  /\ KeptUntilAnswered
  /\ main \notin {"idle", "taken", "store", "reply"} => job \in msgs
  /\ main \in {"store", "reply"} => job \notin msgs
  /\ main # "idle" => job \notin inbox \cup lost
  /\ lost \cap (inbox \cup msgs) = {}
  /\ main = "store" => job \in torn
  /\ torn \subseteq lost \cup (IF main = "store" THEN {job} ELSE {})
  /\ \A f \in m_save_results : f.mesh.job \notin inbox
  /\ main \in {"taken", "store", "prepare", "open"} => Own(job, m_save_results) = {}
  /\ main \in {"zip", "upload", "post"} => Own(job, m_save_results) \subseteq result.files

(***************************************************************************)
(* Branches run only while the main thread waits for them; each has a mesh *)
(* of the task and is counted.  Memory that was not zero counts too much,  *)
(* never too little.                                                       *)
(***************************************************************************)
BranchShape ==
  /\ main # "join" => Busy = {}
  /\ Cardinality(Busy) <= m_thread_count
  /\ \A b \in Busy : mesh[b] \in Mesh /\ mesh[b].job = job

\* A failure is first in m_err_msg, then in the status of the result.
ErrorShape ==
  /\ failed /\ main \in {"read", "join", "collect"} => m_err_msg # {}
  /\ failed /\ main \in {"zip", "upload", "post", "send"} => result.status = "error"
  /\ main \in {"idle", "taken", "store", "prepare", "open"} => ~failed

CallOf(j) == {u \in flying : u.call = j}

Tried == {e.file : e \in ended}

(***************************************************************************)
(* m_upcounts is the number of uploads under way, those of earlier tasks   *)
(* included; a file of this task is to be posted, under way or has ended.  *)
(***************************************************************************)
UploadShape ==
  /\ IsFiniteSet(flying) /\ m_upcounts = Cardinality(flying)
  /\ \A u \in flying : u.call \notin inbox
  /\ main \notin {"post", "send", "reply"} => CallOf(job) = {}
  /\ main # "post" => posting = {}
  /\ \A u \in CallOf(job) : u.file \notin posting
  /\ main = "post" => result.files \subseteq posting \cup {u.file : u \in CallOf(job)} \cup Tried
  /\ main = "send" /\ result.status = "success" => Own(job, result.files) \subseteq Tried

WorkerInv == TypeOK /\ JobShape /\ BranchShape /\ ErrorShape /\ UploadShape

-----------------------------------------------------------------------------
\* The bucket of a file is told by a switch, which is true or false.
LEMMA SwitchesAreFields ==
  \A b \in Branches : <<SaveOf[b], "pubBucket">> \in Switches
<1> SUFFICES ASSUME NEW b \in Branches PROVE <<SaveOf[b], "pubBucket">> \in Switches
    OBVIOUS
<1> DEFINE op == SaveOf[b]
<1>1. op \in {"saveGlb", "saveStl", "savePly", "saveBeb", "save3mf", "saveObj"}
  BY WorkerAssumption
<1>2. op \in DOMAIN Keys /\ "pubBucket" \in Keys[op]
  BY <1>1 DEF Keys
<1>3. <<op, "pubBucket">> \in Fields
  BY <1>2 DEF Fields
<1>4. QED BY <1>3 DEF Switches

LEMMA BucketIsSwitch ==
  ASSUME TypeOK, job # None, NEW b \in Branches
  PROVE  ToPublic(b) \in BOOLEAN
<1> DEFINE f == <<SaveOf[b], "pubBucket">>
<1>1. f \in Switches /\ f \in Fields
  BY SwitchesAreFields DEF Switches
<1>2. job \in Jobs /\ left \in BOOLEAN
  BY DEF TypeOK
<1>3. Merged(Docs[job], Config, f) \in BOOLEAN
  BY <1>1, <1>2, WorkerAssumption DEF Merged
<1>4. StlPub(Docs[job], Config, left) \in BOOLEAN
  <2>1. CASE f = StlBucket
    BY <1>1, <1>2, <2>1, WorkerAssumption DEF StlPub
  <2>2. CASE f # StlBucket
    <3>1. StlBucket \in Switches
      BY DEF StlBucket, Switches, Fields, Keys
    <3>2. QED BY <1>2, <3>1, WorkerAssumption DEF StlPub
  <2>3. QED BY <2>1, <2>2
<1>5. ToPublic(b) = IF f = StlBucket THEN StlPub(Docs[job], Config, left) ELSE Merged(Docs[job], Config, f)
  BY <1>1 DEF ToPublic, Setting, Resolve
<1>6. QED BY <1>3, <1>4, <1>5

\* A file that a branch saves is one of its task's.
LEMMA SavedFiles ==
  ASSUME TypeOK, BranchShape, NEW b \in Busy
  PROVE  /\ main = "join" /\ job \in Jobs
         /\ \A f \in Saved(b) : f \in File /\ f.mesh.job = job
<1>1. main = "join" /\ job \in Jobs
  BY DEF TypeOK, BranchShape
<1>2. b \in Branches /\ at[b] \in Nat /\ mesh[b] \in Mesh /\ mesh[b].job = job
  BY DEF Busy, BranchShape, TypeOK
<1>3. ToPublic(b) \in BOOLEAN
  BY <1>1, <1>2, BucketIsSwitch, WorkerAssumption
<1>4. QED BY <1>1, <1>2, <1>3 DEF Saved, File

-----------------------------------------------------------------------------
USE DEF diskVars, mainVars, funcVars, uploadVars, history, vars

LEMMA WorkerInitial == Init => WorkerInv
<1> SUFFICES ASSUME Init PROVE WorkerInv
    OBVIOUS
<1>1. TypeOK
  <2>1. m_thread_count \in Nat /\ MaxFaults \in Nat
    BY WorkerAssumption DEF Init
  <2>2. FreshResult \in Result
    BY DEF FreshResult, Result
  <2>3. at \in [Branches -> Nat] /\ mesh \in [Branches -> Mesh \cup {None}]
    BY DEF Init
  <2>4. inbox \subseteq Jobs /\ faults \in 0..MaxFaults /\ (main = "idle" <=> job = None)
    BY <2>1 DEF Init
  <2>5. /\ msgs \subseteq Jobs /\ torn \subseteq Jobs /\ download \subseteq Jobs /\ save \subseteq Jobs
        /\ job \in Jobs \cup {None} /\ fetched \in BOOLEAN /\ left \in BOOLEAN
        /\ todo \subseteq Parts \cup {None} /\ result \in Result
    BY <2>2 DEF Init
  <2>6. /\ m_err_msg \subseteq Jobs /\ m_save_results \subseteq File
        /\ m_cr \in Mesh \cup {None} /\ m_final_cr \in Mesh \cup {None}
    BY DEF Init
  <2>7. /\ posting \subseteq File /\ flying \subseteq Upload /\ m_upcounts \in Nat /\ b_upload \in BOOLEAN
    BY DEF Init
  <2>8. ended \subseteq [file : File, ok : BOOLEAN] /\ failed \in BOOLEAN /\ answered \subseteq Jobs /\ lost \subseteq Jobs
    BY DEF Init
  <2>9. QED BY <2>1, <2>3, <2>4, <2>5, <2>6, <2>7, <2>8 DEF Init, TypeOK
<1>2. Busy = {} /\ Cardinality(Busy) = 0 /\ IsFiniteSet(flying) /\ Cardinality(flying) = 0
  BY FS_EmptySet DEF Init, Busy
<1>3. JobShape
  BY DEF Init, JobShape, KeptUntilAnswered, InGap, Own
<1>4. BranchShape
  BY <1>1, <1>2 DEF Init, BranchShape, TypeOK
<1>5. ErrorShape
  BY DEF Init, ErrorShape
<1>6. UploadShape
  BY <1>2 DEF Init, UploadShape, CallOf
<1>7. QED BY <1>1, <1>3, <1>4, <1>5, <1>6 DEF WorkerInv

(***************************************************************************)
(* The types are kept.  The counters stay natural numbers because they are *)
(* at least the number of branches and of uploads that count them down.    *)
(***************************************************************************)
LEMMA TypeStep == TypeOK /\ BranchShape /\ UploadShape /\ [Next]_vars => TypeOK'
<1> SUFFICES ASSUME TypeOK, BranchShape, UploadShape, [Next]_vars PROVE TypeOK'
    OBVIOUS
<1>0. Fail \in Result /\ FreshResult \in Result
  BY DEF Fail, FreshResult, Result, TypeOK
<1>1. ASSUME NEW j \in Jobs, Take(j) PROVE TypeOK'
  BY <1>0, <1>1, WorkerAssumption DEF TypeOK, Take
<1>2. CASE PrepareFails
  BY <1>0, <1>2 DEF TypeOK, PrepareFails
<1>3. CASE Prepare
  BY <1>3 DEF TypeOK, Prepare
<1>4. CASE UnzipFails
  BY <1>0, <1>4 DEF TypeOK, UnzipFails
<1>5. ASSUME NEW P \in SUBSET (Parts \cup {None}), Open(P) PROVE TypeOK'
  BY <1>5 DEF TypeOK, Open
<1>6. ASSUME NEW p \in Parts \cup {None}, ReadFails(p) PROVE TypeOK'
  BY <1>6 DEF TypeOK, ReadFails
<1>7. ASSUME NEW p \in Parts \cup {None}, NEW k \in Kinds, ReadMesh(p, k) PROVE TypeOK'
  <2> DEFINE posted == {b \in Branches : Flow[job][b] # << >>}
  <2>1. Cardinality(posted) \in Nat
    BY WorkerAssumption, FS_Subset, FS_CardinalityType
  <2>2. m_thread_count' \in Nat
    BY <1>7, <2>1 DEF TypeOK, ReadMesh
  <2>3. [job |-> job, part |-> p, kind |-> k] \in Mesh
    BY <1>7, WorkerAssumption DEF TypeOK, ReadMesh, Mesh
  <2>4. at' \in [Branches -> Nat] /\ mesh' \in [Branches -> Mesh \cup {None}]
    BY <1>7, <2>3 DEF ReadMesh
  <2>5. QED BY <1>7, <2>2, <2>4 DEF TypeOK, ReadMesh
<1>8. CASE Collect
  BY <1>8 DEF TypeOK, Collect, AfterRead, Result
<1>9. CASE Pack
  <2>1. ZipFile \in File
    BY <1>9, WorkerAssumption DEF TypeOK, Pack, ZipFile, File, Mesh
  <2>2. result' \in Result
    BY <1>9, <2>1 DEF TypeOK, Pack, Result
  <2>3. QED BY <1>9, <2>2 DEF TypeOK, Pack
<1>10. CASE GiveNoReply
  BY <1>0, <1>10 DEF TypeOK, GiveNoReply, Forget
<1>11. CASE StartUploads
  BY <1>11 DEF TypeOK, StartUploads, Result
<1>12. ASSUME NEW f \in posting, PostUpload(f) PROVE TypeOK'
  <2>1. [file |-> f, call |-> job, there |-> f.mesh.job \in save] \in Upload
    BY <1>12 DEF TypeOK, PostUpload, Upload
  <2>2. QED BY <1>12, <2>1 DEF TypeOK, PostUpload
<1>13. ASSUME NEW f \in posting, PostFails(f) PROVE TypeOK'
  BY <1>0, <1>13 DEF TypeOK, PostFails
<1>14. CASE FinishUploads
  BY <1>0, <1>14 DEF TypeOK, FinishUploads
<1>15. CASE UploadTimeout
  BY <1>0, <1>15 DEF TypeOK, UploadTimeout
<1>16. CASE OpenMessage \/ CloseMessage \/ CleanUp
  BY <1>16 DEF TypeOK, OpenMessage, CloseMessage, CleanUp
<1>17. CASE Reply
  BY <1>0, <1>17 DEF TypeOK, Reply, Forget
<1>18. ASSUME NEW b \in Branches, BranchStep(b) PROVE TypeOK'
  <2>1. b \in Busy /\ mesh[b] \in Mesh /\ at[b] \in Nat /\ main = "join" /\ job \in Jobs
    BY <1>18 DEF BranchStep, Busy, BranchShape, TypeOK
  <2>2. m_thread_count - 1 \in Nat
    <3>1. IsFiniteSet(Busy)
      BY WorkerAssumption, FS_Subset DEF Busy
    <3>2. Cardinality(Busy) \in Nat \ {0}
      BY <2>1, <3>1, FS_EmptySet, FS_CardinalityType
    <3>3. QED BY <3>2 DEF BranchShape, TypeOK
  <2>3. Saved(b) \subseteq File /\ SavedBefore(b) \subseteq File
    BY <2>1, SavedFiles DEF SavedBefore
  <2>4. Describes(mesh[b]) \in Mesh
    BY <2>1 DEF Describes, Mesh
  <2>5. Advance(b) => at' \in [Branches -> Nat]
    BY <2>1 DEF Advance, TypeOK
  <2>6. Leave(b) => at' \in [Branches -> Nat] /\ mesh' \in [Branches -> Mesh \cup {None}]
    BY DEF Leave, TypeOK
  <2>7. CASE Compute(b)
    BY <1>18, <2>1, <2>5, <2>7 DEF TypeOK, BranchStep, Compute
  <2>8. CASE Repair(b)
    BY <1>18, <2>4, <2>5, <2>8 DEF TypeOK, BranchStep, Repair
  <2>9. CASE Plain(b)
    BY <1>18, <2>5, <2>9 DEF TypeOK, BranchStep, Plain
  <2>10. CASE Save(b)
    BY <1>18, <2>3, <2>5, <2>10 DEF TypeOK, BranchStep, Save
  <2>11. CASE SaveFails(b)
    BY <1>18, <2>1, <2>2, <2>3, <2>6, <2>11 DEF TypeOK, BranchStep, SaveFails
  <2>12. CASE BranchEnds(b)
    BY <1>18, <2>2, <2>6, <2>12 DEF TypeOK, BranchStep, BranchEnds
  <2>13. QED BY <1>18, <2>7, <2>8, <2>9, <2>10, <2>11, <2>12 DEF BranchStep
<1>19. ASSUME NEW u \in flying, NEW ok \in BOOLEAN, UploadEnds(u, ok) PROVE TypeOK'
  <2>1. u \in Upload /\ [file |-> u.file, ok |-> ok] \in [file : File, ok : BOOLEAN]
    BY DEF TypeOK, Upload
  <2>2. m_upcounts - 1 \in Nat
    <3>1. Cardinality(flying) \in Nat \ {0}
      BY FS_EmptySet, FS_CardinalityType DEF UploadShape
    <3>2. QED BY <3>1 DEF UploadShape
  <2>3. QED BY <1>19, <2>1, <2>2 DEF TypeOK, UploadEnds
<1>20. ASSUME NEW restart \in BOOLEAN, Die(restart) PROVE TypeOK'
  <2>1. m_thread_count' \in Nat /\ MaxFaults \in Nat
    BY <1>20, WorkerAssumption DEF Die
  <2>2. at' \in [Branches -> Nat] /\ mesh' \in [Branches -> Mesh \cup {None}]
    BY <1>20 DEF Die
  <2>3. inbox' \subseteq Jobs /\ faults' \in 0..MaxFaults
    BY <1>20, <2>1 DEF Die, TypeOK
  <2>4. QED BY <1>0, <1>20, <2>1, <2>2, <2>3 DEF TypeOK, Die, Forget
<1>21. CASE UNCHANGED vars
  BY <1>21 DEF TypeOK
<1>22. QED
  BY <1>1, <1>2, <1>3, <1>4, <1>5, <1>6, <1>7, <1>8, <1>9, <1>10, <1>11, <1>12, <1>13,
     <1>14, <1>15, <1>16, <1>17, <1>18, <1>19, <1>20, <1>21 DEF Next, MainStep

(***************************************************************************)
(* A task has one place, and its files are in its result.                  *)
(***************************************************************************)
LEMMA JobStep == TypeOK /\ JobShape /\ BranchShape /\ [Next]_vars => JobShape'
<1> SUFFICES ASSUME TypeOK, JobShape, BranchShape, [Next]_vars PROVE JobShape'
    OBVIOUS
<1> USE DEF JobShape, KeptUntilAnswered, InGap, Own
<1>1. ASSUME NEW j \in Jobs, Take(j) PROVE JobShape'
  BY <1>1 DEF Take
<1>2. CASE PrepareFails
  BY <1>2 DEF PrepareFails
<1>3. CASE Prepare
  BY <1>3 DEF Prepare
<1>4. CASE UnzipFails
  BY <1>4 DEF UnzipFails
<1>5. ASSUME NEW P \in SUBSET (Parts \cup {None}), Open(P) PROVE JobShape'
  BY <1>5 DEF Open
<1>6. ASSUME NEW p \in Parts \cup {None}, ReadFails(p) PROVE JobShape'
  BY <1>6 DEF ReadFails
<1>7. ASSUME NEW p \in Parts \cup {None}, NEW k \in Kinds, ReadMesh(p, k) PROVE JobShape'
  BY <1>7 DEF ReadMesh
<1>8. CASE Collect
  BY <1>8 DEF Collect, AfterRead
<1>9. CASE Pack
  <2>1. result'.files = result.files \cup {ZipFile}
    BY <1>9 DEF Pack, TypeOK, Result
  <2>2. QED BY <1>9, <2>1 DEF Pack
<1>10. CASE GiveNoReply
  BY <1>10 DEF GiveNoReply, Forget
<1>11. CASE StartUploads
  BY <1>11 DEF StartUploads
<1>12. ASSUME NEW f \in posting, PostUpload(f) PROVE JobShape'
  BY <1>12 DEF PostUpload
<1>13. ASSUME NEW f \in posting, PostFails(f) PROVE JobShape'
  BY <1>13 DEF PostFails
<1>14. CASE FinishUploads
  BY <1>14 DEF FinishUploads
<1>15. CASE UploadTimeout
  BY <1>15 DEF UploadTimeout
<1>16. CASE OpenMessage \/ CloseMessage
  BY <1>16 DEF OpenMessage, CloseMessage
<1>17. CASE CleanUp \/ Reply
  BY <1>17 DEF CleanUp, Reply, Forget, TypeOK
<1>18. ASSUME NEW b \in Branches, BranchStep(b) PROVE JobShape'
  <2>1. b \in Busy /\ main = "join"
    BY <1>18 DEF BranchStep, Busy, BranchShape
  <2>2. \A f \in Saved(b) : f.mesh.job = job
    BY <2>1, SavedFiles
  <2>3. \A f \in m_save_results' : f \in m_save_results \/ f.mesh.job = job
    <3>1. m_save_results' \subseteq m_save_results \cup Saved(b)
      BY <1>18 DEF BranchStep, Compute, Repair, Plain, Save, SaveFails, SavedBefore, BranchEnds
    <3>2. QED BY <2>2, <3>1
  <2>4. QED BY <1>18, <2>1, <2>3 DEF BranchStep
<1>19. ASSUME NEW u \in flying, NEW ok \in BOOLEAN, UploadEnds(u, ok) PROVE JobShape'
  BY <1>19 DEF UploadEnds
<1>20. ASSUME NEW restart \in BOOLEAN, Die(restart) PROVE JobShape'
  BY <1>20 DEF Die, Forget
<1>21. CASE UNCHANGED vars
  BY <1>21
<1>22. QED
  BY <1>1, <1>2, <1>3, <1>4, <1>5, <1>6, <1>7, <1>8, <1>9, <1>10, <1>11, <1>12, <1>13,
     <1>14, <1>15, <1>16, <1>17, <1>18, <1>19, <1>20, <1>21 DEF Next, MainStep

(***************************************************************************)
(* The branches are counted.                                               *)
(***************************************************************************)
LEMMA Fewer ==
  ASSUME NEW b \in Busy, Leave(b), at \in [Branches -> Nat], mesh \in [Branches -> Mesh \cup {None}]
  PROVE  /\ Busy' = Busy \ {b}
         /\ Cardinality(Busy') = Cardinality(Busy) - 1
         /\ \A c \in Busy' : mesh'[c] = mesh[c]
<1>1. IsFiniteSet(Busy)
  BY WorkerAssumption, FS_Subset DEF Busy
<1>2. Busy' = Busy \ {b}
  BY DEF Leave, Busy
<1>3. \A c \in Busy' : mesh'[c] = mesh[c]
  BY <1>2 DEF Leave, Busy
<1>4. QED BY <1>1, <1>2, <1>3, FS_RemoveElement

LEMMA BranchShapeStep == TypeOK /\ BranchShape /\ [Next]_vars => BranchShape'
<1> SUFFICES ASSUME TypeOK, BranchShape, [Next]_vars PROVE BranchShape'
    OBVIOUS
<1>0. IsFiniteSet(Branches) /\ Cardinality({}) = 0 /\ StartCounts \subseteq Nat
  BY WorkerAssumption, FS_EmptySet
<1>1. ASSUME main # "join", main' # "join", UNCHANGED at, m_thread_count' \in Nat PROVE BranchShape'
  <2>1. Busy = {} /\ Busy' = {}
    BY <1>1 DEF BranchShape, Busy
  <2>2. QED BY <1>0, <1>1, <2>1 DEF BranchShape
<1>2. ASSUME UNCHANGED <<main, job, at, mesh, m_thread_count>> PROVE BranchShape'
  BY <1>2 DEF BranchShape, Busy
<1>3. ASSUME NEW j \in Jobs, Take(j) PROVE BranchShape'
  BY <1>1, <1>3 DEF Take, TypeOK
<1>4. CASE OpenMessage \/ CloseMessage \/ PrepareFails \/ Prepare \/ UnzipFails
  BY <1>1, <1>4 DEF OpenMessage, CloseMessage, PrepareFails, Prepare, UnzipFails, TypeOK
<1>5. ASSUME NEW P \in SUBSET (Parts \cup {None}), Open(P) PROVE BranchShape'
  BY <1>1, <1>5 DEF Open, TypeOK
<1>6. ASSUME NEW p \in Parts \cup {None}, ReadFails(p) PROVE BranchShape'
  BY <1>1, <1>6 DEF ReadFails, TypeOK
<1>7. ASSUME NEW p \in Parts \cup {None}, NEW k \in Kinds, ReadMesh(p, k) PROVE BranchShape'
  <2> DEFINE posted == {b \in Branches : Flow[job][b] # << >>}
             m == [job |-> job, part |-> p, kind |-> k]
  <2>1. Busy' = posted /\ main' = "join" /\ job' = job
    BY <1>7 DEF ReadMesh, Busy
  <2>2. m_thread_count' = m_thread_count + Cardinality(posted)
    BY <1>7 DEF ReadMesh
  <2>3. m_thread_count \in Nat /\ Cardinality(posted) \in Nat
    BY <1>0, FS_Subset, FS_CardinalityType DEF TypeOK
  <2>4. Cardinality(Busy') <= m_thread_count'
    BY <2>1, <2>2, <2>3
  <2>5. m \in Mesh /\ m.job = job
    BY <1>7, WorkerAssumption DEF ReadMesh, Mesh, TypeOK
  <2>6. \A b \in posted : mesh'[b] = m
    BY <1>7 DEF ReadMesh
  <2>7. QED BY <2>1, <2>4, <2>5, <2>6 DEF BranchShape
<1>8. CASE Collect
  <2>1. Busy = {}
    <3>1. CASE main = "collect"
      BY <3>1 DEF BranchShape
    <3>2. CASE main = "join" /\ m_thread_count = 0
      <4>1. IsFiniteSet(Busy) /\ Cardinality(Busy) \in Nat
        BY <1>0, FS_Subset, FS_CardinalityType DEF Busy
      <4>2. Cardinality(Busy) = 0
        BY <3>2, <4>1 DEF BranchShape
      <4>3. QED BY <4>1, <4>2, FS_EmptySet
    <3>3. QED BY <1>8, <3>1, <3>2 DEF Collect, Joined
  <2>2. Busy' = {} /\ m_thread_count' = 0
    BY <1>8, <2>1 DEF Collect, Busy
  <2>3. QED BY <1>0, <2>2 DEF BranchShape
<1>9. CASE Pack \/ GiveNoReply \/ StartUploads
  BY <1>1, <1>9 DEF Pack, GiveNoReply, StartUploads, TypeOK
<1>10. ASSUME NEW f \in posting, PostUpload(f) \/ PostFails(f) PROVE BranchShape'
  BY <1>1, <1>10 DEF PostUpload, PostFails, TypeOK
<1>11. CASE FinishUploads \/ UploadTimeout \/ CleanUp \/ Reply
  BY <1>1, <1>11 DEF FinishUploads, UploadTimeout, CleanUp, Reply, TypeOK
<1>12. ASSUME NEW b \in Branches, BranchStep(b) PROVE BranchShape'
  <2>1. b \in Busy /\ main = "join" /\ UNCHANGED <<main, job>>
    BY <1>12 DEF BranchStep, Busy, BranchShape
  <2>2. CASE Advance(b) /\ UNCHANGED <<mesh, m_thread_count>>
    <3>1. Busy' = Busy
      BY <2>1, <2>2 DEF Advance, Busy, TypeOK
    <3>2. QED BY <2>1, <2>2, <3>1 DEF BranchShape
  <2>3. CASE Leave(b) /\ m_thread_count' = m_thread_count - 1
    <3>1. /\ Busy' = Busy \ {b} /\ Cardinality(Busy') = Cardinality(Busy) - 1
          /\ \A c \in Busy' : mesh'[c] = mesh[c]
      BY <2>1, <2>3, Fewer DEF TypeOK
    <3>2. Cardinality(Busy) \in Nat /\ m_thread_count \in Nat
      BY <1>0, FS_Subset, FS_CardinalityType DEF Busy, TypeOK
    <3>3. Cardinality(Busy') <= m_thread_count'
      BY <2>3, <3>1, <3>2 DEF BranchShape
    <3>4. QED BY <2>1, <3>1, <3>3 DEF BranchShape
  <2>4. QED
    BY <1>12, <2>2, <2>3 DEF BranchStep, Compute, Repair, Plain, Save, SaveFails, BranchEnds
<1>13. ASSUME NEW u \in flying, NEW ok \in BOOLEAN, UploadEnds(u, ok) PROVE BranchShape'
  BY <1>2, <1>13 DEF UploadEnds
<1>14. ASSUME NEW restart \in BOOLEAN, Die(restart) PROVE BranchShape'
  <2>1. Busy' = {} /\ m_thread_count' \in Nat
    BY <1>0, <1>14 DEF Die, Busy
  <2>2. QED BY <1>0, <2>1 DEF BranchShape
<1>15. CASE UNCHANGED vars
  BY <1>2, <1>15
<1>16. QED
  BY <1>3, <1>4, <1>5, <1>6, <1>7, <1>8, <1>9, <1>10, <1>11, <1>12, <1>13, <1>14, <1>15
     DEF Next, MainStep

(***************************************************************************)
(* A failure is not forgotten before the reply.                            *)
(***************************************************************************)
LEMMA ErrorStep == TypeOK /\ BranchShape /\ ErrorShape /\ [Next]_vars => ErrorShape'
<1> SUFFICES ASSUME TypeOK, BranchShape, ErrorShape, [Next]_vars PROVE ErrorShape'
    OBVIOUS
<1> USE DEF ErrorShape
<1>0. Fail.status = "error"
  BY DEF Fail, TypeOK, Result
<1>1. ASSUME NEW j \in Jobs, Take(j) PROVE ErrorShape'
  BY <1>1 DEF Take
<1>2. CASE OpenMessage \/ CloseMessage \/ PrepareFails \/ Prepare \/ UnzipFails
  BY <1>0, <1>2 DEF OpenMessage, CloseMessage, PrepareFails, Prepare, UnzipFails
<1>3. ASSUME NEW P \in SUBSET (Parts \cup {None}), Open(P) PROVE ErrorShape'
  BY <1>3 DEF Open
<1>4. ASSUME NEW p \in Parts \cup {None}, ReadFails(p) PROVE ErrorShape'
  BY <1>4 DEF ReadFails
<1>5. ASSUME NEW p \in Parts \cup {None}, NEW k \in Kinds, ReadMesh(p, k) PROVE ErrorShape'
  BY <1>5 DEF ReadMesh
<1>6. CASE Collect
  <2>1. result'.status = IF m_err_msg # {} THEN "error" ELSE "success"
    BY <1>6 DEF Collect
  <2>2. QED BY <1>6, <2>1 DEF Collect, AfterRead
<1>7. CASE Pack
  <2>1. result'.status = result.status
    BY <1>7 DEF Pack, TypeOK, Result
  <2>2. QED BY <1>7, <2>1 DEF Pack
<1>8. CASE GiveNoReply \/ StartUploads \/ CleanUp \/ Reply
  BY <1>8 DEF GiveNoReply, StartUploads, CleanUp, Reply, Forget
<1>9. ASSUME NEW f \in posting, PostUpload(f) \/ PostFails(f) PROVE ErrorShape'
  BY <1>0, <1>9 DEF PostUpload, PostFails
<1>10. CASE FinishUploads \/ UploadTimeout
  BY <1>0, <1>10 DEF FinishUploads, UploadTimeout
<1>11. ASSUME NEW b \in Branches, BranchStep(b) PROVE ErrorShape'
  <2>1. main = "join" /\ main' = "join"
    BY <1>11 DEF BranchStep, Busy, BranchShape
  <2>2. failed' => m_err_msg' # {}
    BY <1>11, <2>1 DEF BranchStep, Compute, Repair, Plain, Save, SaveFails, BranchEnds
  <2>3. QED BY <2>1, <2>2
<1>12. ASSUME NEW u \in flying, NEW ok \in BOOLEAN, UploadEnds(u, ok) PROVE ErrorShape'
  BY <1>12 DEF UploadEnds
<1>13. ASSUME NEW restart \in BOOLEAN, Die(restart) PROVE ErrorShape'
  BY <1>13 DEF Die, Forget
<1>14. CASE UNCHANGED vars
  BY <1>14
<1>15. QED
  BY <1>1, <1>2, <1>3, <1>4, <1>5, <1>6, <1>7, <1>8, <1>9, <1>10, <1>11, <1>12, <1>13, <1>14
     DEF Next, MainStep

(***************************************************************************)
(* The uploads are counted, and none of this task's is forgotten.          *)
(***************************************************************************)
LEMMA UploadStep ==
  TypeOK /\ JobShape /\ BranchShape /\ UploadShape /\ [Next]_vars => UploadShape'
<1> SUFFICES ASSUME TypeOK, JobShape, BranchShape, UploadShape, [Next]_vars PROVE UploadShape'
    OBVIOUS
<1> USE DEF UploadShape, CallOf, Tried
<1>0. Fail.status = "error"
  BY DEF Fail, TypeOK, Result
<1>1. ASSUME NEW j \in Jobs, Take(j) PROVE UploadShape'
  BY <1>1 DEF Take
<1>2. CASE OpenMessage \/ CloseMessage \/ PrepareFails \/ Prepare \/ UnzipFails
  BY <1>0, <1>2 DEF OpenMessage, CloseMessage, PrepareFails, Prepare, UnzipFails
<1>3. ASSUME NEW P \in SUBSET (Parts \cup {None}), Open(P) PROVE UploadShape'
  BY <1>3 DEF Open
<1>4. ASSUME NEW p \in Parts \cup {None}, ReadFails(p) PROVE UploadShape'
  BY <1>4 DEF ReadFails
<1>5. ASSUME NEW p \in Parts \cup {None}, NEW k \in Kinds, ReadMesh(p, k) PROVE UploadShape'
  BY <1>5 DEF ReadMesh
<1>6. CASE Collect
  BY <1>6 DEF Collect, AfterRead
<1>7. CASE Pack
  BY <1>7 DEF Pack
<1>8. CASE GiveNoReply \/ Reply
  <2>1. UNCHANGED <<inbox, flying, m_upcounts, posting>> /\ main' = "idle" /\ job' = None
    BY <1>8 DEF GiveNoReply, Reply
  <2>2. \A u \in flying : u.call # None
    BY WorkerAssumption DEF TypeOK, Upload
  <2>3. CallOf(job)' = {} /\ posting = {}
    BY <1>8, <2>1, <2>2 DEF GiveNoReply, Reply
  <2>4. QED BY <2>1, <2>3
<1>9. CASE StartUploads
  <2>1. CallOf(job)' = {} /\ posting' = result'.files /\ main' = "post"
    BY <1>9 DEF StartUploads
  <2>2. QED BY <1>9, <2>1 DEF StartUploads
<1>10. ASSUME NEW f \in posting, PostUpload(f) PROVE UploadShape'
  <2> DEFINE new == [file |-> f, call |-> job, there |-> f.mesh.job \in save]
  <2>1. new \notin flying
    BY <1>10 DEF PostUpload
  <2>2. flying' = flying \cup {new} /\ IsFiniteSet(flying') /\ Cardinality(flying') = Cardinality(flying) + 1
    BY <1>10, <2>1, FS_AddElement DEF PostUpload
  <2>3. m_upcounts' = Cardinality(flying')
    BY <1>10, <2>2 DEF PostUpload
  <2>4. main = "post" /\ posting' = posting \ {f} /\ UNCHANGED <<inbox, main, job, result, ended>>
    BY <1>10 DEF PostUpload
  <2>5. job \notin inbox
    BY <2>4 DEF JobShape
  <2>6. CallOf(job)' = CallOf(job) \cup {new}
    BY <2>2, <2>4
  <2>7. result.files \subseteq posting' \cup {u.file : u \in CallOf(job)'} \cup Tried
    <3>1. new.file = f
      OBVIOUS
    <3>2. {u.file : u \in CallOf(job)'} = {u.file : u \in CallOf(job)} \cup {f}
      <4> HIDE DEF new, CallOf
      <4> QED BY <2>6, <3>1
    <3>3. result.files \subseteq posting \cup {u.file : u \in CallOf(job)} \cup Tried
      BY <2>4
    <3>4. QED BY <2>4, <3>2, <3>3
  <2>8. QED BY <2>2, <2>3, <2>4, <2>5, <2>6, <2>7
<1>11. ASSUME NEW f \in posting, PostFails(f) PROVE UploadShape'
  BY <1>0, <1>11 DEF PostFails
<1>12. CASE FinishUploads
  <2>1. flying = {}
    <3>1. Cardinality(flying) = 0
      BY <1>12 DEF FinishUploads, Uploaded
    <3>2. QED BY <3>1, FS_EmptySet
  <2>2. result.files \subseteq Tried
    BY <1>12, <2>1 DEF FinishUploads
  <2>3. result' = result \/ result'.status = "error"
    BY <1>0, <1>12 DEF FinishUploads
  <2>4. QED BY <1>12, <2>1, <2>2, <2>3 DEF FinishUploads, Own
<1>13. CASE UploadTimeout
  BY <1>0, <1>13 DEF UploadTimeout
<1>14. ASSUME NEW b \in Branches, BranchStep(b) PROVE UploadShape'
  <2>1. main = "join"
    BY <1>14 DEF BranchStep, Busy, BranchShape
  <2>2. QED BY <1>14, <2>1 DEF BranchStep
<1>15. ASSUME NEW u \in flying, NEW ok \in BOOLEAN, UploadEnds(u, ok) PROVE UploadShape'
  <2>1. flying' = flying \ {u} /\ UNCHANGED <<inbox, main, job, result, posting>>
    BY <1>15 DEF UploadEnds
  <2>2. IsFiniteSet(flying') /\ m_upcounts' = Cardinality(flying')
    BY <1>15, <2>1, FS_RemoveElement DEF UploadEnds
  <2>3. CallOf(job)' = CallOf(job) \ {u}
    BY <2>1
  <2>4. Tried \subseteq Tried'
    BY <1>15 DEF UploadEnds
  <2>5. ASSUME main = "post", job = u.call PROVE u.file \in Tried'
    <3>1. [file |-> u.file, ok |-> ok] \in ended'
      BY <1>15, <2>5 DEF UploadEnds
    <3>2. QED BY <3>1
  <2>6. main = "post" => result.files \subseteq posting \cup {v.file : v \in CallOf(job)'} \cup Tried'
    BY <2>3, <2>4, <2>5
  <2>7. main = "send" /\ result.status = "success" => Own(job, result.files) \subseteq Tried'
    BY <2>4
  <2>8. QED BY <2>1, <2>2, <2>3, <2>6, <2>7 DEF Own
<1>16. ASSUME NEW restart \in BOOLEAN, Die(restart) PROVE UploadShape'
  BY <1>16, FS_EmptySet DEF Die, Forget
<1>17. CASE CleanUp
  BY <1>17 DEF CleanUp
<1>18. CASE UNCHANGED vars
  BY <1>18 DEF Own
<1>19. QED
  BY <1>1, <1>2, <1>3, <1>4, <1>5, <1>6, <1>7, <1>8, <1>9, <1>10, <1>11, <1>12, <1>13, <1>14,
     <1>15, <1>16, <1>17, <1>18 DEF Next, MainStep

-----------------------------------------------------------------------------
(***************************************************************************)
(* The inductive invariant holds in every reachable state: a task has one  *)
(* place, branches and uploads are counted, failures are remembered.       *)
(***************************************************************************)
THEOREM WorkerInvariance == Spec => []WorkerInv
<1>1. WorkerInv /\ [Next]_vars => WorkerInv'
  BY TypeStep, JobStep, BranchShapeStep, ErrorStep, UploadStep DEF WorkerInv
<1>2. QED BY WorkerInitial, <1>1, PTL DEF Spec

\* The types hold for any tasks, flows and faults; both counters stay at or above 0.
THEOREM WorkerTypeCorrect == Spec => []TypeOK
<1>1. WorkerInv => TypeOK
  BY DEF WorkerInv
<1>2. QED BY WorkerInvariance, <1>1, PTL

\* The result is taken from the branches only when the last of them has ended.
THEOREM ResultsAreComplete == Spec => []ResultComplete
<1>1. WorkerInv => ResultComplete
  BY DEF WorkerInv, JobShape, BranchShape, Busy, ResultComplete
<1>2. QED BY WorkerInvariance, <1>1, PTL

\* A failed step of any branch, in any file of an archive, is in the reply.
THEOREM FailuresAreReported == Spec => []FailureIsReported
<1>1. WorkerInv => FailureIsReported
  BY DEF WorkerInv, ErrorShape, FailureIsReported
<1>2. QED BY WorkerInvariance, <1>1, PTL

\* "success" is said only when the upload of every file of the task has ended.
THEOREM SuccessesWereTried == Spec => []SuccessMeansTried
<1>1. WorkerInv => SuccessMeansTried
  BY DEF WorkerInv, UploadShape, Tried, SuccessMeansTried
<1>2. QED BY WorkerInvariance, <1>1, PTL

\* A task is in the inbox or whole on disk exactly until it is answered, except in the
\* two gaps around the life of its message file; a death loses it only there.
THEOREM TasksAreKept == Spec => []KeptUntilAnswered
<1>1. WorkerInv => KeptUntilAnswered
  BY DEF WorkerInv, JobShape
<1>2. QED BY WorkerInvariance, <1>1, PTL
=============================================================================
