--------------------------- MODULE DiskProperties ---------------------------
(***************************************************************************)
(* What tasks that share a disk promise each other.                        *)
(***************************************************************************)
EXTENDS SharedDisk

\* Types; whatever is on the disk is in a directory that is there (task_handle.cpp
\* 76-228).
DiskTypeOK ==
  /\ second \in 1..LastSecond  /\ dirs \subseteq Dir  /\ files \subseteq Content
  /\ \A f \in files : f.dir \in dirs
  /\ \A d \in dirs : Base(d.base) \in dirs
  /\ message \in [Tasks -> {"none", "torn", "whole"}]
  /\ tpc \in [Tasks -> {"new", "loaded", "store", "check", "walkSave", "makeSave", "name",
                        "makeDown", "fetch", "work", "upload", "cleanDown", "listSave",
                       "cleanSave", "forget", "reply", "done", "stopped", "silent"}]
  /\ \A t \in Tasks :
       /\ DOMAIN call[t] = DOMAIN Start
       /\ call[t].save \in Dir \union {NoDir}  /\ call[t].down \in Dir \union {NoDir}
       /\ call[t].file_path \in BOOLEAN  /\ call[t].need \in Seq(Dir)
       /\ call[t].todo \subseteq Content
       /\ call[t].status \in {"success", "create", "download", "upload"}
  /\ broken \in BOOLEAN  /\ bare \in BOOLEAN  /\ slots \in Slots  /\ dfaults \in Nat  /\ restarts \in Nat
  /\ place \in [Tasks -> {"none", "store", "reply", "other"}]
  /\ answered \subseteq Tasks  /\ hit \subseteq Tasks
  /\ users \subseteq [task : Tasks, run : Nat, dir : Dir]

Shared(d) == Cardinality({u \in users : u.dir = d}) > 1

Used(b) == Cardinality({u \in users : u.dir.base = b})

\* A task fails of its own download only, unless another task got the same method
\* in the same second, or the two made the common directories at the same time.
FailureIsOwn ==
  \A t \in Tasks :
    call[t].status # "success" =>
      \/ t \in hit  \/ Shared(call[t].save)  \/ Shared(call[t].down)
      \/ bare /\ call[t].status = "create" /\ Used("new_save") > 1
      \/ bare /\ call[t].status = "download" /\ Used("download") > 1

\* What the design document says, without the exception: violated.
Undisturbed == \A t \in Tasks : call[t].status # "success" => t \in hit

\* No directory is left behind, unless its task still works, was killed, could not
\* download (its directory is never deleted), or shared the name.
TrashHasCause ==
  \A d \in dirs :
    d.at # 0 =>
      \/ Shared(d)
      \/ \E u \in users : /\ u.dir = d
                          /\ u.task \in Running \/ place[u.task] # "none" \/ u.task \in hit

\* Unless a request is being written, its file is whole or it is not there; a task
\* that was stopped with the service and has no answer can be done again, unless it
\* was stopped while the file was written, or between its deletion and the answer.
LostInGapOnly ==
  \A t \in Tasks :
    tpc[t] = "stopped" /\ t \notin answered /\ message[t] # "whole" =>
      place[t] \in {"store", "reply"}

\* The parent cannot start only when a worker was killed while it wrote a request.
BrokenHasCause == broken => \E t \in Tasks : place[t] = "store" /\ message[t] = "torn"

\* A request survives the death of its worker and of the service, and nothing but a
\* file that was being written keeps the service from starting.
RequestsSurvive == LostInGapOnly /\ BrokenHasCause

\* A request on disk is answered, unless its worker or the service is killed, or
\* process returns false.
KeptIsAnswered ==
  \A t \in Tasks :
    message[t] = "whole" ~> t \in answered \/ tpc[t] \in {"stopped", "silent"} \/ broken
=============================================================================
