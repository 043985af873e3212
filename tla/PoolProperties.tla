--------------------------- MODULE PoolProperties ---------------------------
(***************************************************************************)
(* What the process pool must and must not do.                             *)
(***************************************************************************)
EXTENDS ProcessPool

InSeq(s) == {s[i] : i \in DOMAIN s}

(***************************************************************************)
(* The tasks slot w answers for: not yet read by its worker, being         *)
(* processed, or answered in a reply that the parent has not read.         *)
(***************************************************************************)
Custody(w) == InSeq(down[w]) \cup ({held[w]} \ {None}) \cup (InSeq(up[w]) \cap Tasks)

(***************************************************************************)
(* Whatever crashes, a slot has at most one task in its pipes and worker:  *)
(* one read per edge, in run_child and run_parent, relies on it.           *)
(***************************************************************************)
OneTaskPerSlot ==
  \A w \in Workers :
    /\ Len(down[w]) + (IF held[w] # None THEN 1 ELSE 0)
         + Cardinality({i \in DOMAIN up[w] : up[w][i] \in Tasks}) <= 1

(***************************************************************************)
(* The task a slot answers for is the one in m_task_record, and the slot   *)
(* is busy: a crash report names the right task, and select_process never  *)
(* gives a second task to a working slot.                                  *)
(***************************************************************************)
RecordNamesTheTask ==
  \A w \in Workers : Custody(w) # {} => busy[w] /\ Custody(w) = {record[w]}

(***************************************************************************)
(* The shape of a slot that makes the two properties above inductive: a    *)
(* slot is in exactly one of four stages (nothing; a request on its way; a *)
(* task in process(); one item on its way back), the last three only when  *)
(* busy; junk can only be in front of a reply, and the parent waits for    *)
(* bytes only on a slot without junk.                                      *)
(***************************************************************************)
NothingBack(w) == up[w] \in {<< >>, <<"junk">>}

OneBack(w) == \E x \in {record[w], "empty", "half"} : up[w] \in {<<x>>, <<"junk", x>>}

SlotStage(w) ==
  \/ down[w] = << >> /\ child[w] # "task" /\ NothingBack(w)
  \/ busy[w] /\ down[w] = <<record[w]>> /\ child[w] = "loop" /\ NothingBack(w)
  \/ busy[w] /\ down[w] = << >> /\ child[w] = "task" /\ NothingBack(w)
  \/ busy[w] /\ down[w] = << >> /\ child[w] # "task" /\ OneBack(w)

SlotOK(w) == /\ SlotStage(w)
             /\ held[w] = IF child[w] = "task" THEN record[w] ELSE None
             /\ busy[w] => record[w] \in Tasks
             /\ spin = w /\ up[w] # << >> => Head(up[w]) # "junk"

SlotShape == \A w \in Workers : SlotOK(w)

(***************************************************************************)
(* Every mark of sig_mqfd, of a signalfd and of a worker's pipe has its    *)
(* own unread item behind it, so no handler's single read finds nothing:   *)
(* the parent would deserialize a message of length -1.                    *)
(***************************************************************************)
MqMarks  == /\ "mq" \in ready \cup batch => mq # << >>
            /\ "mq" \in ready \cap batch => Len(mq) >= 2

SigMarks == /\ "sig" \in ready \cup batch => sigs # {}
            /\ "sig" \in ready \cap batch => \E r, s \in sigs : r # s

PipeMarks ==
  \A w \in Workers : /\ "pipe" \in cready[w] \cup cbatch[w] => down[w] # << >>
                     /\ "pipe" \notin cready[w] \cap cbatch[w]

ChildSigMarks ==
  \A w \in Workers :
    /\ "sig" \in cready[w] \cup cbatch[w] => csigs[w] # {}
    /\ "sig" \in cready[w] \cap cbatch[w] => \E r, s \in csigs[w] : r # s

MarksBacked == MqMarks /\ SigMarks /\ PipeMarks /\ ChildSigMarks

(***************************************************************************)
(* The parent leaves its loop only when every worker is dead and reaped:   *)
(* no orphan keeps working (and no zombie is left) behind a stopped pool.  *)
(***************************************************************************)
StopLeavesNoWorker == stop => \A w \in Workers : child[w] = "gone"

(***************************************************************************)
(* ... because m_pid is -1 exactly for the slots whose process is reaped.  *)
(***************************************************************************)
StopShape == /\ \A w \in Workers : pid[w] <=> child[w] # "gone"
             /\ stop => \A w \in Workers : ~pid[w]

(***************************************************************************)
(* Answers of one task make sense together: an overflow is the only one,   *)
(* and a result comes at most once and never after a crash report.         *)
(***************************************************************************)
AnswersLegal ==
  \A t \in Tasks :
    /\ "overflow" \in InSeq(answers[t]) => answers[t] = <<"overflow">>
    /\ \A i \in 2 .. Len(answers[t]) : answers[t][i] = "crash"

(***************************************************************************)
(* docs/protocol.md: "overflow" says that this machine is fully loaded, so *)
(* it is published only while every living worker has a task in custody.   *)
(***************************************************************************)
OverflowMeansLoaded ==
  [][\A t \in Tasks : answers'[t] = Append(answers[t], "overflow")
        => \A w \in Workers : Alive(w) => Custody(w) # {}]_vars

(***************************************************************************)
(* A crash report concerns a task that has no answer yet: a task answered  *)
(* "success" is not reported "error" afterwards.                           *)
(***************************************************************************)
CrashReportIsNews ==
  [][\A t \in Tasks : answers'[t] = Append(answers[t], "crash") => answers[t] = << >>]_vars

(***************************************************************************)
(* That holds while no worker crashed, if every task has a reply: a slot   *)
(* stays busy for no other reason.                                         *)
(***************************************************************************)
OverflowIsHonest ==
  [][faults = 0 => \A t \in Tasks : answers'[t] = Append(answers[t], "overflow")
        => \A w \in Workers : Alive(w) => Custody(w) # {}]_vars

(***************************************************************************)
(* A task given to a slot is answered, unless the service is told to stop: *)
(* a reply that is still unread when SIGCHLD is handled is lost with the   *)
(* pipe of its slot, at a stop and after a crash of the slot's worker.     *)
(***************************************************************************)
AcceptedIsAnswered ==
  \A t \in Tasks :
    (\E w \in Workers : record[w] = t)
      ~> \/ answers[t] # << >>  \/ sent \cap {"INT", "TERM"} # {}  \/ faults > 0

(***************************************************************************)
(* A dead worker is reaped: its slot gets a new process, or is given up.   *)
(***************************************************************************)
DeadIsReaped == \A w \in Workers : ~Alive(w) ~> child[w] \in {"loop", "gone"}

(***************************************************************************)
(* A task whose worker crashes before its reply is published is answered   *)
(* all the same, unless no new worker can be forked.                       *)
(***************************************************************************)
CrashIsReported ==
  \A w \in Workers, t \in Tasks :
    (child[w] = "crashing" /\ record[w] = t) ~> (answers[t] # << >> \/ ~pid[w])

(***************************************************************************)
(* No task is forgotten: what a worker was given is answered, by its reply *)
(* or, when it crashes, by a report of the parent.                         *)
(***************************************************************************)
TaskIsAnswered == AcceptedIsAnswered /\ CrashIsReported

(***************************************************************************)
(* A parent told to terminate kills its workers, waits for them and stops. *)
(***************************************************************************)
TermStops == sent \cap {"INT", "TERM"} # {} ~> Terminated

(***************************************************************************)
(* The pool implements TaskService.                                        *)
(***************************************************************************)
StatusOf(t) == IF t \in unsent THEN "unsent"
               ELSE IF t \in backlog THEN "saved"
               ELSE IF t \in InSeq(mq) THEN "queued"
               ELSE IF \E w \in Workers : t \in Custody(w) THEN "held"
               ELSE "closed"

Service == INSTANCE TaskService WITH
             status <- [t \in Tasks |-> StatusOf(t)], answers <- answers,
             Saved <- Backlog, Capacity <- Cardinality(Workers)

ImplementsService == Service!ServiceSpec
=============================================================================
