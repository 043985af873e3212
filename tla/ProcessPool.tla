----------------------------- MODULE ProcessPool -----------------------------
(***************************************************************************)
(* The process pool of the algorithm server (source/common/process_pool.h):*)
(* one single-threaded parent and a fixed number of worker slots.  The     *)
(* parent and every worker run an edge-triggered epoll loop; an MQTT       *)
(* thread feeds the parent through a socket pair, a slot is joined to its  *)
(* worker by a socket pair, and signals arrive through a signalfd.         *)
(*                                                                         *)
(* A descriptor that became ready since the last epoll_wait is a "mark" in *)
(* ready (cready for a worker); epoll_wait moves all marks to batch, whose *)
(* events are handled one by one in any order (epoll promises none), each  *)
(* with ONE read.  A signal that is already pending is merged, and sets no *)
(* mark.  A message is its task; a length prefix and its body are one      *)
(* element of a pipe, except where a crash tears them apart ("half").      *)
(***************************************************************************)
EXTENDS Naturals, Sequences, FiniteSets

CONSTANTS
  Workers,       \* the slots of m_sub_process
  Tasks,         \* every request of the run, each arriving once
  Backlog,       \* the tasks whose files the parent finds at start
  None,          \* no task, no slot
  Outside,       \* signals sent to the service from outside, each at most once
  CrashIn,       \* where a worker may crash: "loop" (idle), "task" (busy), "send"
                 \* (between the length and the body of its reply)
  Garbage,       \* what an unset length in readMsg may hold
  MaySwallow,    \* whether process() may return false, leaving an empty reply
  MaxFaults      \* bound: crashes and failed forks of one run

ASSUME PoolAssumption ==
  /\ IsFiniteSet(Workers) /\ None \notin Workers /\ {"mq", "sig"} \cap Workers = {}
  /\ None \notin Tasks /\ Backlog \subseteq Tasks
  /\ {"empty", "half", "junk"} \cap Tasks = {}
  /\ Outside \subseteq {"HUP", "INT", "TERM"}
  /\ CrashIn \subseteq {"loop", "task", "send"} /\ Garbage \subseteq {"zero", "big", "small"}
  /\ MaySwallow \in BOOLEAN /\ MaxFaults \in Nat

VARIABLES
  unsent, sent,        \* environment: tasks not yet sent, signals already sent
  backlog, loading,    \* task files still to load; the parent is loading them
  mq,                  \* sig_mqfd: requests from the MQTT thread to the parent
  sigs,                \* the parent's pending signals, read through m_psigfd
  ready, batch,        \* the parent's epoll marks, and the events being handled
  spin,                \* the slot on whose pipe the parent is stuck in readn
  stop,                \* m_stop
  pid, busy, record,   \* m_pid # -1, m_state.busy and m_task_record of a slot
  down, up,            \* the slot's socket pair, to and from its worker
  child, held,         \* the worker's state, and the task inside process()
  csigs, cready,       \* the worker's pending signals and epoll marks
  cbatch, cstop,       \* the events it is handling, and its m_stop
  answers,             \* history: what was published for each task
  faults               \* bound: crashes and failed forks so far

envVars    == <<unsent, sent, faults>>
loadVars   == <<backlog, loading>>
parentVars == <<mq, sigs, ready, batch, spin, stop>>
slotVars   == <<pid, busy, record>>
childVars  == <<child, held, csigs, cready, cbatch, cstop>>
vars == <<envVars, loadVars, parentVars, slotVars, down, up, childVars, answers>>

Fds        == {"mq", "sig"} \cup Workers
Signals    == {"HUP", "INT", "PIPE", "TERM", "CHLD"}
Odd        == {"empty", "half", "junk"}     \* what a pipe holds beside replies
ChildState == {"loop", "task",              \* alive: in its event loop, in process()
               "crashing", "leaving",       \* descriptors closed, death not announced
               "killed", "exited", "gone"}  \* zombie by signal, by exit; reaped
Answer     == {"overflow", "done", "crash"}

TypeOK ==
  /\ unsent \subseteq Tasks /\ backlog \subseteq Tasks /\ loading \in BOOLEAN
  /\ sent \subseteq Outside /\ faults \in Nat
  /\ mq \in Seq(Tasks) /\ sigs \subseteq Signals
  /\ ready \subseteq Fds /\ batch \subseteq Fds
  /\ spin \in Workers \cup {None} /\ stop \in BOOLEAN
  /\ pid \in [Workers -> BOOLEAN] /\ busy \in [Workers -> BOOLEAN]
  /\ record \in [Workers -> Tasks \cup {None}]
  /\ down \in [Workers -> Seq(Tasks)] /\ up \in [Workers -> Seq(Tasks \cup Odd)]
  /\ child \in [Workers -> ChildState] /\ held \in [Workers -> Tasks \cup {None}]
  /\ csigs \in [Workers -> SUBSET {"HUP", "INT", "TERM"}]
  /\ cready \in [Workers -> SUBSET {"pipe", "sig"}]
  /\ cbatch \in [Workers -> SUBSET {"pipe", "sig"}]
  /\ cstop \in [Workers -> BOOLEAN]
  /\ answers \in [Tasks -> Seq(Answer)]

(***************************************************************************)
(* The constructor forks every worker; no slot is busy.                    *)
(***************************************************************************)
Init ==
  /\ unsent = Tasks \ Backlog /\ sent = {} /\ faults = 0
  /\ backlog = Backlog /\ loading = TRUE
  /\ mq = << >> /\ sigs = {} /\ ready = {} /\ batch = {} /\ spin = None /\ stop = FALSE
  /\ pid = [w \in Workers |-> TRUE] /\ busy = [w \in Workers |-> FALSE]
  /\ record = [w \in Workers |-> None]
  /\ down = [w \in Workers |-> << >>] /\ up = [w \in Workers |-> << >>]
  /\ child = [w \in Workers |-> "loop"] /\ held = [w \in Workers |-> None]
  /\ csigs = [w \in Workers |-> {}] /\ cready = [w \in Workers |-> {}]
  /\ cbatch = [w \in Workers |-> {}] /\ cstop = [w \in Workers |-> FALSE]
  /\ answers = [t \in Tasks |-> << >>]

-----------------------------------------------------------------------------
Alive(w) == child[w] \in {"loop", "task"}

(***************************************************************************)
(* The signalfd is marked only by a signal that was not pending; a read    *)
(* takes the pending signal with the lowest number.                        *)
(***************************************************************************)
\* Mutant: every signal marks the signalfd.
SignalMarkAlways(s) == {"sig"}

SignalMark(s) == IF s \in sigs THEN {} ELSE {"sig"}

SignalNumber == [HUP |-> 1, INT |-> 2, PIPE |-> 13, TERM |-> 15, CHLD |-> 17]

Lowest(S) == CHOOSE s \in S : \A r \in S : SignalNumber[s] <= SignalNumber[r]

(***************************************************************************)
(* A worker's signalfd watches HUP and TERM but not INT.                   *)
(***************************************************************************)
\* Mutant: the worker's signalfd does not watch TERM.
ChildMarkNoTerm(w, s) == IF s \in {"HUP"} \ csigs[w] THEN {"sig"} ELSE {}

ChildMark(w, s) == IF s \in {"HUP", "TERM"} \ csigs[w] THEN {"sig"} ELSE {}

SignalChildren(W, s) ==
  /\ csigs'  = [w \in Workers |-> IF w \in W THEN csigs[w] \cup {s} ELSE csigs[w]]
  /\ cready' = [w \in Workers |-> IF w \in W THEN cready[w] \cup ChildMark(w, s) ELSE cready[w]]

(***************************************************************************)
(* select_process: a slot that is not busy and has a process.              *)
(***************************************************************************)
\* Mutants: busy is not looked at; a slot with a task record is never free.
FreeSlotsBusyToo   == {w \in Workers : pid[w]}
FreeSlotsNoRecord  == {w \in Workers : pid[w] /\ record[w] = None}

FreeSlots == {w \in Workers : pid[w] /\ ~busy[w]}

(***************************************************************************)
(* Hand task t to slot w.  If the worker has closed its end of the pipe,   *)
(* send raises SIGPIPE in the parent and t is lost.                        *)
(***************************************************************************)
Dispatch(t, w) ==
  /\ busy'   = [busy EXCEPT ![w] = TRUE]
  /\ record' = [record EXCEPT ![w] = t]
  /\ IF Alive(w)
       THEN /\ down'   = [down EXCEPT ![w] = Append(@, t)]
            /\ cready' = [cready EXCEPT ![w] = @ \cup {"pipe"}]
            /\ UNCHANGED <<sigs, ready>>
       ELSE /\ sigs'  = sigs \cup {"PIPE"}
            /\ ready' = ready \cup SignalMark("PIPE")
            /\ UNCHANGED <<down, cready>>
  /\ UNCHANGED <<pid, up, child, held, csigs, cbatch, cstop, spin, stop>>
-----------------------------------------------------------------------------
(***************************************************************************)
(* Environment.                                                            *)
(***************************************************************************)
Terminated == stop /\ batch = {}

(***************************************************************************)
(* The MQTT thread's on_message writes a request into sig_mqfd.            *)
(***************************************************************************)
Arrive(t) ==
  /\ t \in unsent /\ ~Terminated
  /\ unsent' = unsent \ {t}
  /\ mq' = Append(mq, t)
  /\ ready' = ready \cup {"mq"}
  /\ UNCHANGED <<sent, faults, loadVars, sigs, batch, spin, stop, slotVars, down, up,
                 childVars, answers>>

(***************************************************************************)
(* TERM goes to the parent; HUP and INT to the whole process group.        *)
(***************************************************************************)
OutsideSignal(s) ==
  /\ s \in Outside \ sent /\ ~Terminated
  /\ sent' = sent \cup {s}
  /\ sigs' = sigs \cup {s} /\ ready' = ready \cup SignalMark(s)
  /\ SignalChildren(IF s = "TERM" THEN {} ELSE {w \in Workers : Alive(w)}, s)
  /\ UNCHANGED <<unsent, faults, loadVars, mq, batch, spin, stop, slotVars, down, up,
                 child, held, cbatch, cstop, answers>>

(***************************************************************************)
(* A worker's descriptors are closed: unread requests are gone, replies    *)
(* stay readable, and the parent's end of the pipe is marked.              *)
(***************************************************************************)
Close(w, how) ==
  /\ child'  = [child EXCEPT ![w] = how]
  /\ held'   = [held EXCEPT ![w] = None]
  /\ down'   = [down EXCEPT ![w] = << >>]
  /\ csigs'  = [csigs EXCEPT ![w] = {}]
  /\ cready' = [cready EXCEPT ![w] = {}]
  /\ cbatch' = [cbatch EXCEPT ![w] = {}]
  /\ cstop'  = [cstop EXCEPT ![w] = FALSE]
  /\ ready'  = ready \cup {w}

(***************************************************************************)
(* The kernel kills worker w: idle, in a task, or when it has sent the     *)
(* length of its reply but not the body.                                   *)
(***************************************************************************)
Crash(w) ==
  /\ faults < MaxFaults
  /\ faults' = faults + 1
  /\ \/ child[w] \in CrashIn /\ UNCHANGED up
     \/ /\ child[w] = "task" /\ "send" \in CrashIn
        /\ up' = [up EXCEPT ![w] = Append(@, "half")]
  /\ Close(w, "crashing")
  /\ UNCHANGED <<unsent, sent, loadVars, mq, sigs, batch, spin, stop, slotVars, answers>>

(***************************************************************************)
(* The kernel announces the death of w to the parent.                      *)
(***************************************************************************)
Announce(w) ==
  /\ child[w] \in {"crashing", "leaving"}
  /\ child' = [child EXCEPT ![w] = IF @ = "crashing" THEN "killed" ELSE "exited"]
  /\ sigs' = sigs \cup {"CHLD"} /\ ready' = ready \cup SignalMark("CHLD")
  /\ UNCHANGED <<envVars, loadVars, mq, batch, spin, stop, slotVars, down, up,
                 held, csigs, cready, cbatch, cstop, answers>>
-----------------------------------------------------------------------------
(***************************************************************************)
(* A worker: run_child.                                                    *)
(***************************************************************************)
InLoop(w) == child[w] = "loop"

ChildEpollWait(w) ==
  /\ InLoop(w) /\ ~cstop[w] /\ cbatch[w] = {} /\ cready[w] # {}
  /\ cbatch' = [cbatch EXCEPT ![w] = cready[w]]
  /\ cready' = [cready EXCEPT ![w] = {}]
  /\ UNCHANGED <<envVars, loadVars, parentVars, slotVars, down, up, child, held, csigs,
                 cstop, answers>>

ChildRead(w) ==
  /\ InLoop(w) /\ "pipe" \in cbatch[w]
  /\ cbatch' = [cbatch EXCEPT ![w] = @ \ {"pipe"}]
  /\ held' = [held EXCEPT ![w] = Head(down[w])]
  /\ down' = [down EXCEPT ![w] = Tail(@)]
  /\ child' = [child EXCEPT ![w] = "task"]
  /\ UNCHANGED <<envVars, loadVars, parentVars, slotVars, up, csigs, cready, cstop, answers>>

(***************************************************************************)
(* process() returns and the worker sends its result; when it returned     *)
(* false the result is empty, and a length of zero is all that is sent.    *)
(***************************************************************************)
ChildFinish(w) ==
  /\ child[w] = "task"
  /\ \E reply \in {held[w]} \cup (IF MaySwallow THEN {"empty"} ELSE {}) :
       up' = [up EXCEPT ![w] = Append(@, reply)]
  /\ ready' = ready \cup {w}
  /\ child' = [child EXCEPT ![w] = "loop"]
  /\ held' = [held EXCEPT ![w] = None]
  /\ UNCHANGED <<envVars, loadVars, mq, sigs, batch, spin, stop, slotVars, down, csigs,
                 cready, cbatch, cstop, answers>>

(***************************************************************************)
(* The worker reads one pending signal (of its own, through the inherited  *)
(* m_psigfd).                                                              *)
(***************************************************************************)
ChildSignal(w) ==
  /\ InLoop(w) /\ "sig" \in cbatch[w]
  /\ LET s == Lowest(csigs[w]) IN
       /\ csigs' = [csigs EXCEPT ![w] = @ \ {s}]
       /\ cstop' = [cstop EXCEPT ![w] = @ \/ s \in {"INT", "TERM"}]
  /\ cbatch' = [cbatch EXCEPT ![w] = @ \ {"sig"}]
  /\ UNCHANGED <<envVars, loadVars, parentVars, slotVars, down, up, child, held, cready,
                 answers>>

ChildExit(w) ==
  /\ InLoop(w) /\ cstop[w] /\ cbatch[w] = {}
  /\ Close(w, "leaving")
  /\ UNCHANGED <<envVars, loadVars, mq, sigs, batch, spin, stop, slotVars, up, answers>>

ChildStep(w) == \/ ChildEpollWait(w) \/ ChildRead(w) \/ ChildFinish(w)
                \/ ChildSignal(w) \/ ChildExit(w)
-----------------------------------------------------------------------------
(***************************************************************************)
(* The parent: run_parent.  Before the event loop it gives each saved task *)
(* to a free slot, and stops at the first one that finds none.             *)
(***************************************************************************)
LoadTask(t, w) ==
  /\ loading /\ t \in backlog /\ w \in FreeSlots
  /\ backlog' = backlog \ {t}
  /\ Dispatch(t, w)
  /\ UNCHANGED <<envVars, loading, mq, batch, answers>>

LoadEnd ==
  /\ loading /\ (backlog = {} \/ FreeSlots = {})
  /\ loading' = FALSE
  /\ UNCHANGED <<envVars, backlog, parentVars, slotVars, down, up, childVars, answers>>

EpollWait ==
  /\ ~loading /\ ~stop /\ spin = None /\ batch = {} /\ ready # {}
  /\ batch' = ready /\ ready' = {}
  /\ UNCHANGED <<envVars, loadVars, mq, sigs, spin, stop, slotVars, down, up, childVars,
                 answers>>

(***************************************************************************)
(* The parent takes event fd of the batch.                                 *)
(***************************************************************************)
\* Mutant: the rest of the batch is dropped after one event.
TakeFirst(fd) == spin = None /\ fd \in batch /\ batch' = {}

Take(fd) == spin = None /\ fd \in batch /\ batch' = batch \ {fd}

(***************************************************************************)
(* The MQTT event: one request is read, and given to a free slot or        *)
(* refused.                                                                *)
(***************************************************************************)
AcceptRequest(w) ==
  /\ Take("mq") /\ w \in FreeSlots
  /\ mq' = Tail(mq)
  /\ Dispatch(Head(mq), w)
  /\ UNCHANGED <<envVars, loadVars, answers>>

RefuseRequest ==
  /\ Take("mq") /\ FreeSlots = {}
  /\ mq' = Tail(mq)
  /\ answers' = [answers EXCEPT ![Head(mq)] = Append(@, "overflow")]
  /\ UNCHANGED <<envVars, loadVars, sigs, ready, spin, stop, slotVars, down, up, childVars>>

(***************************************************************************)
(* The signal event: one pending signal is read.                           *)
(***************************************************************************)
ReadSignal(s) == Take("sig") /\ s = Lowest(sigs) /\ sigs' = sigs \ {s}

IgnoreSignal ==
  /\ \E s \in {"HUP", "PIPE"} : ReadSignal(s)
  /\ UNCHANGED <<envVars, loadVars, mq, ready, spin, stop, slotVars, down, up, childVars,
                 answers>>

KillChildren ==
  /\ \E s \in {"INT", "TERM"} : ReadSignal(s)
  /\ SignalChildren({w \in Workers : pid[w] /\ Alive(w)}, "TERM")
  /\ UNCHANGED <<envVars, loadVars, mq, ready, spin, stop, slotVars, down, up, child, held,
                 cbatch, cstop, answers>>

(***************************************************************************)
(* What waitpid returns in the handler of SIGCHLD: every zombie.           *)
(***************************************************************************)
\* Mutant: waitpid is called once for a SIGCHLD.
ZombiesFirst ==
  LET dead == {w \in Workers : child[w] \in {"killed", "exited"}}
  IN  IF dead = {} THEN {} ELSE {CHOOSE w \in dead : TRUE}

Zombies == {w \in Workers : child[w] \in {"killed", "exited"}}

(***************************************************************************)
(* "crash" is published for the task of the record of each slot of W.      *)
(***************************************************************************)
\* Mutant: the records of all slots are reported.
CrashReportAll(W) ==
  answers' = [t \in Tasks |-> IF \E w \in Workers : W # {} /\ record[w] = t
                              THEN Append(answers[t], "crash") ELSE answers[t]]

CrashReport(W) ==
  answers' = [t \in Tasks |-> IF \E w \in W : record[w] = t
                              THEN Append(answers[t], "crash") ELSE answers[t]]

(***************************************************************************)
(* No slot has a process (m_pid = -1) any more.                            *)
(***************************************************************************)
\* Mutant: one dead worker is enough.
AllGoneAny(p) == \E w \in Workers : ~p[w]

AllGone(p) == \A w \in Workers : ~p[w]

(***************************************************************************)
(* SIGCHLD: every zombie is reaped and its pipe closed.  A slot whose      *)
(* worker exited is given up.  One whose worker was killed gets a new      *)
(* socket pair and a new worker, unless fork fails (F), and its crash is   *)
(* published.  busy and the record are left as they are.  The mark of a    *)
(* closed pipe survives while a sibling forked later still holds a copy of *)
(* the descriptor (K).  When no slot has a process the parent stops.       *)
(***************************************************************************)
ReapChildren ==
  LET killed == {w \in Zombies : child[w] = "killed"} IN
  /\ ReadSignal("CHLD")
  /\ \E F \in SUBSET killed, K \in SUBSET Zombies :
       LET reborn == killed \ F IN
       /\ faults + Cardinality(F) <= MaxFaults
       /\ faults' = faults + Cardinality(F)
       /\ pid'    = [w \in Workers |-> pid[w] /\ w \notin Zombies \ reborn]
       /\ child'  = [w \in Workers |-> IF w \in reborn THEN "loop"
                                       ELSE IF w \in Zombies THEN "gone" ELSE child[w]]
       /\ up'     = [w \in Workers |-> IF w \in Zombies THEN << >> ELSE up[w]]
       /\ ready'  = ready \ (Zombies \ K)
       /\ CrashReport(reborn)
       /\ stop'   = AllGone(pid')
  /\ UNCHANGED <<unsent, sent, loadVars, mq, spin, busy, record, down, held, csigs, cready,
                 cbatch, cstop>>
-----------------------------------------------------------------------------
(***************************************************************************)
(* A pipe event of slot w: readMsg and what the parent does with it.       *)
(***************************************************************************)
NextReply(w) == up' = [up EXCEPT ![w] = Tail(@)]

PublishReply(w) ==
  /\ Take(w) /\ up[w] # << >> /\ Head(up[w]) \in Tasks
  /\ answers' = [answers EXCEPT ![Head(up[w])] = Append(@, "done")]
  /\ busy' = [busy EXCEPT ![w] = FALSE]
  /\ NextReply(w)
  /\ UNCHANGED <<envVars, loadVars, mq, sigs, ready, spin, stop, pid, record, down, childVars>>

(***************************************************************************)
(* A length of zero ("child may crash!") or an impossible one: the event   *)
(* is dropped and the slot stays busy.  Junk stays in front: every length  *)
(* read from it is text of a reply, hence too big.                         *)
(***************************************************************************)
DropReply(w) ==
  /\ Take(w) /\ up[w] # << >> /\ Head(up[w]) \in {"empty", "junk"}
  /\ IF Head(up[w]) = "empty" THEN NextReply(w) ELSE UNCHANGED up
  /\ UNCHANGED <<envVars, loadVars, mq, sigs, ready, spin, stop, slotVars, down, childVars,
                 answers>>

(***************************************************************************)
(* The body never comes: readn returns 0 at the end of file.               *)
(***************************************************************************)
TornReply(w) ==
  /\ Take(w) /\ up[w] # << >> /\ Head(up[w]) = "half"
  /\ busy' = [busy EXCEPT ![w] = FALSE]
  /\ NextReply(w)
  /\ UNCHANGED <<envVars, loadVars, mq, sigs, ready, spin, stop, pid, record, down, childVars,
                 answers>>

(***************************************************************************)
(* There is nothing to read: the worker has closed the pipe, or the event  *)
(* is one of a pipe that was closed since.  read() leaves the length of    *)
(* readMsg unset; whatever it holds decides.  A small one makes readn wait *)
(* for that many bytes: it returns 0 at the end of file, and otherwise     *)
(* retries for ever.                                                       *)
(***************************************************************************)
AtEof(w) == pid[w] /\ ~Alive(w)

ReadNothing(w) ==
  /\ Take(w) /\ up[w] = << >>
  /\ \/ /\ Garbage \cap {"zero", "big"} # {}
        /\ UNCHANGED <<busy, spin>>
     \/ /\ "small" \in Garbage /\ AtEof(w)
        /\ busy' = [busy EXCEPT ![w] = FALSE]
        /\ UNCHANGED spin
     \/ /\ "small" \in Garbage /\ ~AtEof(w)
        /\ spin' = w
        /\ UNCHANGED busy
  /\ UNCHANGED <<envVars, loadVars, mq, sigs, ready, stop, pid, record, down, up, childVars,
                 answers>>

(***************************************************************************)
(* The stuck readn ends when the worker sends something, whose bytes are   *)
(* published as if they were a reply, the rest left as junk; or when the   *)
(* worker closes the pipe.                                                 *)
(***************************************************************************)
SpinEnds(w) ==
  /\ spin = w
  /\ spin' = None
  /\ busy' = [busy EXCEPT ![w] = FALSE]
  /\ \/ up[w] # << >> /\ \E rest \in {<< >>, <<"junk">>} : up' = [up EXCEPT ![w] = rest]
     \/ up[w] = << >> /\ AtEof(w) /\ UNCHANGED up
  /\ UNCHANGED <<envVars, loadVars, mq, sigs, ready, batch, stop, pid, record, down, childVars,
                 answers>>

HandlePipe(w) == \/ PublishReply(w) \/ DropReply(w) \/ TornReply(w)
                 \/ ReadNothing(w) \/ SpinEnds(w)

ParentStep ==
  \/ LoadEnd \/ EpollWait \/ RefuseRequest \/ IgnoreSignal \/ KillChildren \/ ReapChildren
  \/ \E w \in Workers : HandlePipe(w) \/ AcceptRequest(w) \/ (\E t \in Tasks : LoadTask(t, w))

Next ==
  \/ ParentStep
  \/ \E w \in Workers : ChildStep(w) \/ Crash(w) \/ Announce(w)
  \/ \E t \in Tasks : Arrive(t)
  \/ \E s \in Outside : OutsideSignal(s)

(***************************************************************************)
(* The kernel schedules the parent and every worker, a task ends, and the  *)
(* kernel announces a death; nothing makes a request, a signal or a crash  *)
(* happen.                                                                 *)
(***************************************************************************)
Fairness == WF_vars(ParentStep) /\ \A w \in Workers : WF_vars(ChildStep(w)) /\ WF_vars(Announce(w))

Spec     == Init /\ [][Next]_vars
FairSpec == Spec /\ Fairness
=============================================================================
