-------------------------- MODULE ThreadProperties --------------------------
(***************************************************************************)
(* What ustd::TaskThread must guarantee to the worker, which posts the     *)
(* branches of a task and the uploads of its files to it.                  *)
(***************************************************************************)
EXTENDS TaskThread

\* Types; a timer's id is its key in the set, and no timer starts in the future.
TypeOK ==
  /\ task_queue \in Seq(Tasks)
  /\ timers     \in SUBSET Timer
  /\ exit_flag  \in BOOLEAN
  /\ pc         \in [Threads -> ThreadState]
  /\ deadline   \in [Threads -> Nat]
  /\ job        \in [Threads -> Tasks \cup {None}]
  /\ caller     \in [Callers -> {"out", "one", "all"}]
  /\ unposted   \in SUBSET Tasks
  /\ now        \in 0..MaxTime
  /\ \A x, y \in timers : x.id = y.id => x = y
  /\ \A x \in timers : x.start <= now

Notifying == {c \in Callers : caller[c] # "out"}

\* Threads that will look at the queue before they wait again.
Looking == {t \in Threads : pc[t] \in {"top", "woken", "timer"}}

(***************************************************************************)
(* While a thread waits, every queued task has a thread of its own that    *)
(* comes for it, or a caller about to notify: no wake-up is lost between   *)
(* post_task's unlock and notify_one, and two tasks never share one        *)
(* (thread_queue.h:23-37, 63-82).                                          *)
(***************************************************************************)
TaskHasThread ==
  ~exit_flag /\ Waiters # {} =>
    Len(task_queue) <= Cardinality(Notifying) + Cardinality(Looking)

(***************************************************************************)
(* While no thread is awake and no caller about to notify, some thread     *)
(* wakes up in time for every timer, though each thread computed its wait  *)
(* from the timers of that moment (thread_queue.h:45-54, 70-71).           *)
(***************************************************************************)
Awake == {t \in Threads : pc[t] \notin {"waiting", "done"}}

TimerIsWatched ==
  ~exit_flag /\ Awake = {} /\ Notifying = {} =>
    \A x \in timers : \E t \in Waiters : deadline[t] <= End(x) \/ deadline[t] <= now

(***************************************************************************)
(* The threads start the posted tasks in order, each once, as many at a    *)
(* time as there are threads, and none after end() has set exit_flag.      *)
(***************************************************************************)
Queue == INSTANCE WorkQueue
         WITH Capacity <- Cardinality(Threads),
              fresh    <- unposted,
              pending  <- task_queue,
              running  <- {job[t] : t \in {u \in Threads : pc[u] = "task"}},
              closed   <- exit_flag

ImplementsQueue == Queue!QueueSpec

(***************************************************************************)
(* A posted task is started without waiting for a timeout, unless end() is *)
(* called: the wait of an hour hides no lost notify.                       *)
(***************************************************************************)
PostedIsRun ==
  \A k \in Tasks : k \in {task_queue[n] : n \in DOMAIN task_queue} ~>
    exit_flag \/ \A n \in DOMAIN task_queue : task_queue[n] # k

(***************************************************************************)
(* A due timer fires, or is killed or set again, unless end() is called;   *)
(* a timer of interval 0 would starve all others, so the instance has none *)
(* (timer_queue.cpp:51-71).                                                *)
(***************************************************************************)
DueFires ==
  \A i \in Ids, s \in 0..(MaxTime - 1) :
    (\E x \in timers : x.id = i /\ x.start = s /\ now >= End(x)) ~>
      exit_flag \/ \A x \in timers : x.id = i => x.start # s

(***************************************************************************)
(* end() joins: every thread leaves its loop once exit_flag is set, the    *)
(* ones that wait included (thread_queue.h:84-90, task_thread.cpp:21-31).  *)
(***************************************************************************)
EndJoins == exit_flag ~> \A t \in Threads : pc[t] = "done"
=============================================================================
