----------------------------- MODULE TaskThread -----------------------------
(***************************************************************************)
(* ustd::TaskThread: threads that serve one queue of tasks and one set of  *)
(* periodic timers (externals/ustd: thread_queue.h, task_queue.h,          *)
(* timer_queue.cpp, task_thread.cpp).  Everything between two unlocks of   *)
(* the mutex is one step: all of this state is reached under it only.  A   *)
(* caller holds the mutex for its change and notifies after it: two steps. *)
(***************************************************************************)
EXTENDS Naturals, Sequences, FiniteSets

CONSTANTS Threads,    \* what begin() started
          Callers,    \* threads of the program that use the object
          Tasks,      \* what they may post, each once
          Ids,        \* ids of timers, numbers
          Elapses,    \* intervals a timer may be given, in ticks
          Hour,       \* the wait when there is no timer (an hour), in ticks
          MaxTime,    \* bound of the clock
          None        \* no task

ASSUME ThreadAssumption ==
  /\ IsFiniteSet(Threads)
  /\ IsFiniteSet(Callers)
  /\ Ids \subseteq Nat
  /\ Elapses \subseteq Nat
  /\ Hour \in Nat
  /\ MaxTime \in Nat
  /\ None \notin Tasks

VARIABLES task_queue,   \* posted tasks, oldest first
          timers,       \* the set of timers
          exit_flag,    \* set by end()
          pc,           \* where each thread is in do_while()
          deadline,     \* when its wait_for() times out, 0 outside it
          job,          \* the task it executes
          caller,       \* where each caller is: "out", or before its notify
          unposted,     \* tasks nobody has posted yet
          now           \* the steady clock

queueVars  == <<task_queue, timers, exit_flag>>
threadVars == <<pc, deadline, job>>
vars == <<queueVars, threadVars, caller, unposted, now>>

Timer == [id : Ids, interval : Elapses, start : 0..MaxTime]

(***************************************************************************)
(* "top": before the mutex, at the head of the loop; "waiting": in         *)
(* wait_for(); "woken": out of it, before the mutex; "timer", "task": in a *)
(* callback or a task, without the mutex; "done": out of do_while().       *)
(***************************************************************************)
ThreadState == {"top", "waiting", "woken", "timer", "task", "done"}

Init == /\ task_queue = << >>
        /\ timers     = {}
        /\ exit_flag  = FALSE
        /\ pc         = [t \in Threads |-> "top"]
        /\ deadline   = [t \in Threads |-> 0]
        /\ job        = [t \in Threads |-> None]
        /\ caller     = [c \in Callers |-> "out"]
        /\ unposted   = Tasks
        /\ now        = 0

Waiters == {t \in Threads : pc[t] = "waiting"}

(***************************************************************************)
(*                            The set of timers                            *)
(***************************************************************************)
End(x) == x.start + x.interval

Before(x, y) == \/ End(x) < End(y)
                \/ End(x) = End(y) /\ x.id <= y.id

First == CHOOSE x \in timers : \A y \in timers : Before(x, y)

Due == timers # {} /\ now >= End(First)

\* Mutant: a wait that ignores the timers.
WaitUntilHour == now + Hour

WaitUntil == IF timers = {} THEN now + Hour
             ELSE IF now <= End(First) THEN End(First) ELSE now

(***************************************************************************)
(*                               The callers                               *)
(***************************************************************************)
PostTask(c, k) ==
  /\ caller[c] = "out"
  /\ k \in unposted
  /\ task_queue' = Append(task_queue, k)
  /\ unposted'   = unposted \ {k}
  /\ caller'     = [caller EXCEPT ![c] = "one"]
  /\ UNCHANGED <<timers, exit_flag, threadVars, now>>

SetTimer(c, i, e) ==
  /\ caller[c] = "out"
  /\ timers' = {x \in timers : x.id # i} \cup {[id |-> i, interval |-> e, start |-> now]}
  /\ caller' = [caller EXCEPT ![c] = "one"]
  /\ UNCHANGED <<task_queue, exit_flag, threadVars, unposted, now>>

KillTimer(c, i) ==
  /\ caller[c] = "out"
  /\ \E x \in timers : x.id = i
  /\ timers' = {x \in timers : x.id # i}
  /\ UNCHANGED <<task_queue, exit_flag, threadVars, caller, unposted, now>>

\* end(), up to the joins, which change nothing.
NotifyExit(c) ==
  /\ caller[c] = "out"
  /\ ~exit_flag
  /\ exit_flag' = TRUE
  /\ caller'    = [caller EXCEPT ![c] = "all"]
  /\ UNCHANGED <<task_queue, timers, threadVars, unposted, now>>

\* The threads of W leave wait_for().
Unblock(W) ==
  /\ pc'       = [t \in Threads |-> IF t \in W THEN "woken" ELSE pc[t]]
  /\ deadline' = [t \in Threads |-> IF t \in W THEN 0 ELSE deadline[t]]
  /\ UNCHANGED <<queueVars, job>>

\* Mutants: a notify that reaches nobody; end() that notifies one thread.
NotifyOneNobody(c) ==
  /\ caller[c] = "one"
  /\ caller' = [caller EXCEPT ![c] = "out"]
  /\ UNCHANGED <<queueVars, threadVars, unposted, now>>
NotifyAllOne(c) ==
  /\ caller[c] = "all"
  /\ caller' = [caller EXCEPT ![c] = "out"]
  /\ \/ \E t \in Waiters : Unblock({t})
     \/ Waiters = {} /\ Unblock({})
  /\ UNCHANGED <<unposted, now>>

NotifyOne(c) ==
  /\ caller[c] = "one"
  /\ caller' = [caller EXCEPT ![c] = "out"]
  /\ \/ \E t \in Waiters : Unblock({t})
     \/ Waiters = {} /\ Unblock({})
  /\ UNCHANGED <<unposted, now>>

NotifyAll(c) ==
  /\ caller[c] = "all"
  /\ caller' = [caller EXCEPT ![c] = "out"]
  /\ Unblock(Waiters)
  /\ UNCHANGED <<unposted, now>>

Notify(c) == NotifyOne(c) \/ NotifyAll(c)

Call(c) == \/ \E k \in Tasks : PostTask(c, k)
           \/ \E i \in Ids, e \in Elapses : SetTimer(c, i, e)
           \/ \E i \in Ids : KillTimer(c, i)
           \/ NotifyExit(c)

(***************************************************************************)
(*                               The threads                               *)
(***************************************************************************)
\* wait_for() releases the mutex and blocks.
Rest(t) ==
  /\ pc'       = [pc EXCEPT ![t] = "waiting"]
  /\ deadline' = [deadline EXCEPT ![t] = WaitUntil]
  /\ UNCHANGED <<queueVars, job>>

\* do_one_timer(), when the first timer is due.
FireTimer(t) ==
  /\ Due
  /\ timers' = (timers \ {First}) \cup {[First EXCEPT !.start = @ + First.interval]}
  /\ pc'     = [pc EXCEPT ![t] = "timer"]
  /\ UNCHANGED <<task_queue, exit_flag, deadline, job>>

\* Mutant: the newest task is taken.
TakeLast(t) ==
  /\ task_queue # << >>
  /\ job'        = [job EXCEPT ![t] = task_queue[Len(task_queue)]]
  /\ task_queue' = SubSeq(task_queue, 1, Len(task_queue) - 1)
  /\ pc'         = [pc EXCEPT ![t] = "task"]
  /\ UNCHANGED <<timers, exit_flag, deadline>>

\* do_one_task(), when there is one.
Take(t) ==
  /\ task_queue # << >>
  /\ job'        = [job EXCEPT ![t] = Head(task_queue)]
  /\ task_queue' = Tail(task_queue)
  /\ pc'         = [pc EXCEPT ![t] = "task"]
  /\ UNCHANGED <<timers, exit_flag, deadline>>

Leave(t) == /\ exit_flag
            /\ pc' = [pc EXCEPT ![t] = "done"]
            /\ UNCHANGED <<queueVars, deadline, job>>

\* The head of the loop: wait if there is no task, else serve a timer or a task.
Loop(t) ==
  /\ pc[t] = "top"
  /\ \/ Leave(t)
     \/ ~exit_flag /\ task_queue = << >> /\ Rest(t)
     \/ ~exit_flag /\ task_queue # << >> /\ FireTimer(t)
     \/ ~exit_flag /\ ~Due /\ Take(t)

\* After a wait, of any length: a timer, a task, or round the loop to the next wait.
Wake(t) ==
  /\ pc[t] = "woken"
  /\ \/ Leave(t)
     \/ ~exit_flag /\ FireTimer(t)
     \/ ~exit_flag /\ ~Due /\ Take(t)
     \/ ~exit_flag /\ ~Due /\ task_queue = << >> /\ Rest(t)

\* A callback returns; after it, a task, or round the loop.
TimerDone(t) ==
  /\ pc[t] = "timer"
  /\ \/ Leave(t)
     \/ ~exit_flag /\ Take(t)
     \/ ~exit_flag /\ task_queue = << >> /\ Rest(t)

TaskDone(t) ==
  /\ pc[t] = "task"
  /\ pc'  = [pc EXCEPT ![t] = "top"]
  /\ job' = [job EXCEPT ![t] = None]
  /\ UNCHANGED <<queueVars, deadline>>

Timeout(t)  == pc[t] = "waiting" /\ now >= deadline[t] /\ Unblock({t})
Spurious(t) == pc[t] = "waiting" /\ now < deadline[t] /\ Unblock({t})

ThreadStep(t) == /\ \/ Loop(t) \/ Wake(t) \/ TimerDone(t) \/ TaskDone(t) \/ Timeout(t)
                 /\ UNCHANGED <<caller, unposted, now>>

SpuriousWake(t) == Spurious(t) /\ UNCHANGED <<caller, unposted, now>>

Tick == /\ now < MaxTime
        /\ now' = now + 1
        /\ UNCHANGED <<queueVars, threadVars, caller, unposted>>

Next == \/ \E c \in Callers : Call(c) \/ Notify(c)
        \/ \E t \in Threads : ThreadStep(t) \/ SpuriousWake(t)
        \/ Tick

(***************************************************************************)
(* The operating system runs every thread; a task and a callback end, and  *)
(* a caller that holds no lock reaches its notify.  Nothing is assumed of  *)
(* the clock: a task must not have to wait until a wait_for() times out.   *)
(***************************************************************************)
Fairness == /\ \A t \in Threads : WF_vars(ThreadStep(t))
            /\ \A c \in Callers : WF_vars(Notify(c))

Spec     == Init /\ [][Next]_vars
FairSpec == Spec /\ Fairness
=============================================================================
