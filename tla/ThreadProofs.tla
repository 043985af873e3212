---------------------------- MODULE ThreadProofs ----------------------------
(***************************************************************************)
(* TLAPS proofs about ustd::TaskThread, for any number of threads, callers *)
(* and tasks, and any timers.                                              *)
(***************************************************************************)
EXTENDS ThreadProperties, FiniteSetTheorems, WellFoundedInduction, TLAPS

USE ThreadAssumption DEF queueVars, threadVars

(***************************************************************************)
(* The set of timers has a first one: a smallest end, and among the timers *)
(* of that end a smallest id.                                              *)
(***************************************************************************)
LEMMA SmallestOf ==
  ASSUME NEW S \in SUBSET Nat, S # {}
  PROVE  \E n \in S : \A m \in S : n <= m
<1>1. PICK n \in S : \A m \in S : <<m, n>> \notin OpToRel(<, Nat)
  BY NatLessThanWellFounded, WFMin
<1>2. \A m \in S : ~(m < n)
  BY <1>1 DEF OpToRel
<1>3. QED BY <1>2

LEMMA TimerType ==
  ASSUME NEW x \in Timer
  PROVE  /\ x.id \in Nat /\ x.interval \in Nat /\ x.start \in Nat /\ End(x) \in Nat
<1>1. x.id \in Ids /\ x.interval \in Elapses /\ x.start \in 0..MaxTime
  BY DEF Timer
<1>2. x.start \in Nat
  BY <1>1
<1>3. x.id \in Nat /\ x.interval \in Nat
  BY <1>1
<1>4. QED BY <1>2, <1>3 DEF End

LEMMA FirstIsFirst ==
  ASSUME timers \in SUBSET Timer, timers # {}
  PROVE  First \in timers /\ \A y \in timers : Before(First, y)
<1> DEFINE Ends == {End(x) : x \in timers}
<1>1. PICK n \in Ends : \A m \in Ends : n <= m
  <2>1. Ends \in SUBSET Nat /\ Ends # {}
    BY TimerType
  <2>2. QED BY <2>1, SmallestOf
<1> DEFINE Earliest == {x.id : x \in {y \in timers : End(y) = n}}
<1>2. PICK i \in Earliest : \A j \in Earliest : i <= j
  <2>1. Earliest \in SUBSET Nat
    BY TimerType
  <2>2. Earliest # {}
    BY <1>1
  <2>3. QED BY <2>1, <2>2, SmallestOf
<1>3. PICK x \in timers : End(x) = n /\ x.id = i
  BY <1>2
<1>4. ASSUME NEW y \in timers PROVE Before(x, y)
  <2>1. End(x) \in Nat /\ End(y) \in Nat /\ End(x) <= End(y)
    BY <1>1, <1>3, TimerType
  <2>2. End(x) = End(y) => x.id <= y.id
    BY <1>2, <1>3
  <2>3. QED BY <2>1, <2>2 DEF Before
<1>5. QED BY <1>3, <1>4 DEF First

(***************************************************************************)
(* A wait ends no later than the first timer, or at once.                  *)
(***************************************************************************)
LEMMA WaitIsShort ==
  ASSUME TypeOK
  PROVE  /\ WaitUntil \in Nat
         /\ \A x \in timers : WaitUntil <= End(x) \/ WaitUntil <= now
<1>1. now \in Nat /\ timers \in SUBSET Timer
  BY DEF TypeOK
<1>2. CASE timers = {}
  BY <1>1, <1>2 DEF WaitUntil
<1>3. CASE timers # {}
  <2>1. End(First) \in Nat /\ \A y \in timers : End(y) \in Nat /\ End(First) <= End(y)
    <3>1. First \in timers /\ \A y \in timers : Before(First, y)
      BY <1>1, <1>3, FirstIsFirst
    <3>2. \A y \in timers : End(y) \in Nat
      BY <1>1, TimerType
    <3>3. QED BY <3>1, <3>2 DEF Before
  <2>2. QED BY <1>1, <1>3, <2>1 DEF WaitUntil
<1>4. QED BY <1>2, <1>3

LEMMA UnblockType ==
  ASSUME TypeOK, NEW W, Unblock(W)
  PROVE  /\ pc' \in [Threads -> ThreadState] /\ deadline' \in [Threads -> Nat]
         /\ UNCHANGED <<task_queue, timers, exit_flag, job>>
<1>1. pc \in [Threads -> ThreadState] /\ "woken" \in ThreadState
  BY DEF TypeOK, ThreadState
<1>2. deadline \in [Threads -> Nat]
  BY DEF TypeOK
<1>3. pc' \in [Threads -> ThreadState]
  BY <1>1 DEF Unblock
<1>4. deadline' \in [Threads -> Nat]
  BY <1>2 DEF Unblock
<1>5. QED BY <1>3, <1>4 DEF Unblock

(***************************************************************************)
(* The types are kept.                                                     *)
(***************************************************************************)
LEMMA ThreadTypeStep == TypeOK /\ [Next]_vars => TypeOK'
<1> SUFFICES ASSUME TypeOK, [Next]_vars PROVE TypeOK'
    OBVIOUS
<1> USE DEF TypeOK, ThreadState
<1>1. ASSUME NEW c \in Callers, NEW k \in Tasks, PostTask(c, k) PROVE TypeOK'
  BY <1>1 DEF PostTask
<1>2. ASSUME NEW c \in Callers, NEW i \in Ids, NEW e \in Elapses, SetTimer(c, i, e) PROVE TypeOK'
  <2>1. [id |-> i, interval |-> e, start |-> now] \in Timer
    BY DEF Timer
  <2>2. timers' \in SUBSET Timer
    BY <1>2, <2>1 DEF SetTimer
  <2>3. /\ \A x, y \in timers' : x.id = y.id => x = y
        /\ \A x \in timers' : x.start <= now
    BY <1>2 DEF SetTimer
  <2>4. QED BY <1>2, <2>2, <2>3 DEF SetTimer
<1>3. ASSUME NEW c \in Callers, NEW i \in Ids, KillTimer(c, i) PROVE TypeOK'
  BY <1>3 DEF KillTimer
<1>4. ASSUME NEW c \in Callers, NotifyExit(c) PROVE TypeOK'
  BY <1>4 DEF NotifyExit
<1>5. ASSUME NEW c \in Callers, Notify(c) PROVE TypeOK'
  <2>1. PICK W : Unblock(W)
    BY <1>5 DEF Notify, NotifyOne, NotifyAll
  <2>2. caller' \in [Callers -> {"out", "one", "all"}] /\ UNCHANGED <<unposted, now>>
    BY <1>5 DEF Notify, NotifyOne, NotifyAll
  <2>3. QED BY <2>1, <2>2, UnblockType
<1>6. ASSUME NEW t \in Threads, Rest(t), UNCHANGED <<caller, unposted, now>> PROVE TypeOK'
  BY <1>6, WaitIsShort DEF Rest
<1>7. ASSUME NEW t \in Threads, FireTimer(t), UNCHANGED <<caller, unposted, now>> PROVE TypeOK'
  <2> DEFINE again == [First EXCEPT !.start = @ + First.interval]
  <2>1. First \in timers /\ First \in Timer /\ now >= End(First)
    BY <1>7, FirstIsFirst DEF FireTimer, Due
  <2>2. again.id = First.id /\ again.start = End(First) /\ again.interval = First.interval
        /\ again = [id |-> First.id, interval |-> First.interval, start |-> End(First)]
    BY <2>1 DEF Timer, End
  <2>3. again \in Timer /\ again.start <= now
    <3>1. First.id \in Ids /\ First.interval \in Elapses /\ End(First) \in 0..MaxTime
      BY <2>1, TimerType DEF Timer
    <3>2. QED BY <2>1, <2>2, <3>1 DEF Timer
  <2>4. timers' = (timers \ {First}) \cup {again}
    BY <1>7 DEF FireTimer
  <2>5. timers' \in SUBSET Timer
    BY <2>3, <2>4
  <2>6. \A x, y \in timers : x.id = y.id => x = y
    OBVIOUS
  <2>7. again.id = First.id
    BY <2>2
  <2> HIDE DEF again
  <2>8. \A x, y \in timers' : x.id = y.id => x = y
    BY <2>1, <2>4, <2>6, <2>7, Zenon
  <2>9. \A x \in timers' : x.start <= now
    BY <2>3, <2>4
  <2>10. QED BY <1>7, <2>5, <2>8, <2>9 DEF FireTimer
<1>8. ASSUME NEW t \in Threads, Take(t), UNCHANGED <<caller, unposted, now>> PROVE TypeOK'
  BY <1>8 DEF Take
<1>9. ASSUME NEW t \in Threads, Leave(t), UNCHANGED <<caller, unposted, now>> PROVE TypeOK'
  BY <1>9 DEF Leave
<1>10. ASSUME NEW t \in Threads, TaskDone(t), UNCHANGED <<caller, unposted, now>> PROVE TypeOK'
  BY <1>10 DEF TaskDone
<1>11. ASSUME NEW t \in Threads, Timeout(t) \/ Spurious(t), UNCHANGED <<caller, unposted, now>> PROVE TypeOK'
  <2>1. Unblock({t})
    BY <1>11 DEF Timeout, Spurious
  <2>2. QED BY <1>11, <2>1, UnblockType
<1>12. CASE Tick
  <2>1. now' \in 0..MaxTime /\ now <= now'
    BY <1>12 DEF Tick
  <2>2. \A x \in timers : x.start \in Nat
    BY TimerType
  <2>3. QED BY <1>12, <2>1, <2>2 DEF Tick
<1>13. CASE UNCHANGED vars
  BY <1>13 DEF vars
<1>14. QED
  BY <1>1, <1>2, <1>3, <1>4, <1>5, <1>6, <1>7, <1>8, <1>9, <1>10, <1>11, <1>12, <1>13
     DEF Next, Call, ThreadStep, SpuriousWake, Loop, Wake, TimerDone

(***************************************************************************)
(* A thread leaves do_while() only after end().                            *)
(***************************************************************************)
DoneMeansExit == \A t \in Threads : pc[t] = "done" => exit_flag

LEMMA DoneStep == TypeOK /\ DoneMeansExit /\ [Next]_vars => DoneMeansExit'
<1> SUFFICES ASSUME TypeOK, DoneMeansExit, [Next]_vars PROVE DoneMeansExit'
    OBVIOUS
<1> USE DEF TypeOK, DoneMeansExit
<1>1. ASSUME NEW c \in Callers, Call(c) PROVE DoneMeansExit'
  BY <1>1 DEF Call, PostTask, SetTimer, KillTimer, NotifyExit
<1>2. ASSUME NEW W, Unblock(W) PROVE DoneMeansExit'
  BY <1>2 DEF Unblock
<1>3. ASSUME NEW t \in Threads, Rest(t) \/ FireTimer(t) \/ Take(t) \/ Leave(t) \/ TaskDone(t)
      PROVE  DoneMeansExit'
  BY <1>3 DEF Rest, FireTimer, Take, Leave, TaskDone
<1>4. CASE Tick \/ UNCHANGED vars
  BY <1>4 DEF Tick, vars
<1>5. QED
  BY <1>1, <1>2, <1>3, <1>4 DEF Next, Notify, NotifyOne, NotifyAll, ThreadStep, SpuriousWake,
     Loop, Wake, TimerDone, Timeout, Spurious

(***************************************************************************)
(* One member more or less in a finite set.                                *)
(***************************************************************************)
LEMMA Counted ==
  ASSUME NEW U, IsFiniteSet(U), NEW S \in SUBSET U, NEW x \in U
  PROVE  /\ IsFiniteSet(S) /\ Cardinality(S) \in Nat
         /\ x \notin S => Cardinality(S \cup {x}) = Cardinality(S) + 1
         /\ x \in S => Cardinality(S \ {x}) = Cardinality(S) - 1
<1>1. IsFiniteSet(S)
  BY FS_Subset
<1>2. Cardinality(S) \in Nat
  BY <1>1, FS_CardinalityType
<1>3. QED BY <1>1, <1>2, FS_AddElement, FS_RemoveElement

LEMMA Larger ==
  ASSUME NEW U, IsFiniteSet(U), NEW T \in SUBSET U, NEW S \in SUBSET T
  PROVE  Cardinality(S) \in Nat /\ Cardinality(T) \in Nat /\ Cardinality(S) <= Cardinality(T)
<1>1. IsFiniteSet(T)
  BY FS_Subset
<1>2. IsFiniteSet(S) /\ Cardinality(S) <= Cardinality(T)
  BY <1>1, FS_Subset
<1>3. QED BY <1>1, <1>2, FS_CardinalityType

(***************************************************************************)
(* No queued task is left without a thread: PostTask brings a notify, a    *)
(* notify a thread, a thread takes at most one task, and it waits only     *)
(* when it has found none.                                                 *)
(***************************************************************************)
Enough == Len(task_queue) <= Cardinality(Notifying) + Cardinality(Looking)

LEMMA TaskHasThreadStep == TypeOK /\ TaskHasThread /\ [Next]_vars => TaskHasThread'
<1> SUFFICES ASSUME TypeOK, TaskHasThread, [Next]_vars, ~exit_flag', Waiters' # {} PROVE Enough'
    BY DEF TaskHasThread, Enough
<1>1. /\ Notifying \in SUBSET Callers /\ Notifying' \in SUBSET Callers
      /\ Looking \in SUBSET Threads /\ Looking' \in SUBSET Threads
  BY DEF Notifying, Looking
<1>2. /\ Cardinality(Notifying) \in Nat /\ Cardinality(Notifying') \in Nat
      /\ Cardinality(Looking) \in Nat /\ Cardinality(Looking') \in Nat
  BY <1>1, Larger
<1>3. /\ pc \in [Threads -> ThreadState] /\ task_queue \in Seq(Tasks)
      /\ caller \in [Callers -> {"out", "one", "all"}]
  BY DEF TypeOK
<1>4. Len(task_queue) \in Nat
  BY <1>3
<1>5. Waiters # {} /\ ~exit_flag => Enough
  BY DEF TaskHasThread, Enough
<1>6. ASSUME NEW c \in Callers, NEW k \in Tasks, PostTask(c, k) PROVE Enough'
  <2>1. Waiters' = Waiters /\ Looking' = Looking /\ exit_flag' = exit_flag
    BY <1>6 DEF PostTask, Waiters, Looking
  <2>2. c \notin Notifying /\ Notifying' = Notifying \cup {c}
    BY <1>3, <1>6 DEF PostTask, Notifying
  <2>3. Len(task_queue') = Len(task_queue) + 1
    BY <1>3, <1>6 DEF PostTask
  <2>4. Cardinality(Notifying') = Cardinality(Notifying) + 1
    BY <1>1, <2>2, Counted
  <2>5. QED BY <1>2, <1>4, <1>5, <2>1, <2>3, <2>4 DEF Enough
<1>7. ASSUME NEW c \in Callers, NEW i \in Ids, NEW e \in Elapses, SetTimer(c, i, e) PROVE Enough'
  <2>1. Waiters' = Waiters /\ Looking' = Looking /\ UNCHANGED <<task_queue, exit_flag>>
    BY <1>7 DEF SetTimer, Waiters, Looking
  <2>2. Notifying \subseteq Notifying'
    BY <1>3, <1>7 DEF SetTimer, Notifying
  <2>3. Cardinality(Notifying) <= Cardinality(Notifying')
    BY <1>1, <2>2, Larger
  <2>4. QED BY <1>2, <1>4, <1>5, <2>1, <2>3 DEF Enough
<1>8. ASSUME NEW c \in Callers, NotifyOne(c) PROVE Enough'
  <2>1. PICK t \in Waiters : Unblock({t})
    BY <1>8 DEF NotifyOne, Unblock, Waiters
  <2>2. t \notin Looking /\ Looking' = Looking \cup {t} /\ UNCHANGED <<task_queue, exit_flag>>
    BY <1>3, <2>1 DEF Unblock, Waiters, Looking
  <2>3. c \in Notifying /\ Notifying' = Notifying \ {c}
    BY <1>3, <1>8 DEF NotifyOne, Notifying
  <2>4. Cardinality(Looking') = Cardinality(Looking) + 1
    BY <1>1, <2>1, <2>2, Counted DEF Waiters
  <2>5. Cardinality(Notifying') = Cardinality(Notifying) - 1
    BY <1>1, <2>3, Counted
  <2>6. QED BY <1>2, <1>4, <1>5, <2>1, <2>2, <2>4, <2>5 DEF Enough
<1>9. ASSUME NEW c \in Callers, NotifyAll(c) PROVE FALSE
  BY <1>3, <1>9 DEF NotifyAll, Unblock, Waiters
<1>10. ASSUME NEW t \in Threads, Rest(t), task_queue = << >> PROVE Enough'
  <2>1. Len(task_queue') = 0
    BY <1>10 DEF Rest
  <2>2. QED BY <1>2, <2>1 DEF Enough
<1>11. ASSUME NEW t \in Threads, FireTimer(t), pc[t] \in {"top", "woken"}, UNCHANGED caller PROVE Enough'
  <2>1. /\ Waiters' = Waiters /\ Looking' = Looking /\ Notifying' = Notifying
        /\ UNCHANGED <<task_queue, exit_flag>>
    BY <1>3, <1>11 DEF FireTimer, Waiters, Looking, Notifying
  <2>2. QED BY <1>5, <2>1 DEF Enough
<1>12. ASSUME NEW t \in Threads, Take(t), pc[t] \in {"top", "woken", "timer"}, UNCHANGED caller PROVE Enough'
  <2>1. Waiters' = Waiters /\ Notifying' = Notifying /\ exit_flag' = exit_flag
    BY <1>3, <1>12 DEF Take, Waiters, Notifying
  <2>2. t \in Looking /\ Looking' = Looking \ {t}
    BY <1>3, <1>12 DEF Take, Looking
  <2>3. Len(task_queue') = Len(task_queue) - 1
    BY <1>3, <1>12 DEF Take
  <2>4. Cardinality(Looking') = Cardinality(Looking) - 1
    BY <1>1, <2>2, Counted
  <2>5. QED BY <1>2, <1>4, <1>5, <2>1, <2>3, <2>4 DEF Enough
<1>13. ASSUME NEW t \in Threads, TaskDone(t) \/ Timeout(t) \/ Spurious(t), UNCHANGED caller PROVE Enough'
  <2>1. /\ Waiters' \subseteq Waiters /\ Looking \subseteq Looking' /\ Notifying' = Notifying
        /\ UNCHANGED <<task_queue, exit_flag>>
    BY <1>3, <1>13 DEF TaskDone, Timeout, Spurious, Unblock, Waiters, Looking, Notifying
  <2>2. Cardinality(Looking) <= Cardinality(Looking')
    BY <1>1, <2>1, Larger
  <2>3. QED BY <1>2, <1>4, <1>5, <2>1, <2>2 DEF Enough
<1>14. CASE UNCHANGED <<task_queue, exit_flag, pc, caller>>
  BY <1>5, <1>14 DEF Enough, Waiters, Looking, Notifying
<1>15. ASSUME NEW c \in Callers, NotifyExit(c) \/ \E i \in Ids : KillTimer(c, i)
       PROVE  Enough'
  BY <1>14, <1>15 DEF KillTimer, NotifyExit
<1>16. ~\E t \in Threads : Leave(t)
  BY DEF Leave
<1>17. QED
  BY <1>6, <1>7, <1>8, <1>9, <1>10, <1>11, <1>12, <1>13, <1>14, <1>15, <1>16
     DEF Next, Call, Notify, ThreadStep, SpuriousWake, Loop, Wake, TimerDone, Tick, vars

(***************************************************************************)
(* The last thread that goes to wait sees every timer, and a timer set     *)
(* later brings a notify, which wakes a thread as long as there is one.    *)
(***************************************************************************)
Watched == \A x \in timers : \E t \in Waiters : deadline[t] <= End(x) \/ deadline[t] <= now

LEMMA TimerIsWatchedStep ==
  ASSUME Threads # {}
  PROVE  TypeOK /\ DoneMeansExit /\ TimerIsWatched /\ [Next]_vars => TimerIsWatched'
<1> SUFFICES ASSUME TypeOK, DoneMeansExit, TimerIsWatched, [Next]_vars,
                    ~exit_flag', Awake' = {}, Notifying' = {}
             PROVE  Watched'
    BY DEF TimerIsWatched, Watched
<1>1. pc \in [Threads -> ThreadState] /\ caller \in [Callers -> {"out", "one", "all"}]
  BY DEF TypeOK
<1>2. Awake = {} /\ Notifying = {} /\ ~exit_flag => Watched
  BY DEF TimerIsWatched, Watched
<1>3. ASSUME NEW c \in Callers, NotifyOne(c) PROVE FALSE
  <2>1. CASE \E t \in Waiters : Unblock({t})
    <3>1. PICK t \in Waiters : Unblock({t})
      BY <2>1
    <3>2. pc'[t] = "woken" /\ t \in Threads
      BY <1>1, <3>1 DEF Unblock, Waiters
    <3>3. QED BY <3>2 DEF Awake
  <2>2. CASE Waiters = {} /\ Unblock({})
    <3>1. \A t \in Threads : pc'[t] = pc[t]
      BY <2>2 DEF Unblock
    <3>2. \A t \in Threads : pc[t] = "done"
      BY <2>2, <3>1 DEF Awake, Waiters
    <3>3. exit_flag /\ exit_flag' = exit_flag
      BY <2>2, <3>2 DEF DoneMeansExit, Unblock
    <3>4. QED BY <3>3
  <2>3. QED BY <1>3, <2>1, <2>2 DEF NotifyOne
<1>4. ASSUME NEW c \in Callers, NotifyAll(c) PROVE Watched'
  <2>1. \A t \in Threads : pc'[t] \in {"woken", "done"}
    BY <1>1, <1>4 DEF NotifyAll, Unblock, Waiters, Awake
  <2>2. \A t \in Threads : pc'[t] = "done" => pc[t] = "done"
    BY <1>4 DEF NotifyAll, Unblock
  <2>3. exit_flag \/ \E t \in Threads : pc'[t] = "woken"
    BY <2>1, <2>2 DEF DoneMeansExit
  <2>4. exit_flag' = exit_flag
    BY <1>4 DEF NotifyAll, Unblock
  <2>5. QED BY <2>3, <2>4 DEF Awake
<1>5. ASSUME NEW c \in Callers, Call(c) PROVE Watched'
  <2>1. CASE \E i \in Ids : KillTimer(c, i)
    <3>1. timers' \subseteq timers /\ UNCHANGED <<exit_flag, pc, deadline, caller, now>>
      BY <2>1 DEF KillTimer
    <3>2. Awake' = Awake /\ Notifying' = Notifying /\ Waiters' = Waiters
      BY <3>1 DEF Awake, Notifying, Waiters
    <3>3. QED BY <1>2, <3>1, <3>2 DEF Watched, End
  <2>2. CASE NotifyExit(c)
    BY <2>2 DEF NotifyExit
  <2>3. ASSUME \/ \E k \in Tasks : PostTask(c, k)
               \/ \E i \in Ids, e \in Elapses : SetTimer(c, i, e)
        PROVE  FALSE
    <3>1. caller'[c] = "one"
      BY <1>1, <2>3 DEF PostTask, SetTimer
    <3>2. QED BY <3>1 DEF Notifying
  <2>4. QED BY <1>5, <2>1, <2>2, <2>3 DEF Call
<1>6. ASSUME NEW t \in Threads, Rest(t), now' = now PROVE Watched'
  <2>1. t \in Waiters' /\ deadline'[t] = WaitUntil /\ timers' = timers
    BY <1>1, <1>6 DEF Rest, Waiters, TypeOK
  <2>2. QED BY <1>6, <2>1, WaitIsShort DEF Watched, End
<1>7. ASSUME NEW t \in Threads, FireTimer(t) \/ Take(t) \/ TaskDone(t) \/ Timeout(t) \/ Spurious(t)
      PROVE  FALSE
  <2>1. pc'[t] \in {"timer", "task", "top", "woken"}
    BY <1>1, <1>7 DEF FireTimer, Take, TaskDone, Timeout, Spurious, Unblock
  <2>2. QED BY <2>1 DEF Awake
<1>8. ASSUME NEW t \in Threads, Leave(t) PROVE FALSE
  BY <1>8 DEF Leave
<1>9. CASE UNCHANGED <<timers, exit_flag, pc, deadline, caller>> /\ (Tick \/ now' = now)
  <2>1. Awake' = Awake /\ Notifying' = Notifying /\ Waiters' = Waiters
    BY <1>9 DEF Awake, Notifying, Waiters
  <2>2. now \in Nat /\ now' \in Nat /\ now <= now'
    BY <1>9 DEF Tick, TypeOK
  <2>3. Watched
    BY <1>2, <1>9, <2>1
  <2>4. \A t \in Waiters : deadline[t] \in Nat
    BY DEF TypeOK, Waiters
  <2>5. QED BY <1>9, <2>1, <2>2, <2>3, <2>4 DEF Watched, End
<1>10. QED
  BY <1>3, <1>4, <1>5, <1>6, <1>7, <1>8, <1>9
     DEF Next, Notify, ThreadStep, SpuriousWake, Loop, Wake, TimerDone, Tick, vars

(***************************************************************************)
(* The inductive invariant.                                                *)
(***************************************************************************)
ThreadInv == TypeOK /\ DoneMeansExit /\ TaskHasThread

LEMMA ThreadInitial == Init => ThreadInv /\ TimerIsWatched
<1> SUFFICES ASSUME Init PROVE ThreadInv /\ TimerIsWatched
    OBVIOUS
<1>1. TypeOK
  <2>1. << >> \in Seq(Tasks) /\ pc \in [Threads -> ThreadState]
    BY DEF Init, ThreadState
  <2>2. deadline \in [Threads -> Nat] /\ now \in 0..MaxTime
    BY DEF Init
  <2>3. QED BY <2>1, <2>2 DEF Init, TypeOK
<1>2. DoneMeansExit /\ TaskHasThread /\ TimerIsWatched
  BY DEF Init, DoneMeansExit, TaskHasThread, TimerIsWatched, Waiters
<1>3. QED BY <1>1, <1>2 DEF ThreadInv

(***************************************************************************)
(* Every reachable state satisfies ThreadInv.                              *)
(***************************************************************************)
THEOREM ThreadInvariance == Spec => []ThreadInv
<1>1. ThreadInv /\ [Next]_vars => ThreadInv'
  BY ThreadTypeStep, DoneStep, TaskHasThreadStep DEF ThreadInv
<1>2. QED BY <1>1, ThreadInitial, PTL DEF Spec

(***************************************************************************)
(* Every state is of its type: the ids of the timers are distinct, and no  *)
(* timer starts in the future.                                             *)
(***************************************************************************)
THEOREM ThreadTypeCorrect == Spec => []TypeOK
<1>1. ThreadInv => TypeOK
  BY DEF ThreadInv
<1>2. QED BY <1>1, ThreadInvariance, PTL

(***************************************************************************)
(* While a thread waits, every queued task has a thread that comes for it, *)
(* or a caller about to notify: no wake-up is lost.                        *)
(***************************************************************************)
THEOREM NoTaskIsLeft == Spec => []TaskHasThread
<1>1. ThreadInv => TaskHasThread
  BY DEF ThreadInv
<1>2. QED BY <1>1, ThreadInvariance, PTL

(***************************************************************************)
(* While every thread waits, one of them wakes up in time for each timer.  *)
(***************************************************************************)
THEOREM TimersAreWatched ==
  ASSUME Threads # {}
  PROVE  Spec => []TimerIsWatched
<1>1. ThreadInv /\ TimerIsWatched /\ [Next]_vars => TimerIsWatched'
  BY TimerIsWatchedStep DEF ThreadInv
<1>2. QED BY <1>1, ThreadInitial, ThreadInvariance, PTL DEF Spec

(***************************************************************************)
(* A task is in one place: not posted, queued once, or on one thread.      *)
(***************************************************************************)
Busy == {t \in Threads : pc[t] = "task"}

OnePlace ==
  /\ \A i, j \in 1..Len(task_queue) : task_queue[i] = task_queue[j] => i = j
  /\ \A i \in 1..Len(task_queue) : task_queue[i] \notin unposted
  /\ \A i \in 1..Len(task_queue), t \in Busy : task_queue[i] # job[t]
  /\ \A t \in Busy : job[t] \in Tasks \ unposted
  /\ \A t, u \in Busy : job[t] = job[u] => t = u

LEMMA Appended ==
  ASSUME TypeOK, NEW k \in Tasks, task_queue' = Append(task_queue, k)
  PROVE  \A i \in 1..Len(task_queue') :
            \/ i \in 1..Len(task_queue) /\ task_queue'[i] = task_queue[i]
            \/ i = Len(task_queue) + 1 /\ task_queue'[i] = k
<1>1. task_queue \in Seq(Tasks)
  BY DEF TypeOK
<1>2. QED BY <1>1

LEMMA Taken ==
  ASSUME TypeOK, task_queue # << >>, task_queue' = Tail(task_queue)
  PROVE  /\ 1 \in 1..Len(task_queue) /\ Head(task_queue) = task_queue[1] /\ Head(task_queue) \in Tasks
         /\ \A i \in 1..Len(task_queue') :
              i + 1 \in 2..Len(task_queue) /\ task_queue'[i] = task_queue[i + 1]
<1>1. task_queue \in Seq(Tasks)
  BY DEF TypeOK
<1>2. QED BY <1>1

LEMMA OnePlaceStep == TypeOK /\ OnePlace /\ [Next]_vars => OnePlace'
<1> SUFFICES ASSUME TypeOK, OnePlace, [Next]_vars PROVE OnePlace'
    OBVIOUS
<1>1. /\ pc \in [Threads -> ThreadState] /\ job \in [Threads -> Tasks \cup {None}]
      /\ task_queue \in Seq(Tasks) /\ Len(task_queue) \in Nat
  BY DEF TypeOK
<1>2. CASE UNCHANGED <<task_queue, unposted, job>> /\ Busy' \subseteq Busy
  BY <1>2 DEF OnePlace
<1>3. ASSUME NEW c \in Callers, NEW k \in Tasks, PostTask(c, k) PROVE OnePlace'
  <2>1. /\ k \in unposted /\ unposted' = unposted \ {k} /\ task_queue' = Append(task_queue, k)
        /\ Busy' = Busy /\ job' = job
    BY <1>3 DEF PostTask, Busy
  <2>2. QED BY <1>1, <2>1, Appended DEF OnePlace
<1>4. ASSUME NEW t \in Threads, Take(t), unposted' = unposted PROVE OnePlace'
  <2>1. /\ task_queue # << >> /\ task_queue' = Tail(task_queue)
        /\ job'[t] = Head(task_queue) /\ \A u \in Threads \ {t} : job'[u] = job[u]
        /\ Busy' = Busy \cup {t}
    BY <1>1, <1>4 DEF Take, Busy
  <2> DEFINE q == task_queue
             Elsewhere == \A u \in Busy' \ {t} : u \in Busy /\ job'[u] = job[u]
  <2>2. Elsewhere
    BY <2>1 DEF Busy
  <2>3. /\ 1 \in 1..Len(q) /\ job'[t] = q[1] /\ q[1] \in Tasks
        /\ \A i \in 1..Len(q') : i + 1 \in 2..Len(q) /\ i + 1 \in 1..Len(q) /\ q'[i] = q[i + 1]
    BY <1>1, <2>1, Taken
  <2>4. \A i, j \in 1..Len(q') : q'[i] = q'[j] => i = j
    <3>1. TAKE i, j \in 1..Len(q')
    <3>2. q'[i] = q'[j] => i + 1 = j + 1
      BY <2>3 DEF OnePlace
    <3>3. QED BY <3>2
  <2>5. \A i \in 1..Len(q') : q'[i] \notin unposted'
    BY <1>4, <2>3 DEF OnePlace
  <2>6. \A i \in 1..Len(q') : q'[i] # job'[t]
    <3>1. TAKE i \in 1..Len(q')
    <3>2. i + 1 # 1 /\ i + 1 \in 1..Len(q)
      BY <2>3
    <3>3. QED BY <2>3, <3>2 DEF OnePlace
  <2>7. \A i \in 1..Len(q'), u \in Busy' \ {t} : q'[i] # job'[u]
    BY <2>2, <2>3 DEF OnePlace
  <2>8. \A u \in Busy' : job'[u] \in Tasks \ unposted'
    BY <1>4, <2>2, <2>3 DEF OnePlace
  <2>9. \A u, v \in Busy' : job'[u] = job'[v] => u = v
    BY <2>2, <2>3 DEF OnePlace
  <2>10. QED BY <2>4, <2>5, <2>6, <2>7, <2>8, <2>9 DEF OnePlace
<1>5. ASSUME NEW t \in Threads, TaskDone(t), unposted' = unposted PROVE OnePlace'
  <2>1. Busy' = Busy \ {t} /\ task_queue' = task_queue /\ \A u \in Busy' : job'[u] = job[u]
    BY <1>1, <1>5 DEF TaskDone, Busy
  <2>2. QED BY <1>5, <2>1 DEF OnePlace
<1>6. ASSUME NEW W, Unblock(W), unposted' = unposted PROVE OnePlace'
  BY <1>1, <1>2, <1>6 DEF Unblock, Busy
<1>7. ASSUME NEW t \in Threads, Rest(t) \/ FireTimer(t) \/ Leave(t), unposted' = unposted PROVE OnePlace'
  BY <1>1, <1>2, <1>7 DEF Rest, FireTimer, Leave, Busy
<1>8. ASSUME NEW c \in Callers, Call(c), ~\E k \in Tasks : PostTask(c, k) PROVE OnePlace'
  BY <1>2, <1>8 DEF Call, SetTimer, KillTimer, NotifyExit, Busy
<1>9. CASE Tick \/ UNCHANGED vars
  BY <1>2, <1>9 DEF Tick, vars, Busy
<1>10. QED
  BY <1>3, <1>4, <1>5, <1>6, <1>7, <1>8, <1>9 DEF Next, Call, Notify, NotifyOne, NotifyAll, ThreadStep,
     SpuriousWake, Loop, Wake, TimerDone, Timeout, Spurious

(***************************************************************************)
(* TaskThread implements WorkQueue: a post is a Submit, the start of a     *)
(* task a Start, its end a Finish, end() a Close; all else is a stutter.   *)
(***************************************************************************)
Jobs == {job[t] : t \in Busy}

LEMMA RoomForOne ==
  ASSUME NEW t \in Threads \ Busy
  PROVE  Cardinality(Jobs) < Cardinality(Threads)
<1>1. Busy \in SUBSET (Threads \ {t})
  BY DEF Busy
<1>2. IsFiniteSet(Threads \ {t}) /\ Cardinality(Threads \ {t}) = Cardinality(Threads) - 1
  BY FS_RemoveElement
<1>3. IsFiniteSet(Busy) /\ Cardinality(Busy) <= Cardinality(Threads \ {t})
  BY <1>1, <1>2, FS_Subset
<1>4. [u \in Busy |-> job[u]] \in Surjection(Busy, Jobs)
  BY DEF Jobs, Surjection
<1>5. IsFiniteSet(Jobs) /\ Cardinality(Jobs) <= Cardinality(Busy)
  BY <1>3, <1>4, FS_Surjection
<1>6. /\ Cardinality(Jobs) \in Nat /\ Cardinality(Busy) \in Nat /\ Cardinality(Threads) \in Nat
  BY <1>3, <1>5, FS_CardinalityType
<1>7. QED BY <1>2, <1>3, <1>5, <1>6

\* WorkQueue has its own instance of FiniteSets, with the same definition.
LEMMA SameCardinality ==
  ASSUME NEW S PROVE Queue!Cardinality(S) = Cardinality(S)
BY DEF Queue!Cardinality, Cardinality

LEMMA SameQueue ==
  ASSUME UNCHANGED <<task_queue, exit_flag, unposted>>, Busy' = Busy,
         \A t \in Busy : job'[t] = job[t]
  PROVE  UNCHANGED Queue!qvars
<1>1. Jobs' = Jobs
  BY DEF Jobs
<1>2. QED BY <1>1 DEF Queue!qvars, Jobs, Busy

LEMMA QueueStep == TypeOK /\ OnePlace /\ [Next]_vars => [Queue!QueueNext]_(Queue!qvars)
<1> SUFFICES ASSUME TypeOK, OnePlace, [Next]_vars PROVE Queue!QueueNext \/ UNCHANGED Queue!qvars
    OBVIOUS
<1>1. /\ pc \in [Threads -> ThreadState] /\ job \in [Threads -> Tasks \cup {None}]
  BY DEF TypeOK
<1>3. ASSUME NEW c \in Callers, NEW k \in Tasks, PostTask(c, k) PROVE Queue!QueueNext
  BY <1>3 DEF PostTask, Queue!QueueNext, Queue!Submit
<1>4. ASSUME NEW t \in Threads, Take(t), ~exit_flag, pc[t] # "task", unposted' = unposted
      PROVE  Queue!QueueNext
  <2>1. Busy' = Busy \cup {t} /\ t \notin Busy /\ job'[t] = Head(task_queue)
        /\ \A u \in Busy : job'[u] = job[u]
    BY <1>1, <1>4 DEF Take, Busy
  <2>2. Jobs' = Jobs \cup {Head(task_queue)}
    BY <2>1 DEF Jobs
  <2>3. Cardinality(Jobs) < Cardinality(Threads)
    BY <2>1, RoomForOne
  <2>4. /\ ~exit_flag /\ task_queue # << >> /\ task_queue' = Tail(task_queue)
        /\ unposted' = unposted /\ exit_flag' = exit_flag
    BY <1>4 DEF Take
  <2>5. Queue!Start
    BY <2>2, <2>3, <2>4, SameCardinality DEF Queue!Start, Jobs, Busy
  <2>6. QED BY <2>5 DEF Queue!QueueNext
<1>5. ASSUME NEW t \in Threads, TaskDone(t), unposted' = unposted PROVE Queue!QueueNext
  <2>1. t \in Busy /\ Busy' = Busy \ {t} /\ \A u \in Busy' : job'[u] = job[u]
    BY <1>1, <1>5 DEF TaskDone, Busy
  <2>2. Jobs' = Jobs \ {job[t]} /\ job[t] \in Jobs /\ job[t] \in Tasks
    BY <2>1 DEF Jobs, OnePlace
  <2>3. QED BY <1>5, <2>2 DEF TaskDone, Queue!QueueNext, Queue!Finish, Jobs, Busy
<1>6. ASSUME NEW c \in Callers, NotifyExit(c) PROVE Queue!QueueNext
  BY <1>6 DEF NotifyExit, Queue!QueueNext, Queue!Close
<1>7. ASSUME NEW W, Unblock(W), unposted' = unposted, \A t \in W : pc[t] = "waiting"
      PROVE  UNCHANGED Queue!qvars
  <2>1. UNCHANGED <<task_queue, exit_flag, unposted, job>> /\ Busy' = Busy
    BY <1>1, <1>7 DEF Unblock, Busy
  <2>2. QED BY <2>1, SameQueue
<1>8. ASSUME NEW t \in Threads, Rest(t) \/ FireTimer(t) \/ Leave(t), pc[t] # "task", unposted' = unposted
      PROVE  UNCHANGED Queue!qvars
  <2>1. UNCHANGED <<task_queue, exit_flag, unposted, job>> /\ Busy' = Busy
    BY <1>1, <1>8 DEF Rest, FireTimer, Leave, Busy
  <2>2. QED BY <2>1, SameQueue
<1>9. ASSUME NEW c \in Callers, NEW i \in Ids, KillTimer(c, i) \/ \E e \in Elapses : SetTimer(c, i, e)
      PROVE  UNCHANGED Queue!qvars
  <2>1. UNCHANGED <<task_queue, exit_flag, unposted, job>> /\ Busy' = Busy
    BY <1>9 DEF KillTimer, SetTimer, Busy
  <2>2. QED BY <2>1, SameQueue
<1>10. CASE Tick \/ UNCHANGED vars
  <2>1. UNCHANGED <<task_queue, exit_flag, unposted, job>> /\ Busy' = Busy
    BY <1>10 DEF Tick, vars, Busy
  <2>2. QED BY <2>1, SameQueue
<1>11. QED
  BY <1>3, <1>4, <1>5, <1>6, <1>7, <1>8, <1>9, <1>10 DEF Next, Call, Notify, NotifyOne, NotifyAll, Waiters,
     ThreadStep, SpuriousWake, Loop, Wake, TimerDone, Timeout, Spurious

(***************************************************************************)
(* Tasks start in the order in which they were posted, each once, as many  *)
(* at a time as there are threads, and none after end().                   *)
(***************************************************************************)
THEOREM QueueIsImplemented == Spec => ImplementsQueue
<1>1. Init => OnePlace /\ Queue!QueueInit
  BY DEF Init, OnePlace, Busy, Queue!QueueInit
<1>2. ThreadInv => TypeOK
  BY DEF ThreadInv
<1>3. QED
  BY <1>1, <1>2, OnePlaceStep, QueueStep, ThreadInvariance, PTL
     DEF Spec, ImplementsQueue, Queue!QueueSpec
=============================================================================
