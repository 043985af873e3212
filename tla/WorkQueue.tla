------------------------------ MODULE WorkQueue ------------------------------
(***************************************************************************)
(* What a pool of Capacity threads promises: tasks start in the order in   *)
(* which they were submitted, each once, at most Capacity at a time, and   *)
(* none starts once the pool is closed.  TaskThread implements it.         *)
(***************************************************************************)
EXTENDS Naturals, Sequences, FiniteSets

CONSTANTS Tasks, Capacity

VARIABLES fresh,      \* tasks not submitted yet
          pending,    \* submitted, in order, not started
          running,    \* started, not finished
          closed      \* nothing starts any more

qvars == <<fresh, pending, running, closed>>

QueueInit == /\ fresh   = Tasks
             /\ pending = << >>
             /\ running = {}
             /\ closed  = FALSE

Submit(k) == /\ k \in fresh
             /\ fresh'   = fresh \ {k}
             /\ pending' = Append(pending, k)
             /\ UNCHANGED <<running, closed>>

Start == /\ ~closed
         /\ pending # << >>
         /\ Cardinality(running) < Capacity
         /\ running' = running \cup {Head(pending)}
         /\ pending' = Tail(pending)
         /\ UNCHANGED <<fresh, closed>>

Finish(k) == /\ k \in running
             /\ running' = running \ {k}
             /\ UNCHANGED <<fresh, pending, closed>>

Close == /\ ~closed
         /\ closed' = TRUE
         /\ UNCHANGED <<fresh, pending, running>>

QueueNext == \/ \E k \in Tasks : Submit(k) \/ Finish(k)
             \/ Start
             \/ Close

QueueSpec == QueueInit /\ [][QueueNext]_qvars
=============================================================================
