----------------------------- MODULE TaskService -----------------------------
(***************************************************************************)
(* What the algorithm server promises about a task, seen from the broker:  *)
(* a request is queued, then refused ("overflow"), or accepted by a pool   *)
(* of at most Capacity tasks; an accepted task is answered once ("done"),  *)
(* or given up: no answer, or one "error crash" answer for every death of  *)
(* the worker it was last given to.  ProcessPool implements it.            *)
(***************************************************************************)
EXTENDS Naturals, Sequences, FiniteSets

CONSTANTS Tasks,      \* requests, each sent once
          Saved,      \* those of Tasks found unfinished on disk at start
          Capacity    \* how many tasks the service works on at once

VARIABLES status,     \* where each task is
          answers     \* the answers published for each task, in order

svars == <<status, answers>>

Status == {"unsent", "saved", "queued", "held", "closed"}
Answer == {"overflow", "done", "crash"}

ServiceTypeOK == /\ status  \in [Tasks -> Status]
                 /\ answers \in [Tasks -> Seq(Answer)]

ServiceInit == /\ status  = [t \in Tasks |-> IF t \in Saved THEN "saved" ELSE "unsent"]
               /\ answers = [t \in Tasks |-> << >>]

Holding == {t \in Tasks : status[t] = "held"}

(***************************************************************************)
(* The environment sends t.                                                *)
(***************************************************************************)
Submit(t) == /\ status[t] = "unsent"
             /\ status' = [status EXCEPT ![t] = "queued"]
             /\ UNCHANGED answers

(***************************************************************************)
(* The service accepts t, or refuses it.                                   *)
(***************************************************************************)
Accept(t) == /\ status[t] \in {"saved", "queued"}
             /\ Cardinality(Holding) < Capacity
             /\ status' = [status EXCEPT ![t] = "held"]
             /\ UNCHANGED answers

Refuse(t) == /\ status[t] = "queued"
             /\ status'  = [status EXCEPT ![t] = "closed"]
             /\ answers' = [answers EXCEPT ![t] = Append(@, "overflow")]

(***************************************************************************)
(* The service answers t.                                                  *)
(***************************************************************************)
Finish(t) == /\ status[t] = "held"
             /\ status'  = [status EXCEPT ![t] = "closed"]
             /\ answers' = [answers EXCEPT ![t] = Append(@, "done")]

(***************************************************************************)
(* The service hands a queued task to a worker that is already dead: the   *)
(* task is closed without an answer.                                       *)
(***************************************************************************)
Misplace(t) == /\ status[t] \in {"saved", "queued"}
               /\ status' = [status EXCEPT ![t] = "closed"]
               /\ UNCHANGED answers

(***************************************************************************)
(* The service gives up the tasks of D and reports a crash for those of C, *)
(* which it accepted at some time and holds no longer.                     *)
(***************************************************************************)
GiveUp(D, C) ==
  /\ D \subseteq Holding
  /\ C \subseteq D \cup {t \in Tasks : status[t] = "closed" /\ answers[t] # <<"overflow">>}
  /\ status'  = [t \in Tasks |-> IF t \in D THEN "closed" ELSE status[t]]
  /\ answers' = [t \in Tasks |-> IF t \in C THEN Append(answers[t], "crash") ELSE answers[t]]

ServiceNext == \/ \E t \in Tasks : \/ Submit(t) \/ Accept(t) \/ Refuse(t)
                                   \/ Finish(t) \/ Misplace(t)
               \/ \E D, C \in SUBSET Tasks : GiveUp(D, C)

ServiceSpec == ServiceInit /\ [][ServiceNext]_svars
=============================================================================
