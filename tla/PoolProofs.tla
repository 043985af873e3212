----------------------------- MODULE PoolProofs -----------------------------
(***************************************************************************)
(* TLAPS proofs about the process pool, for every number of workers and    *)
(* tasks and every fault bound.                                            *)
(***************************************************************************)
EXTENDS PoolProperties, FiniteSetTheorems, SequenceTheorems, TLAPS

USE DEF envVars, loadVars, parentVars, slotVars, childVars

(***************************************************************************)
(* A sequence of at least two items has a tail that is not empty.          *)
(***************************************************************************)
LEMMA LongTail ==
  ASSUME NEW S, NEW s \in Seq(S), Len(s) >= 2
  PROVE  Tail(s) # << >>
<1>1. Len(s) \in Nat /\ s # << >> /\ Len(<< >>) = 0
  OBVIOUS
<1>2. Len(Tail(s)) = Len(s) - 1
  BY <1>1
<1>3. \A n \in Nat : n >= 2 => n - 1 # 0
  OBVIOUS
<1>4. QED BY <1>1, <1>2, <1>3, Zenon

(***************************************************************************)
(* A function on the slots whose value at one slot is replaced, or not,    *)
(* keeps its type.                                                         *)
(***************************************************************************)
LEMMA SetSlot ==
  ASSUME NEW S, NEW f \in [Workers -> S], NEW w \in Workers, NEW x \in S, NEW g,
         g = f \/ g = [f EXCEPT ![w] = x]
  PROVE  g \in [Workers -> S]
OBVIOUS

(***************************************************************************)
(* The types of what the shared parts of the handlers change.              *)
(***************************************************************************)
LEMMA CloseType ==
  ASSUME TypeOK, NEW w \in Workers, NEW how \in ChildState, Close(w, how)
  PROVE  /\ child' \in [Workers -> ChildState] /\ held' \in [Workers -> Tasks \cup {None}]
         /\ down' \in [Workers -> Seq(Tasks)] /\ ready' \subseteq Fds
         /\ csigs' \in [Workers -> SUBSET {"HUP", "INT", "TERM"}]
         /\ cready' \in [Workers -> SUBSET {"pipe", "sig"}]
         /\ cbatch' \in [Workers -> SUBSET {"pipe", "sig"}]
         /\ cstop' \in [Workers -> BOOLEAN]
<1>1. << >> \in Seq(Tasks)
  OBVIOUS
<1>2. QED
  BY <1>1 DEF TypeOK, Close, Fds

(***************************************************************************)
(* What handing a request to a slot changes keeps its type, and nothing    *)
(* else changes.                                                           *)
(***************************************************************************)
LEMMA DispatchType ==
  ASSUME TypeOK, NEW t \in Tasks, NEW w \in Workers, Dispatch(t, w)
  PROVE  /\ busy' \in [Workers -> BOOLEAN] /\ record' \in [Workers -> Tasks \cup {None}]
         /\ down' \in [Workers -> Seq(Tasks)] /\ sigs' \subseteq Signals
         /\ cready' \in [Workers -> SUBSET {"pipe", "sig"}] /\ ready' \subseteq Fds
         /\ UNCHANGED <<pid, up, child, held, csigs, cbatch, cstop, spin, stop>>
<1>1. busy' \in [Workers -> BOOLEAN] /\ record' \in [Workers -> Tasks \cup {None}]
  BY DEF TypeOK, Dispatch
<1>2. CASE Alive(w)
  <2>1. Append(down[w], t) \in Seq(Tasks)
    BY DEF TypeOK
  <2>2. down' = [down EXCEPT ![w] = Append(@, t)] /\ UNCHANGED <<sigs, ready>>
        /\ cready' = [cready EXCEPT ![w] = @ \cup {"pipe"}]
    BY <1>2 DEF Dispatch
  <2>3. QED BY <1>1, <2>1, <2>2 DEF TypeOK, Dispatch
<1>3. CASE ~Alive(w)
  <2>1. sigs' = sigs \cup {"PIPE"} /\ ready' = ready \cup SignalMark("PIPE")
        /\ UNCHANGED <<down, cready>>
    BY <1>3 DEF Dispatch
  <2>2. QED BY <1>1, <2>1 DEF TypeOK, Dispatch, SignalMark, Signals, Fds
<1>4. QED BY <1>2, <1>3

(***************************************************************************)
(* Types: handlers read the head of a pipe, which MarksBacked shows not to *)
(* be empty.                                                               *)
(***************************************************************************)
LEMMA TypeStep == TypeOK /\ MarksBacked /\ SlotShape /\ [Next]_vars => TypeOK'
<1> SUFFICES ASSUME TypeOK, MarksBacked, SlotShape, [Next]_vars PROVE TypeOK'
    OBVIOUS
<1> USE PoolAssumption DEF Fds, Signals, Odd, ChildState, Answer
<1>1. ASSUME NEW t \in Tasks, Arrive(t) PROVE TypeOK'
  BY <1>1 DEF TypeOK, Arrive
<1>2. ASSUME NEW s \in Outside, OutsideSignal(s) PROVE TypeOK'
  BY <1>2 DEF TypeOK, OutsideSignal, SignalChildren, ChildMark, SignalMark
<1>3. ASSUME NEW w \in Workers, Crash(w) PROVE TypeOK'
  <2>1. Append(up[w], "half") \in Seq(Tasks \cup Odd)
    BY DEF TypeOK
  <2>2. up' = up \/ up' = [up EXCEPT ![w] = Append(up[w], "half")]
    BY <1>3 DEF Crash
  <2>3. Close(w, "crashing")
    BY <1>3 DEF Crash
  <2>4. up' \in [Workers -> Seq(Tasks \cup Odd)]
    <3>1. up \in [Workers -> Seq(Tasks \cup Odd)]
      BY DEF TypeOK
    <3>2. QED BY <2>1, <2>2, <3>1, SetSlot
  <2>5. QED BY <1>3, <2>3, <2>4, CloseType DEF TypeOK, Crash
<1>4. ASSUME NEW w \in Workers, Announce(w) PROVE TypeOK'
  BY <1>4 DEF TypeOK, Announce, SignalMark
<1>5. ASSUME NEW w \in Workers, ChildEpollWait(w) PROVE TypeOK'
  BY <1>5 DEF TypeOK, ChildEpollWait
<1>6. ASSUME NEW w \in Workers, ChildRead(w) PROVE TypeOK'
  BY <1>6 DEF TypeOK, ChildRead, InLoop, MarksBacked, PipeMarks
<1>7. ASSUME NEW w \in Workers, ChildFinish(w) PROVE TypeOK'
  <2>1. held[w] \in Tasks \cup Odd
    BY <1>7 DEF TypeOK, SlotShape, SlotOK, SlotStage, ChildFinish
  <2>2. PICK reply \in Tasks \cup Odd : up' = [up EXCEPT ![w] = Append(@, reply)]
    BY <1>7, <2>1 DEF ChildFinish
  <2>3. up' \in [Workers -> Seq(Tasks \cup Odd)]
    BY <2>2 DEF TypeOK
  <2>4. UNCHANGED <<envVars, loadVars, mq, sigs, batch, spin, stop, slotVars, down, csigs,
                 cready, cbatch, cstop, answers>>
        /\ ready' = ready \cup {w} /\ child' = [child EXCEPT ![w] = "loop"]
        /\ held' = [held EXCEPT ![w] = None]
    BY <1>7 DEF ChildFinish
  <2>5. child' \in [Workers -> ChildState] /\ held' \in [Workers -> Tasks \cup {None}]
    BY <2>4 DEF TypeOK
  <2>6. ready' \subseteq Fds
    BY <2>4, ZenonT(60) DEF TypeOK
  <2>7. QED BY <2>3, <2>4, <2>5, <2>6 DEF TypeOK
<1>8. ASSUME NEW w \in Workers, ChildSignal(w) PROVE TypeOK'
  BY <1>8 DEF TypeOK, ChildSignal
<1>9. ASSUME NEW w \in Workers, ChildExit(w) PROVE TypeOK'
  BY <1>9, CloseType DEF TypeOK, ChildExit
<1>10. ASSUME NEW w \in Workers, NEW t \in Tasks, LoadTask(t, w) PROVE TypeOK'
  BY <1>10, DispatchType, SMTT(60) DEF TypeOK, LoadTask
<1>11. ASSUME LoadEnd PROVE TypeOK'
  BY <1>11 DEF TypeOK, LoadEnd
<1>12. ASSUME EpollWait PROVE TypeOK'
  BY <1>12 DEF TypeOK, EpollWait
<1>13. ASSUME NEW w \in Workers, AcceptRequest(w) PROVE TypeOK'
  <2>1. mq # << >> /\ Head(mq) \in Tasks /\ Tail(mq) \in Seq(Tasks)
    BY <1>13 DEF TypeOK, AcceptRequest, Take, MarksBacked, MqMarks
  <2>2. QED BY <1>13, <2>1, DispatchType, SMTT(60) DEF TypeOK, AcceptRequest, Take
<1>14. ASSUME RefuseRequest PROVE TypeOK'
  BY <1>14 DEF TypeOK, RefuseRequest, Take, MarksBacked, MqMarks
<1>15. ASSUME IgnoreSignal PROVE TypeOK'
  BY <1>15 DEF TypeOK, IgnoreSignal, ReadSignal, Take
<1>16. ASSUME KillChildren PROVE TypeOK'
  BY <1>16 DEF TypeOK, KillChildren, ReadSignal, Take, SignalChildren, ChildMark
<1>17. ASSUME ReapChildren PROVE TypeOK'
  <2> DEFINE killed == {v \in Zombies : child[v] = "killed"}
  <2>1. PICK F \in SUBSET killed, K \in SUBSET Zombies :
          /\ faults'  = faults + Cardinality(F)
          /\ pid'     = [v \in Workers |-> pid[v] /\ v \notin Zombies \ (killed \ F)]
          /\ child'   = [v \in Workers |-> IF v \in killed \ F THEN "loop"
                                           ELSE IF v \in Zombies THEN "gone" ELSE child[v]]
          /\ up'      = [v \in Workers |-> IF v \in Zombies THEN << >> ELSE up[v]]
          /\ ready'   = ready \ (Zombies \ K)
          /\ answers' = [t \in Tasks |-> IF \E v \in killed \ F : record[v] = t
                                         THEN Append(answers[t], "crash") ELSE answers[t]]
          /\ stop'    = \A v \in Workers : ~pid'[v]
    BY <1>17 DEF ReapChildren, CrashReport, AllGone
  <2>2. faults' \in Nat
    <3>1. F \subseteq Workers
      BY DEF Zombies
    <3>2. Cardinality(F) \in Nat
      BY <3>1, FS_Subset, FS_CardinalityType
    <3>3. QED BY <2>1, <3>2 DEF TypeOK
  <2>3. child' \in [Workers -> ChildState] /\ pid' \in [Workers -> BOOLEAN]
    BY <2>1 DEF TypeOK
  <2>4. up' \in [Workers -> Seq(Tasks \cup Odd)]
    BY <2>1 DEF TypeOK
  <2>5. answers' \in [Tasks -> Seq(Answer)]
    BY <2>1 DEF TypeOK
  <2>6. stop' \in BOOLEAN /\ ready' \subseteq Fds
    BY <2>1 DEF TypeOK
  <2>7. /\ sigs' \subseteq Signals /\ batch' \subseteq Fds
        /\ UNCHANGED <<unsent, sent, loadVars, mq, spin, busy, record, down, held, csigs,
                      cready, cbatch, cstop>>
    BY <1>17 DEF TypeOK, ReapChildren, ReadSignal, Take
  <2>8. QED BY <2>2, <2>3, <2>4, <2>5, <2>6, <2>7 DEF TypeOK
<1>18. ASSUME NEW w \in Workers, HandlePipe(w) PROVE TypeOK'
  <2>1. CASE PublishReply(w) BY <2>1 DEF TypeOK, PublishReply, Take, NextReply
  <2>2. CASE DropReply(w)
    <3>1. Tail(up[w]) \in Seq(Tasks \cup Odd)
      BY <2>2 DEF TypeOK, DropReply
    <3>2. up' = up \/ up' = [up EXCEPT ![w] = Tail(up[w])]
      BY <2>2 DEF DropReply, NextReply
    <3>3. up' \in [Workers -> Seq(Tasks \cup Odd)]
      <4>1. up \in [Workers -> Seq(Tasks \cup Odd)]
        BY DEF TypeOK
      <4>2. QED BY <3>1, <3>2, <4>1, SetSlot
    <3>4. QED BY <2>2, <3>3 DEF TypeOK, DropReply, Take
  <2>3. CASE TornReply(w)    BY <2>3 DEF TypeOK, TornReply, Take, NextReply
  <2>4. CASE ReadNothing(w)
    <3>1. busy' = busy \/ busy' = [busy EXCEPT ![w] = FALSE]
      BY <2>4 DEF ReadNothing
    <3>2. spin' = spin \/ spin' = w
      BY <2>4 DEF ReadNothing
    <3>3. busy' \in [Workers -> BOOLEAN] /\ spin' \in Workers \cup {None}
      <4>1. busy \in [Workers -> BOOLEAN] /\ spin \in Workers \cup {None}
        BY DEF TypeOK
      <4>2. QED BY <3>1, <3>2, <4>1, SetSlot
    <3>4. QED BY <2>4, <3>3 DEF TypeOK, ReadNothing, Take
  <2>5. CASE SpinEnds(w)
    <3>1. << >> \in Seq(Tasks \cup Odd) /\ <<"junk">> \in Seq(Tasks \cup Odd)
      OBVIOUS
    <3>2. up' = up \/ up' = [up EXCEPT ![w] = << >>] \/ up' = [up EXCEPT ![w] = <<"junk">>]
      BY <2>5 DEF SpinEnds
    <3>3. up' \in [Workers -> Seq(Tasks \cup Odd)]
      <4>1. up \in [Workers -> Seq(Tasks \cup Odd)]
        BY DEF TypeOK
      <4>2. QED BY <3>1, <3>2, <4>1, SetSlot
    <3>4. QED BY <2>5, <3>3 DEF TypeOK, SpinEnds
  <2>6. QED BY <1>18, <2>1, <2>2, <2>3, <2>4, <2>5 DEF HandlePipe
<1>19. CASE UNCHANGED vars
  BY <1>19 DEF TypeOK, vars
<1>20. QED
  BY <1>1, <1>2, <1>3, <1>4, <1>5, <1>6, <1>7, <1>8, <1>9, <1>10, <1>11, <1>12, <1>13,
     <1>14, <1>15, <1>16, <1>17, <1>18, <1>19 DEF Next, ParentStep, ChildStep

(***************************************************************************)
(* Every mark of sig_mqfd has its own request: only Arrive sets one, and   *)
(* every event of the batch takes one request away.                        *)
(***************************************************************************)
LEMMA MqStep == TypeOK /\ MqMarks /\ [Next]_vars => MqMarks'
<1> SUFFICES ASSUME TypeOK, MqMarks, [Next]_vars PROVE MqMarks'
    OBVIOUS
<1> USE PoolAssumption
<1>1. ASSUME NEW t \in Tasks, Arrive(t) PROVE MqMarks'
  BY <1>1 DEF TypeOK, MqMarks, Arrive
<1>2. ASSUME NEW s \in Outside, OutsideSignal(s) PROVE MqMarks'
  BY <1>2 DEF TypeOK, MqMarks, OutsideSignal, SignalMark
<1>3. ASSUME NEW w \in Workers, Crash(w) PROVE MqMarks'
  BY <1>3 DEF TypeOK, MqMarks, Crash, Close
<1>4. ASSUME NEW w \in Workers, Announce(w) PROVE MqMarks'
  BY <1>4 DEF TypeOK, MqMarks, Announce, SignalMark
<1>5. ASSUME NEW w \in Workers, ChildEpollWait(w) PROVE MqMarks'
  BY <1>5 DEF TypeOK, MqMarks, ChildEpollWait
<1>6. ASSUME NEW w \in Workers, ChildRead(w) PROVE MqMarks'
  BY <1>6 DEF TypeOK, MqMarks, ChildRead, InLoop
<1>7. ASSUME NEW w \in Workers, ChildFinish(w) PROVE MqMarks'
  BY <1>7 DEF TypeOK, MqMarks, ChildFinish
<1>8. ASSUME NEW w \in Workers, ChildSignal(w) PROVE MqMarks'
  BY <1>8 DEF TypeOK, MqMarks, ChildSignal, InLoop
<1>9. ASSUME NEW w \in Workers, ChildExit(w) PROVE MqMarks'
  BY <1>9 DEF TypeOK, MqMarks, ChildExit, InLoop, Close
<1>10. ASSUME NEW w \in Workers, NEW t \in Tasks, LoadTask(t, w) PROVE MqMarks'
  BY <1>10 DEF TypeOK, MqMarks, LoadTask, Dispatch, SignalMark
<1>11. ASSUME LoadEnd PROVE MqMarks'
  BY <1>11 DEF TypeOK, MqMarks, LoadEnd
<1>12. ASSUME EpollWait PROVE MqMarks'
  BY <1>12 DEF TypeOK, MqMarks, EpollWait
<1>13. ASSUME NEW w \in Workers, AcceptRequest(w) PROVE MqMarks'
  <2>1. mq \in Seq(Tasks) /\ mq # << >>
    BY <1>13 DEF TypeOK, MqMarks, AcceptRequest, Take
  <2>2. "mq" \in ready => Len(mq) >= 2
    BY <1>13 DEF MqMarks, AcceptRequest, Take
  <2>3. mq' = Tail(mq) /\ "mq" \notin batch' /\ ("mq" \in ready' => "mq" \in ready)
    BY <1>13 DEF AcceptRequest, Take, Dispatch, SignalMark
  <2>4. Len(Tail(mq)) = Len(mq) - 1 /\ Len(mq) \in Nat
    BY <2>1
  <2>5. "mq" \in ready => Tail(mq) # << >>
    BY <2>1, <2>2, LongTail
  <2>6. QED BY <2>3, <2>5 DEF MqMarks
<1>14. ASSUME RefuseRequest PROVE MqMarks'
  <2>1. mq \in Seq(Tasks) /\ mq # << >>
    BY <1>14 DEF TypeOK, MqMarks, RefuseRequest, Take
  <2>2. "mq" \in ready => Len(mq) >= 2
    BY <1>14 DEF MqMarks, RefuseRequest, Take
  <2>3. mq' = Tail(mq) /\ "mq" \notin batch' /\ ("mq" \in ready' => "mq" \in ready)
    BY <1>14 DEF RefuseRequest, Take
  <2>4. Len(Tail(mq)) = Len(mq) - 1 /\ Len(mq) \in Nat
    BY <2>1
  <2>5. "mq" \in ready => Tail(mq) # << >>
    BY <2>1, <2>2, LongTail
  <2>6. QED BY <2>3, <2>5 DEF MqMarks
<1>15. ASSUME IgnoreSignal PROVE MqMarks'
  BY <1>15 DEF TypeOK, MqMarks, IgnoreSignal, ReadSignal, Take
<1>16. ASSUME KillChildren PROVE MqMarks'
  BY <1>16 DEF TypeOK, MqMarks, KillChildren, ReadSignal, Take
<1>17. ASSUME ReapChildren PROVE MqMarks'
  BY <1>17 DEF TypeOK, MqMarks, ReapChildren, ReadSignal, Take
<1>18. ASSUME NEW w \in Workers, HandlePipe(w) PROVE MqMarks'
  BY <1>18 DEF TypeOK, MqMarks, HandlePipe, PublishReply, DropReply, TornReply, ReadNothing,
        SpinEnds, Take
<1>19. CASE UNCHANGED vars
  BY <1>19 DEF TypeOK, MqMarks, vars
<1>20. QED
  BY <1>1, <1>2, <1>3, <1>4, <1>5, <1>6, <1>7, <1>8, <1>9, <1>10,
     <1>11, <1>12, <1>13, <1>14, <1>15, <1>16, <1>17, <1>18, <1>19
  DEF Next, ParentStep, ChildStep

(***************************************************************************)
(* Every mark of the signalfd has its own pending signal: a signal that is *)
(* already pending sets none.                                              *)
(***************************************************************************)
LEMMA SigStep == TypeOK /\ SigMarks /\ [Next]_vars => SigMarks'
<1> SUFFICES ASSUME TypeOK, SigMarks, [Next]_vars PROVE SigMarks'
    OBVIOUS
<1> USE PoolAssumption
<1>1. ASSUME NEW t \in Tasks, Arrive(t) PROVE SigMarks'
  BY <1>1 DEF TypeOK, SigMarks, Arrive
<1>2. ASSUME NEW s \in Outside, OutsideSignal(s) PROVE SigMarks'
  BY <1>2 DEF TypeOK, SigMarks, OutsideSignal, SignalMark
<1>3. ASSUME NEW w \in Workers, Crash(w) PROVE SigMarks'
  BY <1>3 DEF TypeOK, SigMarks, Crash, Close
<1>4. ASSUME NEW w \in Workers, Announce(w) PROVE SigMarks'
  BY <1>4 DEF TypeOK, SigMarks, Announce, SignalMark
<1>5. ASSUME NEW w \in Workers, ChildEpollWait(w) PROVE SigMarks'
  BY <1>5 DEF TypeOK, SigMarks, ChildEpollWait
<1>6. ASSUME NEW w \in Workers, ChildRead(w) PROVE SigMarks'
  BY <1>6 DEF TypeOK, SigMarks, ChildRead, InLoop
<1>7. ASSUME NEW w \in Workers, ChildFinish(w) PROVE SigMarks'
  BY <1>7 DEF TypeOK, SigMarks, ChildFinish
<1>8. ASSUME NEW w \in Workers, ChildSignal(w) PROVE SigMarks'
  BY <1>8 DEF TypeOK, SigMarks, ChildSignal, InLoop
<1>9. ASSUME NEW w \in Workers, ChildExit(w) PROVE SigMarks'
  BY <1>9 DEF TypeOK, SigMarks, ChildExit, InLoop, Close
<1>10. ASSUME NEW w \in Workers, NEW t \in Tasks, LoadTask(t, w) PROVE SigMarks'
  BY <1>10 DEF TypeOK, SigMarks, LoadTask, Dispatch, SignalMark
<1>11. ASSUME LoadEnd PROVE SigMarks'
  BY <1>11 DEF TypeOK, SigMarks, LoadEnd
<1>12. ASSUME EpollWait PROVE SigMarks'
  BY <1>12 DEF TypeOK, SigMarks, EpollWait
<1>13. ASSUME NEW w \in Workers, AcceptRequest(w) PROVE SigMarks'
  BY <1>13 DEF TypeOK, SigMarks, AcceptRequest, Take, Dispatch, SignalMark
<1>14. ASSUME RefuseRequest PROVE SigMarks'
  BY <1>14 DEF TypeOK, SigMarks, RefuseRequest, Take
<1>15. ASSUME IgnoreSignal PROVE SigMarks'
  BY <1>15 DEF TypeOK, SigMarks, IgnoreSignal, ReadSignal, Take
<1>16. ASSUME KillChildren PROVE SigMarks'
  BY <1>16 DEF TypeOK, SigMarks, KillChildren, ReadSignal, Take
<1>17. ASSUME ReapChildren PROVE SigMarks'
  BY <1>17 DEF TypeOK, SigMarks, ReapChildren, ReadSignal, Take
<1>18. ASSUME NEW w \in Workers, HandlePipe(w) PROVE SigMarks'
  BY <1>18 DEF TypeOK, SigMarks, HandlePipe, PublishReply, DropReply, TornReply, ReadNothing,
        SpinEnds, Take
<1>19. CASE UNCHANGED vars
  BY <1>19 DEF TypeOK, SigMarks, vars
<1>20. QED
  BY <1>1, <1>2, <1>3, <1>4, <1>5, <1>6, <1>7, <1>8, <1>9, <1>10,
     <1>11, <1>12, <1>13, <1>14, <1>15, <1>16, <1>17, <1>18, <1>19
  DEF Next, ParentStep, ChildStep

(***************************************************************************)
(* Every mark of a worker's pipe has its own request: a request is sent to *)
(* a slot that is not busy, whose pipe is empty.                           *)
(***************************************************************************)
LEMMA PipeStep == TypeOK /\ SlotShape /\ PipeMarks /\ [Next]_vars => PipeMarks'
<1> SUFFICES ASSUME TypeOK, SlotShape, PipeMarks, [Next]_vars PROVE PipeMarks'
    OBVIOUS
<1> USE PoolAssumption
<1>1. ASSUME NEW t \in Tasks, Arrive(t) PROVE PipeMarks'
  BY <1>1 DEF TypeOK, PipeMarks, Arrive
<1>2. ASSUME NEW s \in Outside, OutsideSignal(s) PROVE PipeMarks'
  BY <1>2 DEF TypeOK, PipeMarks, OutsideSignal, SignalMark, SignalChildren, ChildMark, Alive
<1>3. ASSUME NEW w \in Workers, Crash(w) PROVE PipeMarks'
  BY <1>3 DEF TypeOK, PipeMarks, Crash, Close
<1>4. ASSUME NEW w \in Workers, Announce(w) PROVE PipeMarks'
  BY <1>4 DEF TypeOK, PipeMarks, Announce, SignalMark
<1>5. ASSUME NEW w \in Workers, ChildEpollWait(w) PROVE PipeMarks'
  BY <1>5 DEF TypeOK, PipeMarks, ChildEpollWait
<1>6. ASSUME NEW w \in Workers, ChildRead(w) PROVE PipeMarks'
  BY <1>6 DEF TypeOK, SlotShape, SlotOK, SlotStage, PipeMarks, ChildRead, InLoop
<1>7. ASSUME NEW w \in Workers, ChildFinish(w) PROVE PipeMarks'
  BY <1>7 DEF TypeOK, PipeMarks, ChildFinish
<1>8. ASSUME NEW w \in Workers, ChildSignal(w) PROVE PipeMarks'
  BY <1>8 DEF TypeOK, PipeMarks, ChildSignal, InLoop
<1>9. ASSUME NEW w \in Workers, ChildExit(w) PROVE PipeMarks'
  BY <1>9 DEF TypeOK, PipeMarks, ChildExit, InLoop, Close
<1>10. ASSUME NEW w \in Workers, NEW t \in Tasks, LoadTask(t, w) PROVE PipeMarks'
  <2>1. ~busy[w] /\ Dispatch(t, w)
    BY <1>10 DEF LoadTask, FreeSlots
  <2>2. "pipe" \notin cready[w] \cup cbatch[w]
    BY <2>1 DEF SlotShape, SlotOK, SlotStage, PipeMarks
  <2>3. QED BY <2>1, <2>2, SMTT(60) DEF TypeOK, PipeMarks, Dispatch
<1>11. ASSUME LoadEnd PROVE PipeMarks'
  BY <1>11 DEF TypeOK, PipeMarks, LoadEnd
<1>12. ASSUME EpollWait PROVE PipeMarks'
  BY <1>12 DEF TypeOK, PipeMarks, EpollWait
<1>13. ASSUME NEW w \in Workers, AcceptRequest(w) PROVE PipeMarks'
  <2>1. ~busy[w] /\ Dispatch(Head(mq), w)
    BY <1>13 DEF AcceptRequest, FreeSlots
  <2>2. "pipe" \notin cready[w] \cup cbatch[w]
    BY <2>1 DEF SlotShape, SlotOK, SlotStage, PipeMarks
  <2>3. QED BY <2>1, <2>2 DEF TypeOK, PipeMarks, Dispatch
<1>14. ASSUME RefuseRequest PROVE PipeMarks'
  BY <1>14 DEF TypeOK, PipeMarks, RefuseRequest, Take
<1>15. ASSUME IgnoreSignal PROVE PipeMarks'
  BY <1>15 DEF TypeOK, PipeMarks, IgnoreSignal, ReadSignal, Take
<1>16. ASSUME KillChildren PROVE PipeMarks'
  BY <1>16 DEF TypeOK, PipeMarks, KillChildren, ReadSignal, Take, SignalChildren, ChildMark, Alive
<1>17. ASSUME ReapChildren PROVE PipeMarks'
  BY <1>17 DEF TypeOK, PipeMarks, ReapChildren, ReadSignal, Take
<1>18. ASSUME NEW w \in Workers, HandlePipe(w) PROVE PipeMarks'
  BY <1>18 DEF TypeOK, PipeMarks, HandlePipe, PublishReply, DropReply, TornReply, ReadNothing,
        SpinEnds, Take, NextReply
<1>19. CASE UNCHANGED vars
  BY <1>19 DEF TypeOK, PipeMarks, vars
<1>20. QED
  BY <1>1, <1>2, <1>3, <1>4, <1>5, <1>6, <1>7, <1>8, <1>9, <1>10,
     <1>11, <1>12, <1>13, <1>14, <1>15, <1>16, <1>17, <1>18, <1>19
  DEF Next, ParentStep, ChildStep

(***************************************************************************)
(* Sending a signal to some workers keeps their marks backed: a signal     *)
(* that was pending sets no mark, and a new one is there to be read.       *)
(***************************************************************************)
LEMMA SignalChildrenMarks ==
  ASSUME TypeOK, ChildSigMarks, NEW W, NEW s, SignalChildren(W, s), cbatch' = cbatch
  PROVE  ChildSigMarks'
<1> SUFFICES ASSUME NEW w \in Workers
             PROVE  /\ "sig" \in cready'[w] \cup cbatch[w] => csigs'[w] # {}
                    /\ "sig" \in cready'[w] \cap cbatch[w] => \E q, r \in csigs'[w] : q # r
    BY DEF ChildSigMarks
<1>1. /\ csigs'[w] = IF w \in W THEN csigs[w] \cup {s} ELSE csigs[w]
      /\ cready'[w] = IF w \in W THEN cready[w] \cup ChildMark(w, s) ELSE cready[w]
  BY DEF SignalChildren
<1>2. CASE w \in W /\ s \notin csigs[w]
  <2>1. csigs'[w] = csigs[w] \cup {s}
    BY <1>1, <1>2
  <2>2. "sig" \in cbatch[w] => \E q \in csigs[w] : q # s
    BY <1>2 DEF ChildSigMarks
  <2>3. QED BY <2>1, <2>2
<1>3. CASE w \notin W \/ s \in csigs[w]
  <2>1. csigs'[w] = csigs[w] /\ cready'[w] = cready[w]
    BY <1>1, <1>3 DEF ChildMark
  <2>2. QED BY <2>1 DEF ChildSigMarks
<1>4. QED BY <1>2, <1>3

(***************************************************************************)
(* A step that sends a worker no signal, and handles none, keeps its marks *)
(* backed.                                                                 *)
(***************************************************************************)
LEMMA SameSigMarks ==
  ASSUME ChildSigMarks, UNCHANGED <<csigs, cbatch>>,
         \A w \in Workers : "sig" \in cready'[w] => "sig" \in cready[w]
  PROVE  ChildSigMarks'
BY DEF ChildSigMarks

(***************************************************************************)
(* Every mark of a worker's signalfd has its own pending signal.           *)
(***************************************************************************)
LEMMA ChildSigStep == TypeOK /\ ChildSigMarks /\ [Next]_vars => ChildSigMarks'
<1> SUFFICES ASSUME TypeOK, ChildSigMarks, [Next]_vars PROVE ChildSigMarks'
    OBVIOUS
<1> USE PoolAssumption
<1>1. ASSUME NEW t \in Tasks, Arrive(t) PROVE ChildSigMarks'
  BY <1>1, SameSigMarks DEF Arrive
<1>2. ASSUME NEW s \in Outside, OutsideSignal(s) PROVE ChildSigMarks'
  BY <1>2, SignalChildrenMarks DEF OutsideSignal
<1>3. ASSUME NEW w \in Workers, Crash(w) PROVE ChildSigMarks'
  BY <1>3 DEF TypeOK, ChildSigMarks, Crash, Close
<1>4. ASSUME NEW w \in Workers, Announce(w) PROVE ChildSigMarks'
  BY <1>4 DEF TypeOK, ChildSigMarks, Announce, SignalMark
<1>5. ASSUME NEW w \in Workers, ChildEpollWait(w) PROVE ChildSigMarks'
  BY <1>5 DEF TypeOK, ChildSigMarks, ChildEpollWait
<1>6. ASSUME NEW w \in Workers, ChildRead(w) PROVE ChildSigMarks'
  BY <1>6 DEF TypeOK, ChildSigMarks, ChildRead, InLoop
<1>7. ASSUME NEW w \in Workers, ChildFinish(w) PROVE ChildSigMarks'
  BY <1>7 DEF TypeOK, ChildSigMarks, ChildFinish
<1>8. ASSUME NEW w \in Workers, ChildSignal(w) PROVE ChildSigMarks'
  BY <1>8 DEF TypeOK, ChildSigMarks, ChildSignal, InLoop
<1>9. ASSUME NEW w \in Workers, ChildExit(w) PROVE ChildSigMarks'
  BY <1>9 DEF TypeOK, ChildSigMarks, ChildExit, InLoop, Close
<1>10. ASSUME NEW w \in Workers, NEW t \in Tasks, LoadTask(t, w) PROVE ChildSigMarks'
  <2>1. /\ UNCHANGED <<csigs, cbatch>>
        /\ cready' = cready \/ cready' = [cready EXCEPT ![w] = @ \cup {"pipe"}]
    BY <1>10 DEF LoadTask, Dispatch
  <2>2. \A v \in Workers : "sig" \in cready'[v] => "sig" \in cready[v]
    <3>1. cready \in [Workers -> SUBSET {"pipe", "sig"}]
      BY DEF TypeOK
    <3>2. CASE cready' = cready
      BY <3>2
    <3>3. CASE cready' = [cready EXCEPT ![w] = @ \cup {"pipe"}]
      BY <3>1, <3>3
    <3>4. QED BY <2>1, <3>2, <3>3
  <2>3. QED BY <2>1, <2>2, SameSigMarks
<1>11. ASSUME LoadEnd PROVE ChildSigMarks'
  BY <1>11 DEF TypeOK, ChildSigMarks, LoadEnd
<1>12. ASSUME EpollWait PROVE ChildSigMarks'
  BY <1>12 DEF TypeOK, ChildSigMarks, EpollWait
<1>13. ASSUME NEW w \in Workers, AcceptRequest(w) PROVE ChildSigMarks'
  <2>1. /\ UNCHANGED <<csigs, cbatch>>
        /\ cready' = cready \/ cready' = [cready EXCEPT ![w] = @ \cup {"pipe"}]
    BY <1>13 DEF AcceptRequest, Dispatch
  <2>2. \A v \in Workers : "sig" \in cready'[v] => "sig" \in cready[v]
    <3>1. cready \in [Workers -> SUBSET {"pipe", "sig"}]
      BY DEF TypeOK
    <3>2. CASE cready' = cready
      BY <3>2
    <3>3. CASE cready' = [cready EXCEPT ![w] = @ \cup {"pipe"}]
      BY <3>1, <3>3
    <3>4. QED BY <2>1, <3>2, <3>3
  <2>3. QED BY <2>1, <2>2, SameSigMarks
<1>14. ASSUME RefuseRequest PROVE ChildSigMarks'
  BY <1>14 DEF TypeOK, ChildSigMarks, RefuseRequest, Take
<1>15. ASSUME IgnoreSignal PROVE ChildSigMarks'
  BY <1>15 DEF TypeOK, ChildSigMarks, IgnoreSignal, ReadSignal, Take
<1>16. ASSUME KillChildren PROVE ChildSigMarks'
  BY <1>16, SignalChildrenMarks DEF KillChildren
<1>17. ASSUME ReapChildren PROVE ChildSigMarks'
  BY <1>17 DEF TypeOK, ChildSigMarks, ReapChildren, ReadSignal, Take
<1>18. ASSUME NEW w \in Workers, HandlePipe(w) PROVE ChildSigMarks'
  BY <1>18 DEF TypeOK, ChildSigMarks, HandlePipe, PublishReply, DropReply, TornReply, ReadNothing,
        SpinEnds, Take, NextReply
<1>19. CASE UNCHANGED vars
  BY <1>19 DEF TypeOK, ChildSigMarks, vars
<1>20. QED
  BY <1>1, <1>2, <1>3, <1>4, <1>5, <1>6, <1>7, <1>8, <1>9, <1>10,
     <1>11, <1>12, <1>13, <1>14, <1>15, <1>16, <1>17, <1>18, <1>19
  DEF Next, ParentStep, ChildStep

(***************************************************************************)
(* The stages of a slot.                                                   *)
(***************************************************************************)
LEMMA SameSlot ==
  ASSUME NEW v, SlotOK(v), spin' = v => spin = v,
         down'[v] = down[v], up'[v] = up[v], child'[v] = child[v], held'[v] = held[v],
         busy'[v] = busy[v], record'[v] = record[v]
  PROVE  SlotOK(v)'
BY DEF SlotOK, SlotStage, NothingBack, OneBack

(***************************************************************************)
(* Appending to a sequence of one item gives a sequence of two.            *)
(***************************************************************************)
LEMMA AppendPair ==
  ASSUME NEW y, NEW x
  PROVE  Append(<<y>>, x) = <<y, x>>
<1> DEFINE S == {y, x}
           s == <<y>>
<1>1. s \in Seq(S) /\ Len(s) = 1 /\ s[1] = y
  OBVIOUS
<1>2. Append(s, x) \in Seq(S) /\ Len(Append(s, x)) = 2
  BY <1>1
<1>3. Append(s, x)[1] = y /\ Append(s, x)[2] = x
  BY <1>1
<1>4. <<y, x>> \in Seq(S) /\ Len(<<y, x>>) = 2 /\ <<y, x>>[1] = y /\ <<y, x>>[2] = x
  OBVIOUS
<1>5. \A i \in 1 .. Len(Append(s, x)) : Append(s, x)[i] = <<y, x>>[i]
  BY <1>2, <1>3, <1>4
<1> HIDE DEF S
<1>6. QED BY <1>2, <1>4, <1>5, SeqEqual

(***************************************************************************)
(* What a worker sends on a pipe without a reply is the only item on it,   *)
(* behind junk at most.                                                    *)
(***************************************************************************)
LEMMA AppendBack ==
  ASSUME NEW w, NothingBack(w), NEW x
  PROVE  Append(up[w], x) \in {<<x>>, <<"junk", x>>}
<1>1. CASE up[w] = << >>
  BY <1>1
<1>2. CASE up[w] = <<"junk">>
  BY <1>2, AppendPair, Zenon
<1>3. QED BY <1>1, <1>2 DEF NothingBack

(***************************************************************************)
(* A reply in front of its pipe is the last item on it.                    *)
(***************************************************************************)
LEMMA HeadBack ==
  ASSUME NEW w, OneBack(w), Head(up[w]) # "junk"
  PROVE  Tail(up[w]) = << >>
<1>1. PICK x : up[w] \in {<<x>>, <<"junk", x>>}
  BY DEF OneBack
<1>2. up[w] # <<"junk", x>>
  OBVIOUS
<1>3. up[w] = <<x>>
  BY <1>1, <1>2
<1>4. QED BY <1>3

(***************************************************************************)
(* A worker that dies, even in the middle of its reply, leaves its slot in *)
(* a stage.                                                                *)
(***************************************************************************)
LEMMA CloseSlot ==
  ASSUME TypeOK, NEW w \in Workers, NEW how \in {"crashing", "leaving"}, SlotOK(w),
         Close(w, how), UNCHANGED <<busy, record, spin>>,
         \/ up' = up
         \/ child[w] = "task" /\ up' = [up EXCEPT ![w] = Append(@, "half")]
  PROVE  SlotOK(w)'
<1>1. /\ child'[w] = how /\ held'[w] = None /\ down'[w] = << >>
      /\ busy'[w] = busy[w] /\ record'[w] = record[w]
  BY DEF TypeOK, Close
<1>2. CASE up' = up /\ NothingBack(w)
  BY <1>1, <1>2 DEF SlotOK, SlotStage, NothingBack
<1>3. CASE up' = up /\ OneBack(w) /\ busy[w]
  BY <1>1, <1>3 DEF SlotOK, SlotStage, OneBack
<1>4. CASE child[w] = "task" /\ up' = [up EXCEPT ![w] = Append(@, "half")]
  <2>1. NothingBack(w) /\ busy[w] /\ up'[w] = Append(up[w], "half")
    BY <1>4 DEF SlotOK, SlotStage, TypeOK
  <2>2. up'[w] \in {<<"half">>, <<"junk", "half">>}
    BY <2>1, AppendBack
  <2>3. OneBack(w)'
    BY <2>2 DEF OneBack
  <2>4. spin = w => up'[w] = <<"half">>
    BY <2>1, <2>2 DEF SlotOK, NothingBack
  <2>5. QED BY <1>1, <2>1, <2>3, <2>4 DEF SlotOK, SlotStage
<1>5. QED BY <1>2, <1>3, <1>4 DEF SlotOK, SlotStage

(***************************************************************************)
(* A slot that is not busy has nothing on its way, so that a request given *)
(* to it is the only one.                                                  *)
(***************************************************************************)
LEMMA DispatchSlot ==
  ASSUME TypeOK, NEW w \in Workers, NEW t \in Tasks, SlotOK(w), ~busy[w], Dispatch(t, w)
  PROVE  SlotOK(w)'
<1>1. /\ busy'[w] /\ record'[w] = t /\ up'[w] = up[w] /\ child'[w] = child[w]
      /\ held'[w] = held[w] /\ spin' = spin
  BY DEF TypeOK, Dispatch
<1>2. down[w] = << >> /\ child[w] # "task" /\ NothingBack(w)
  BY DEF SlotOK, SlotStage
<1>3. NothingBack(w)'
  BY <1>1, <1>2 DEF NothingBack
<1>4. CASE Alive(w)
  <2>1. down'[w] = <<t>>
    BY <1>2, <1>4 DEF TypeOK, Dispatch
  <2>2. QED BY <1>1, <1>2, <1>3, <1>4, <2>1 DEF SlotOK, SlotStage, Alive
<1>5. CASE ~Alive(w)
  <2>1. down' = down
    BY <1>5 DEF Dispatch
  <2>2. QED BY <1>1, <1>2, <1>3, <2>1 DEF SlotOK, SlotStage
<1>6. QED BY <1>4, <1>5

\* The other slots stay as they are.
LEMMA DispatchElsewhere ==
  ASSUME TypeOK, SlotShape, NEW w \in Workers, NEW t \in Tasks, Dispatch(t, w), NEW v \in Workers \ {w}
  PROVE  SlotOK(v)'
<1>1. SlotOK(v)
  BY DEF SlotShape
<1>2. down \in [Workers -> Seq(Tasks)] /\ busy \in [Workers -> BOOLEAN]
      /\ record \in [Workers -> Tasks \cup {None}]
  BY DEF TypeOK
<1>3. down'[v] = down[v]
  BY <1>2 DEF Dispatch
<1>4. busy'[v] = busy[v] /\ record'[v] = record[v] /\ UNCHANGED <<up, child, held, spin>>
  BY <1>2 DEF Dispatch
<1>5. QED BY <1>1, <1>3, <1>4, SameSlot

(***************************************************************************)
(* A slot whose reply is read, whole or torn, is free and empty.           *)
(***************************************************************************)
LEMMA ReplyRead ==
  ASSUME TypeOK, NEW w \in Workers, SlotOK(w), PublishReply(w) \/ TornReply(w)
  PROVE  SlotOK(w)'
<1>1. /\ up[w] # << >> /\ Head(up[w]) # "junk"
      /\ up' = [up EXCEPT ![w] = Tail(@)] /\ busy' = [busy EXCEPT ![w] = FALSE]
      /\ UNCHANGED <<spin, record, down, child, held>>
  BY PoolAssumption DEF PublishReply, TornReply, NextReply
<1>2. OneBack(w) /\ down[w] = << >> /\ child[w] # "task"
  BY <1>1 DEF SlotOK, SlotStage, NothingBack
<1>3. up'[w] = << >> /\ ~busy'[w]
  BY <1>1, <1>2, HeadBack DEF TypeOK
<1>4. QED BY <1>1, <1>2, <1>3 DEF SlotOK, SlotStage, NothingBack

(***************************************************************************)
(* A dropped reply leaves the slot busy and in a stage.                    *)
(***************************************************************************)
LEMMA ReplyDropped ==
  ASSUME TypeOK, NEW w \in Workers, SlotOK(w), DropReply(w)
  PROVE  SlotOK(w)'
<1>1. UNCHANGED <<spin, busy, record, down, child, held>>
  BY DEF DropReply
<1>2. CASE Head(up[w]) = "empty"
  <2>1. up[w] # << >> /\ up' = [up EXCEPT ![w] = Tail(@)]
    BY <1>2 DEF DropReply, NextReply
  <2>2. OneBack(w) /\ down[w] = << >> /\ child[w] # "task"
    BY <1>2, <2>1 DEF SlotOK, SlotStage, NothingBack
  <2>3. up'[w] = << >>
    BY <1>2, <2>1, <2>2, HeadBack DEF TypeOK
  <2>4. QED BY <1>1, <2>2, <2>3 DEF SlotOK, SlotStage, NothingBack
<1>3. CASE Head(up[w]) # "empty"
  <2>1. up' = up
    BY <1>3 DEF DropReply
  <2>2. QED BY <1>1, <2>1, SameSlot
<1>4. QED BY <1>2, <1>3

(***************************************************************************)
(* A read that finds nothing frees the slot only behind a closed pipe, on  *)
(* which nothing is on its way.                                            *)
(***************************************************************************)
LEMMA NothingRead ==
  ASSUME TypeOK, NEW w \in Workers, SlotOK(w), ReadNothing(w)
  PROVE  SlotOK(w)'
<1>1. up[w] = << >> /\ UNCHANGED <<up, record, down, child, held>>
  BY DEF ReadNothing
<1>2. NothingBack(w) /\ ~OneBack(w)
  BY <1>1 DEF NothingBack, OneBack
<1>3. busy' = busy \/ (~Alive(w) /\ busy' = [busy EXCEPT ![w] = FALSE])
  BY DEF ReadNothing, AtEof
<1>4. CASE busy' = busy
  BY <1>1, <1>2, <1>4 DEF SlotOK, SlotStage, NothingBack
<1>5. CASE ~Alive(w) /\ busy' = [busy EXCEPT ![w] = FALSE]
  <2>1. ~busy'[w] /\ down[w] = << >> /\ child[w] # "task"
    BY <1>2, <1>5 DEF TypeOK, SlotOK, SlotStage, Alive
  <2>2. QED BY <1>1, <1>2, <2>1 DEF SlotOK, SlotStage, NothingBack
<1>6. QED BY <1>3, <1>4, <1>5

(***************************************************************************)
(* When the stuck readn ends, the slot is free and its pipe holds junk at  *)
(* most.                                                                   *)
(***************************************************************************)
LEMMA SpinOver ==
  ASSUME TypeOK, NEW w \in Workers, SlotOK(w), SpinEnds(w)
  PROVE  SlotOK(w)'
<1>1. /\ spin = w /\ spin' = None /\ ~busy'[w] /\ UNCHANGED <<record, down, child, held>>
  BY DEF TypeOK, SpinEnds
<1>2. up'[w] \in {<< >>, <<"junk">>}
  BY DEF TypeOK, SpinEnds
<1>3. down[w] = << >> /\ child[w] # "task"
  <2>1. CASE up[w] # << >>
    BY <1>1, <2>1 DEF SlotOK, SlotStage, NothingBack
  <2>2. CASE up[w] = << >>
    <3>1. ~Alive(w)
      BY <2>2 DEF SpinEnds, AtEof
    <3>2. QED BY <3>1 DEF Alive, SlotOK, SlotStage
  <2>3. QED BY <2>1, <2>2
<1>4. QED BY <1>1, <1>2, <1>3, PoolAssumption DEF SlotOK, SlotStage, NothingBack

(***************************************************************************)
(* Every step keeps every slot in one of its stages.                       *)
(***************************************************************************)
LEMMA SlotStep == TypeOK /\ MqMarks /\ PipeMarks /\ SlotShape /\ [Next]_vars => SlotShape'
<1> SUFFICES ASSUME TypeOK, MqMarks, PipeMarks, SlotShape, [Next]_vars PROVE SlotShape'
    OBVIOUS
<1> USE PoolAssumption
<1>1. ASSUME NEW t \in Tasks, Arrive(t) PROVE SlotShape'
  BY <1>1, SameSlot DEF SlotShape, Arrive
<1>2. ASSUME NEW s \in Outside, OutsideSignal(s) PROVE SlotShape'
  BY <1>2, SameSlot DEF SlotShape, OutsideSignal
<1>3. ASSUME NEW w \in Workers, Crash(w) PROVE SlotShape'
  <2>1. ASSUME NEW v \in Workers \ {w} PROVE SlotOK(v)'
    BY <1>3, SameSlot DEF TypeOK, SlotShape, Crash, Close
  <2>2. SlotOK(w)'
    BY <1>3, CloseSlot DEF SlotShape, Crash
  <2>3. QED BY <2>1, <2>2 DEF SlotShape
<1>4. ASSUME NEW w \in Workers, Announce(w) PROVE SlotShape'
  <2>1. ASSUME NEW v \in Workers \ {w} PROVE SlotOK(v)'
    BY <1>4, SameSlot DEF TypeOK, SlotShape, Announce
  <2>2. SlotOK(w)'
    BY <1>4 DEF TypeOK, SlotShape, SlotOK, SlotStage, NothingBack, OneBack, Announce
  <2>3. QED BY <2>1, <2>2 DEF SlotShape
<1>5. ASSUME NEW w \in Workers, ChildEpollWait(w) PROVE SlotShape'
  BY <1>5, SameSlot DEF SlotShape, ChildEpollWait
<1>6. ASSUME NEW w \in Workers, ChildRead(w) PROVE SlotShape'
  <2>1. ASSUME NEW v \in Workers \ {w} PROVE SlotOK(v)'
    BY <1>6, SameSlot DEF TypeOK, SlotShape, ChildRead
  <2>2. SlotOK(w)'
    <3>1. busy[w] /\ down[w] = <<record[w]>> /\ NothingBack(w)
      BY <1>6 DEF SlotShape, SlotOK, SlotStage, PipeMarks, ChildRead
    <3>2. Head(down[w]) = record[w] /\ Tail(down[w]) = << >>
      BY <3>1
    <3>3. QED BY <1>6, <3>1, <3>2 DEF TypeOK, SlotShape, SlotOK, SlotStage, NothingBack, ChildRead
  <2>3. QED BY <2>1, <2>2 DEF SlotShape
<1>7. ASSUME NEW w \in Workers, ChildFinish(w) PROVE SlotShape'
  <2>1. ASSUME NEW v \in Workers \ {w} PROVE SlotOK(v)'
    BY <1>7, SameSlot DEF TypeOK, SlotShape, ChildFinish
  <2>2. SlotOK(w)'
    <3>1. busy[w] /\ down[w] = << >> /\ NothingBack(w) /\ held[w] = record[w]
      BY <1>7 DEF SlotShape, SlotOK, SlotStage, ChildFinish
    <3>2. PICK reply \in {record[w], "empty"} : up' = [up EXCEPT ![w] = Append(@, reply)]
      BY <1>7, <3>1 DEF ChildFinish
    <3>3. up'[w] = Append(up[w], reply)
      BY <3>2 DEF TypeOK
    <3>4. up'[w] \in {<<reply>>, <<"junk", reply>>}
      BY <3>1, <3>3, AppendBack
    <3>5. record'[w] = record[w] /\ busy'[w] /\ down'[w] = << >> /\ child'[w] = "loop"
          /\ held'[w] = None /\ spin' = spin
      BY <1>7, <3>1 DEF TypeOK, ChildFinish
    <3>6. OneBack(w)'
      BY <3>4, <3>5 DEF OneBack
    <3>7. ASSUME spin = w PROVE Head(up'[w]) # "junk"
      <4>1. up[w] = << >>
        BY <3>1, <3>7 DEF NothingBack, SlotShape, SlotOK
      <4>2. up'[w] = <<reply>>
        BY <3>3, <4>1
      <4>3. reply # "junk"
        BY <3>1 DEF SlotShape, SlotOK
      <4>4. QED BY <4>2, <4>3
    <3>8. record[w] \in Tasks
      BY <3>1 DEF SlotShape, SlotOK
    <3>9. QED BY <3>5, <3>6, <3>7, <3>8 DEF SlotOK, SlotStage
  <2>3. QED BY <2>1, <2>2 DEF SlotShape
<1>8. ASSUME NEW w \in Workers, ChildSignal(w) PROVE SlotShape'
  BY <1>8, SameSlot DEF SlotShape, ChildSignal
<1>9. ASSUME NEW w \in Workers, ChildExit(w) PROVE SlotShape'
  <2>1. ASSUME NEW v \in Workers \ {w} PROVE SlotOK(v)'
    BY <1>9, SameSlot DEF TypeOK, SlotShape, ChildExit, Close
  <2>2. SlotOK(w)'
    BY <1>9, CloseSlot DEF SlotShape, ChildExit
  <2>3. QED BY <2>1, <2>2 DEF SlotShape
<1>10. ASSUME NEW w \in Workers, NEW t \in Tasks, LoadTask(t, w) PROVE SlotShape'
  <2>1. ~busy[w] /\ Dispatch(t, w)
    BY <1>10 DEF LoadTask, FreeSlots
  <2>3. ASSUME NEW v \in Workers \ {w} PROVE SlotOK(v)'
    BY <2>1, DispatchElsewhere
  <2>4. SlotOK(w)'
    BY <2>1, DispatchSlot DEF SlotShape
  <2>5. QED BY <2>3, <2>4 DEF SlotShape
<1>11. ASSUME LoadEnd PROVE SlotShape'
  BY <1>11, SameSlot DEF SlotShape, LoadEnd
<1>12. ASSUME EpollWait PROVE SlotShape'
  BY <1>12, SameSlot DEF SlotShape, EpollWait
<1>13. ASSUME NEW w \in Workers, AcceptRequest(w) PROVE SlotShape'
  <2>1. ~busy[w] /\ Dispatch(Head(mq), w)
    BY <1>13 DEF AcceptRequest, FreeSlots
  <2>2. Head(mq) \in Tasks
    BY <1>13 DEF TypeOK, MqMarks, AcceptRequest, Take
  <2>3. ASSUME NEW v \in Workers \ {w} PROVE SlotOK(v)'
    BY <2>1, <2>2, DispatchElsewhere
  <2>4. SlotOK(w)'
    BY <2>1, <2>2, DispatchSlot DEF SlotShape
  <2>5. QED BY <2>3, <2>4 DEF SlotShape
<1>14. ASSUME RefuseRequest PROVE SlotShape'
  BY <1>14, SameSlot DEF SlotShape, RefuseRequest
<1>15. ASSUME IgnoreSignal PROVE SlotShape'
  BY <1>15, SameSlot DEF SlotShape, IgnoreSignal
<1>16. ASSUME KillChildren PROVE SlotShape'
  BY <1>16, SameSlot DEF SlotShape, KillChildren
<1>17. ASSUME ReapChildren PROVE SlotShape'
  <2> DEFINE killed == {v \in Zombies : child[v] = "killed"}
  <2>1. PICK F \in SUBSET killed :
          /\ child' = [v \in Workers |-> IF v \in killed \ F THEN "loop"
                                         ELSE IF v \in Zombies THEN "gone" ELSE child[v]]
          /\ up' = [v \in Workers |-> IF v \in Zombies THEN << >> ELSE up[v]]
          /\ UNCHANGED <<spin, busy, record, down, held>>
    BY <1>17 DEF ReapChildren, CrashReport, AllGone
  <2>2. ASSUME NEW v \in Workers PROVE SlotOK(v)'
    <3>1. CASE child[v] \in {"killed", "exited"}
      <4>1. up'[v] = << >> /\ child'[v] \in {"loop", "gone"}
        BY <2>1, <3>1 DEF Zombies
      <4>2. down[v] = << >> /\ held[v] = None
        BY <3>1 DEF SlotShape, SlotOK, SlotStage
      <4>3. QED BY <2>1, <4>1, <4>2 DEF SlotShape, SlotOK, SlotStage, NothingBack
    <3>2. CASE child[v] \notin {"killed", "exited"}
      <4>1. up'[v] = up[v] /\ child'[v] = child[v]
        BY <2>1, <3>2 DEF Zombies
      <4>2. QED BY <2>1, <4>1, SameSlot DEF SlotShape
    <3>3. QED BY <3>1, <3>2
  <2>3. QED BY <2>2 DEF SlotShape
<1>18. ASSUME NEW w \in Workers, HandlePipe(w) PROVE SlotShape'
  <2>1. ASSUME NEW v \in Workers \ {w} PROVE SlotOK(v)'
    BY <1>18, SameSlot DEF TypeOK, SlotShape, HandlePipe, PublishReply, DropReply, TornReply,
       ReadNothing, SpinEnds, NextReply
  <2>2. SlotOK(w)'
    <3>1. CASE PublishReply(w) \/ TornReply(w)
      BY <3>1, ReplyRead DEF SlotShape
    <3>2. CASE DropReply(w)
      BY <3>2, ReplyDropped DEF SlotShape
    <3>3. CASE ReadNothing(w)
      BY <3>3, NothingRead DEF SlotShape
    <3>4. CASE SpinEnds(w)
      BY <3>4, SpinOver DEF SlotShape
    <3>5. QED BY <1>18, <3>1, <3>2, <3>3, <3>4 DEF HandlePipe
  <2>3. QED BY <2>1, <2>2 DEF SlotShape
<1>19. CASE UNCHANGED vars
  BY <1>19, SameSlot DEF SlotShape, vars
<1>20. QED
  BY <1>1, <1>2, <1>3, <1>4, <1>5, <1>6, <1>7, <1>8, <1>9, <1>10,
     <1>11, <1>12, <1>13, <1>14, <1>15, <1>16, <1>17, <1>18, <1>19
  DEF Next, ParentStep, ChildStep

(***************************************************************************)
(* A slot has a process unless its worker is reaped, and the pool stops    *)
(* only when no slot has one: nobody is forked afterwards.                 *)
(***************************************************************************)
LEMMA StopStep == TypeOK /\ StopShape /\ [Next]_vars => StopShape'
<1> SUFFICES ASSUME TypeOK, StopShape, [Next]_vars PROVE StopShape'
    OBVIOUS
<1> USE PoolAssumption
<1>1. ASSUME NEW t \in Tasks, Arrive(t) PROVE StopShape'
  BY <1>1 DEF TypeOK, StopShape, Arrive
<1>2. ASSUME NEW s \in Outside, OutsideSignal(s) PROVE StopShape'
  BY <1>2 DEF TypeOK, StopShape, OutsideSignal, SignalMark
<1>3. ASSUME NEW w \in Workers, Crash(w) PROVE StopShape'
  BY <1>3 DEF TypeOK, StopShape, Crash, Close
<1>4. ASSUME NEW w \in Workers, Announce(w) PROVE StopShape'
  BY <1>4 DEF TypeOK, StopShape, Announce, SignalMark
<1>5. ASSUME NEW w \in Workers, ChildEpollWait(w) PROVE StopShape'
  BY <1>5 DEF TypeOK, StopShape, ChildEpollWait
<1>6. ASSUME NEW w \in Workers, ChildRead(w) PROVE StopShape'
  BY <1>6 DEF TypeOK, StopShape, ChildRead, InLoop
<1>7. ASSUME NEW w \in Workers, ChildFinish(w) PROVE StopShape'
  BY <1>7 DEF TypeOK, StopShape, ChildFinish
<1>8. ASSUME NEW w \in Workers, ChildSignal(w) PROVE StopShape'
  BY <1>8 DEF TypeOK, StopShape, ChildSignal, InLoop
<1>9. ASSUME NEW w \in Workers, ChildExit(w) PROVE StopShape'
  BY <1>9 DEF TypeOK, StopShape, ChildExit, InLoop, Close
<1>10. ASSUME NEW w \in Workers, NEW t \in Tasks, LoadTask(t, w) PROVE StopShape'
  BY <1>10 DEF TypeOK, StopShape, LoadTask, Dispatch, SignalMark, Alive
<1>11. ASSUME LoadEnd PROVE StopShape'
  BY <1>11 DEF TypeOK, StopShape, LoadEnd
<1>12. ASSUME EpollWait PROVE StopShape'
  BY <1>12 DEF TypeOK, StopShape, EpollWait
<1>13. ASSUME NEW w \in Workers, AcceptRequest(w) PROVE StopShape'
  BY <1>13 DEF TypeOK, StopShape, AcceptRequest, Take, Dispatch, SignalMark, Alive
<1>14. ASSUME RefuseRequest PROVE StopShape'
  BY <1>14 DEF TypeOK, StopShape, RefuseRequest, Take
<1>15. ASSUME IgnoreSignal PROVE StopShape'
  BY <1>15 DEF TypeOK, StopShape, IgnoreSignal, ReadSignal, Take
<1>16. ASSUME KillChildren PROVE StopShape'
  BY <1>16 DEF TypeOK, StopShape, KillChildren, ReadSignal, Take
<1>17. ASSUME ReapChildren PROVE StopShape'
  <2> DEFINE killed == {v \in Zombies : child[v] = "killed"}
  <2>1. PICK F \in SUBSET killed :
          /\ pid' = [v \in Workers |-> pid[v] /\ v \notin Zombies \ (killed \ F)]
          /\ child' = [v \in Workers |-> IF v \in killed \ F THEN "loop"
                                         ELSE IF v \in Zombies THEN "gone" ELSE child[v]]
          /\ stop' = \A v \in Workers : ~pid'[v]
    BY <1>17 DEF ReapChildren, CrashReport, AllGone
  <2>2. ASSUME NEW v \in Workers PROVE pid'[v] <=> child'[v] # "gone"
    BY <2>1 DEF StopShape
  <2>3. stop' => \A v \in Workers : ~pid'[v]
    BY <2>1
  <2>4. QED BY <2>2, <2>3 DEF StopShape
<1>18. ASSUME NEW w \in Workers, HandlePipe(w) PROVE StopShape'
  BY <1>18 DEF TypeOK, StopShape, HandlePipe, PublishReply, DropReply, TornReply, ReadNothing,
        SpinEnds, Take
<1>19. CASE UNCHANGED vars
  BY <1>19 DEF TypeOK, StopShape, vars
<1>20. QED
  BY <1>1, <1>2, <1>3, <1>4, <1>5, <1>6, <1>7, <1>8, <1>9, <1>10,
     <1>11, <1>12, <1>13, <1>14, <1>15, <1>16, <1>17, <1>18, <1>19
  DEF Next, ParentStep, ChildStep

(***************************************************************************)
(* The inductive invariant.                                                *)
(***************************************************************************)
PoolInv == TypeOK /\ MarksBacked /\ SlotShape /\ StopShape

(***************************************************************************)
(* Every reachable state of the pool satisfies PoolInv: with any crashes,  *)
(* failed forks, torn replies and signals, slots stay in their stages.     *)
(***************************************************************************)
THEOREM Invariance == Spec => []PoolInv
<1>1. Init => PoolInv
  <2> SUFFICES ASSUME Init PROVE PoolInv
      OBVIOUS
  <2> USE PoolAssumption DEF Init
  <2>1. TypeOK
    <3>1. << >> \in Seq(Tasks) /\ << >> \in Seq(Tasks \cup Odd) /\ << >> \in Seq(Answer)
      OBVIOUS
    <3>2. QED BY <3>1 DEF TypeOK, ChildState
  <2>2. MarksBacked
    BY DEF MarksBacked, MqMarks, SigMarks, PipeMarks, ChildSigMarks
  <2>3. SlotShape
    BY DEF SlotShape, SlotOK, SlotStage, NothingBack
  <2>4. StopShape
    BY DEF StopShape
  <2>5. QED BY <2>1, <2>2, <2>3, <2>4 DEF PoolInv
<1>2. PoolInv /\ [Next]_vars => PoolInv'
  BY TypeStep, MqStep, SigStep, PipeStep, ChildSigStep, SlotStep, StopStep DEF PoolInv, MarksBacked
<1>3. QED BY <1>1, <1>2, PTL DEF Spec

(***************************************************************************)
(* Every state of the pool is of its type.                                 *)
(***************************************************************************)
THEOREM TypeCorrect == Spec => []TypeOK
<1>1. PoolInv => TypeOK
  BY DEF PoolInv
<1>2. QED BY <1>1, Invariance, PTL

(***************************************************************************)
(* No handler's single read finds its descriptor empty.                    *)
(***************************************************************************)
THEOREM MarksAreBacked == Spec => []MarksBacked
<1>1. PoolInv => MarksBacked
  BY DEF PoolInv
<1>2. QED BY <1>1, Invariance, PTL

(***************************************************************************)
(* A stopped pool has no worker left, alive or zombie.                     *)
(***************************************************************************)
THEOREM StopIsClean == Spec => []StopLeavesNoWorker
<1>1. PoolInv => StopLeavesNoWorker
  BY DEF PoolInv, StopShape, StopLeavesNoWorker
<1>2. QED BY <1>1, Invariance, PTL

(***************************************************************************)
(* A set with at most one member has cardinality at most one.              *)
(***************************************************************************)
LEMMA AtMostOne ==
  ASSUME NEW e, NEW T \in SUBSET {e}
  PROVE  Cardinality(T) \in 0 .. 1
<1>1. CASE T = {}
  BY <1>1, FS_EmptySet
<1>2. CASE T = {e}
  BY <1>2, FS_Singleton
<1>3. QED BY <1>1, <1>2

(***************************************************************************)
(* Among the items on the way back from a slot there is a reply only in    *)
(* the slot's last stage, and then it is one for the task of the record.   *)
(***************************************************************************)
LEMMA RepliesBack ==
  ASSUME NEW w \in Workers, SlotOK(w)
  PROVE  /\ \E e : {i \in DOMAIN up[w] : up[w][i] \in Tasks} \subseteq {e}
         /\ NothingBack(w) => {i \in DOMAIN up[w] : up[w][i] \in Tasks} = {}
         /\ InSeq(up[w]) \cap Tasks \subseteq {record[w]}
         /\ NothingBack(w) => InSeq(up[w]) \cap Tasks = {}
<1> USE PoolAssumption
<1>1. CASE NothingBack(w)
  <2>1. \A i \in DOMAIN up[w] : up[w][i] = "junk"
    BY <1>1 DEF NothingBack
  <2>2. "junk" \notin Tasks
    OBVIOUS
  <2>3. QED BY <2>1, <2>2 DEF InSeq
<1>2. CASE OneBack(w) /\ ~NothingBack(w)
  <2>1. PICK x \in {record[w], "empty", "half"} : up[w] \in {<<x>>, <<"junk", x>>}
    BY <1>2 DEF OneBack
  <2>2. CASE up[w] = <<x>>
    <3>1. DOMAIN up[w] = {1} /\ up[w][1] = x
      BY <2>2
    <3>2. QED BY <1>2, <2>1, <3>1 DEF InSeq
  <2>3. CASE up[w] = <<"junk", x>>
    <3>1. DOMAIN up[w] = {1, 2} /\ up[w][1] = "junk" /\ up[w][2] = x
      BY <2>3
    <3>2. {i \in DOMAIN up[w] : up[w][i] \in Tasks} \subseteq {2}
      BY <3>1
    <3>3. QED BY <1>2, <2>1, <3>1, <3>2 DEF InSeq
  <2>4. QED BY <2>1, <2>2, <2>3
<1>3. QED BY <1>1, <1>2 DEF SlotOK, SlotStage

(***************************************************************************)
(* A slot never has two tasks, whatever crashes: one read per edge is      *)
(* enough for the worker's pipe and for the parent's end of it.            *)
(***************************************************************************)
THEOREM OneTask == Spec => []OneTaskPerSlot
<1>1. ASSUME TypeOK, SlotShape, NEW w \in Workers
      PROVE  Len(down[w]) + (IF held[w] # None THEN 1 ELSE 0)
               + Cardinality({i \in DOMAIN up[w] : up[w][i] \in Tasks}) <= 1
  <2> DEFINE replies == {i \in DOMAIN up[w] : up[w][i] \in Tasks}
  <2>1. SlotOK(w)
    BY <1>1 DEF SlotShape
  <2>2. Cardinality(replies) \in 0 .. 1
    <3>1. PICK e : replies \subseteq {e}
      BY <2>1, RepliesBack
    <3>2. QED BY <3>1, AtMostOne
  <2>3. NothingBack(w) => Cardinality(replies) = 0
    BY <2>1, RepliesBack, FS_EmptySet
  <2>4. Len(<< >>) = 0 /\ Len(<<record[w]>>) = 1
    OBVIOUS
  <2> HIDE DEF replies
  <2>5. CASE down[w] = << >> /\ child[w] # "task"
    <3>1. held[w] = None
      BY <2>1, <2>5 DEF SlotOK
    <3>2. QED BY <2>2, <2>4, <2>5, <3>1 DEF replies
  <2>6. CASE down[w] = <<record[w]>> /\ child[w] = "loop" /\ NothingBack(w)
    <3>1. held[w] = None
      BY <2>1, <2>6 DEF SlotOK
    <3>2. QED BY <2>3, <2>4, <2>6, <3>1 DEF replies
  <2>7. CASE down[w] = << >> /\ child[w] = "task" /\ NothingBack(w)
    BY <2>3, <2>4, <2>7 DEF replies
  <2>8. QED BY <2>1, <2>5, <2>6, <2>7 DEF SlotOK, SlotStage
<1>2. PoolInv => OneTaskPerSlot
  BY <1>1 DEF PoolInv, OneTaskPerSlot
<1>3. QED BY <1>2, Invariance, PTL

(***************************************************************************)
(* The task a slot answers for is the one of its record, and the slot is   *)
(* busy: no crash report names the wrong task while a worker lives.        *)
(***************************************************************************)
THEOREM RecordIsRight == Spec => []RecordNamesTheTask
<1>1. ASSUME SlotShape, NEW w \in Workers, Custody(w) # {}
      PROVE  busy[w] /\ Custody(w) = {record[w]}
  <2>1. SlotOK(w)
    BY <1>1 DEF SlotShape
  <2>2. InSeq(<< >>) = {} /\ InSeq(<<record[w]>>) = {record[w]}
    BY DEF InSeq
  <2>3. Custody(w) \subseteq {record[w]}
    <3>1. InSeq(down[w]) \subseteq {record[w]}
      BY <2>1, <2>2 DEF SlotOK, SlotStage
    <3>2. {held[w]} \ {None} \subseteq {record[w]}
      BY <2>1 DEF SlotOK
    <3>3. QED BY <2>1, <3>1, <3>2, RepliesBack DEF Custody
  <2>4. busy[w]
    <3>1. SUFFICES ASSUME down[w] = << >>, child[w] # "task", NothingBack(w) PROVE FALSE
      BY <2>1 DEF SlotOK, SlotStage
    <3>2. held[w] = None
      BY <2>1, <3>1 DEF SlotOK
    <3>3. QED BY <1>1, <2>1, <2>2, <3>1, <3>2, RepliesBack DEF Custody
  <2>5. QED BY <1>1, <2>3, <2>4
<1>2. PoolInv => RecordNamesTheTask
  BY <1>1 DEF PoolInv, RecordNamesTheTask
<1>3. QED BY <1>2, Invariance, PTL

-----------------------------------------------------------------------------
(***************************************************************************)
(* The pool implements TaskService.  What that needs beyond PoolInv: a     *)
(* task is on one way only (still outside, on disk, in the queue, or on    *)
(* the record of one slot), and has no answer while it is on its way.      *)
(***************************************************************************)
Waiting == unsent \cup backlog \cup InSeq(mq)

RoutesApart ==
  /\ unsent \cap backlog = {} /\ InSeq(mq) \cap (unsent \cup backlog) = {}
  /\ \A i, j \in DOMAIN mq : mq[i] = mq[j] => i = j
  /\ \A w \in Workers : record[w] \notin Waiting
  /\ \A v, w \in Workers : record[v] = record[w] => record[v] = None \/ v = w

AnswersFit ==
  /\ \A t \in Waiting : answers[t] = << >>
  /\ \A w \in Workers : Custody(w) # {} => answers[record[w]] = << >>
  /\ \A w \in Workers : record[w] # None => answers[record[w]] # <<"overflow">>

LEMMA InAppend ==
  ASSUME NEW S, NEW s \in Seq(S), NEW x \in S
  PROVE  /\ InSeq(Append(s, x)) = InSeq(s) \cup {x}
         /\ x \notin InSeq(s) /\ (\A i, j \in DOMAIN s : s[i] = s[j] => i = j)
              => \A i, j \in DOMAIN Append(s, x) : Append(s, x)[i] = Append(s, x)[j] => i = j
<1> DEFINE a == Append(s, x)
           n == Len(s)
<1>1. /\ n \in Nat /\ DOMAIN s = 1..n /\ DOMAIN a = 1..(n + 1) /\ a[n + 1] = x
      /\ \A i \in 1..n : a[i] = s[i]
  BY AppendProperties
<1>2. 1..(n + 1) = (1..n) \cup {n + 1}
  BY <1>1
<1> HIDE DEF a, n
<1>3. InSeq(a) = InSeq(s) \cup {x}
  BY <1>1, <1>2 DEF InSeq
<1>4. ASSUME x \notin InSeq(s), \A i, j \in DOMAIN s : s[i] = s[j] => i = j,
             NEW i \in DOMAIN a, NEW j \in DOMAIN a, a[i] = a[j]
      PROVE  i = j
  <2>1. CASE i \in 1..n /\ j \in 1..n
    BY <1>1, <1>4, <2>1
  <2>2. CASE i = n + 1 /\ j \in 1..n
    BY <1>1, <1>4, <2>2 DEF InSeq
  <2>3. CASE j = n + 1 /\ i \in 1..n
    BY <1>1, <1>4, <2>3 DEF InSeq
  <2>4. QED BY <1>1, <1>2, <1>4, <2>1, <2>2, <2>3
<1>5. QED BY <1>3, <1>4 DEF a

LEMMA InTail ==
  ASSUME NEW S, NEW s \in Seq(S), s # << >>
  PROVE  /\ InSeq(s) = InSeq(Tail(s)) \cup {Head(s)}
         /\ (\A i, j \in DOMAIN s : s[i] = s[j] => i = j)
              => /\ Head(s) \notin InSeq(Tail(s))
                 /\ \A i, j \in DOMAIN Tail(s) : Tail(s)[i] = Tail(s)[j] => i = j
<1> DEFINE b == Tail(s)
           n == Len(s)
<1>1. /\ n \in Nat \ {0} /\ DOMAIN s = 1..n /\ DOMAIN b = 1..(n - 1) /\ Head(s) = s[1]
      /\ \A i \in 1..(n - 1) : b[i] = s[i + 1]
  BY HeadTailProperties, EmptySeq
<1> HIDE DEF b, n
<1>2. InSeq(s) \subseteq InSeq(b) \cup {s[1]}
  <2> SUFFICES ASSUME NEW i \in 1..n, i # 1 PROVE s[i] \in InSeq(b)
      BY <1>1 DEF InSeq
  <2>1. i - 1 \in 1..(n - 1) /\ b[i - 1] = s[i]
    BY <1>1
  <2>2. QED BY <1>1, <2>1 DEF InSeq
<1>3. InSeq(b) \cup {s[1]} \subseteq InSeq(s)
  <2>1. 1 \in 1..n /\ \A i \in 1..(n - 1) : i + 1 \in 1..n
    BY <1>1
  <2>2. QED BY <1>1, <2>1 DEF InSeq
<1>4. ASSUME \A i, j \in DOMAIN s : s[i] = s[j] => i = j
      PROVE  /\ s[1] \notin InSeq(b)
             /\ \A i, j \in DOMAIN b : b[i] = b[j] => i = j
  <2>1. \A i \in 1..(n - 1) : i + 1 \in 1..n /\ i + 1 # 1 /\ 1 \in 1..n
    BY <1>1
  <2>2. s[1] \notin InSeq(b)
    BY <1>1, <1>4, <2>1 DEF InSeq
  <2>3. ASSUME NEW i \in 1..(n - 1), NEW j \in 1..(n - 1), b[i] = b[j] PROVE i = j
    <3>1. i + 1 = j + 1
      BY <1>1, <1>4, <2>1, <2>3
    <3>2. QED BY <3>1
  <2>4. QED BY <1>1, <2>2, <2>3
<1>5. QED BY <1>1, <1>2, <1>3, <1>4 DEF b

(***************************************************************************)
(* What a slot answers for is its record or nothing, and it is then busy.  *)
(***************************************************************************)
LEMMA CustodyIsRecord ==
  ASSUME NEW w \in Workers, SlotOK(w)
  PROVE  /\ Custody(w) \subseteq {record[w]} \ {None}
         /\ Custody(w) # {} => busy[w]
<1> USE PoolAssumption
<1>1. InSeq(<< >>) = {} /\ InSeq(<<record[w]>>) = {record[w]}
  BY DEF InSeq
<1>2. InSeq(down[w]) \subseteq {record[w]} /\ (InSeq(down[w]) # {} => busy[w])
  BY <1>1 DEF SlotOK, SlotStage
<1>3. {held[w]} \ {None} \subseteq {record[w]} /\ ({held[w]} \ {None} # {} => busy[w])
  BY DEF SlotOK, SlotStage
<1>4. InSeq(up[w]) \cap Tasks \subseteq {record[w]} /\ (InSeq(up[w]) \cap Tasks # {} => busy[w])
  BY RepliesBack DEF SlotOK, SlotStage
<1>5. busy[w] => record[w] # None
  BY DEF SlotOK
<1>6. QED BY <1>2, <1>3, <1>4, <1>5 DEF Custody

LEMMA SameCustody ==
  ASSUME NEW v, down'[v] = down[v], held'[v] = held[v], up'[v] = up[v]
  PROVE  Custody(v)' = Custody(v)
BY DEF Custody

(***************************************************************************)
(* Steps by which a slot moves its task on, or loses it.                   *)
(***************************************************************************)
LEMMA LosesOnly ==
  ASSUME TypeOK, PipeMarks, SlotShape, NEW w \in Workers,
         \/ Crash(w) \/ ChildExit(w) \/ ChildRead(w) \/ ChildFinish(w)
         \/ DropReply(w) \/ TornReply(w) \/ SpinEnds(w)
  PROVE  /\ UNCHANGED <<unsent, backlog, mq, record, answers>>
         /\ \A v \in Workers : Custody(v)' \subseteq Custody(v)
<1> USE PoolAssumption
<1>t. /\ down \in [Workers -> Seq(Tasks)] /\ up \in [Workers -> Seq(Tasks \cup Odd)]
      /\ held \in [Workers -> Tasks \cup {None}]
  BY DEF TypeOK
<1>1. UNCHANGED <<unsent, backlog, mq, record, answers>>
  BY DEF Crash, Close, ChildExit, ChildRead, ChildFinish, DropReply, TornReply, SpinEnds
<1>2. ASSUME NEW v \in Workers \ {w} PROVE Custody(v)' = Custody(v)
  <2>1. down'[v] = down[v] /\ held'[v] = held[v] /\ up'[v] = up[v]
    BY <1>t, <1>2 DEF Crash, Close, ChildExit, ChildRead, ChildFinish, DropReply, TornReply, SpinEnds,
                NextReply
  <2>2. QED BY <2>1, SameCustody
<1>3. InSeq(<< >>) = {} /\ \A x : InSeq(<<x>>) = {x}
  BY DEF InSeq
<1>o. {"empty", "half", "junk"} \subseteq Tasks \cup Odd
  BY DEF Odd
<1>4. Custody(w)' \subseteq Custody(w)
  <2>1. CASE Crash(w) \/ ChildExit(w)
    <3>1. held'[w] = None /\ down'[w] = << >>
      BY <1>t, <2>1 DEF Crash, ChildExit, Close
    <3>2. InSeq(up'[w]) \cap Tasks \subseteq InSeq(up[w]) \cap Tasks
      <4>1. CASE up' = up
        BY <4>1
      <4>2. CASE up' = [up EXCEPT ![w] = Append(@, "half")]
        <5>1. up'[w] = Append(up[w], "half") /\ up[w] \in Seq(Tasks \cup Odd)
          BY <1>t, <4>2
        <5>2. InSeq(up'[w]) = InSeq(up[w]) \cup {"half"}
          BY <1>o, <5>1, InAppend
        <5>3. QED BY <5>2
      <4>3. QED BY <2>1, <4>1, <4>2 DEF Crash, ChildExit
    <3>3. QED BY <1>3, <3>1, <3>2 DEF Custody
  <2>2. CASE ChildRead(w)
    <3>1. /\ down[w] # << >> /\ held'[w] = Head(down[w]) /\ down'[w] = Tail(down[w]) /\ up' = up
      BY <1>t, <2>2 DEF ChildRead, PipeMarks
    <3>2. InSeq(down[w]) = InSeq(Tail(down[w])) \cup {Head(down[w])}
      BY <1>t, <3>1, InTail
    <3>3. QED BY <3>1, <3>2 DEF Custody
  <2>3. CASE ChildFinish(w)
    <3>1. held[w] = record[w] /\ record[w] \in Tasks
      BY <2>3 DEF ChildFinish, SlotShape, SlotOK, SlotStage
    <3>2. PICK x \in {held[w], "empty"} : up' = [up EXCEPT ![w] = Append(@, x)]
      BY <2>3 DEF ChildFinish
    <3>3. up'[w] = Append(up[w], x) /\ held'[w] = None /\ down' = down
      BY <1>t, <2>3, <3>2 DEF ChildFinish
    <3>4. InSeq(up'[w]) = InSeq(up[w]) \cup {x}
      BY <1>t, <1>o, <3>1, <3>3, InAppend
    <3>5. x \in Tasks => x \in {held[w]} \ {None}
      BY <3>1, <3>2
    <3>6. QED BY <3>3, <3>4, <3>5 DEF Custody
  <2>4. CASE DropReply(w) \/ TornReply(w) \/ SpinEnds(w)
    <3>1. UNCHANGED <<down, held>>
      BY <2>4 DEF DropReply, TornReply, SpinEnds
    <3>2. \/ up'[w] = up[w] \/ up'[w] \in {<< >>, <<"junk">>}
          \/ up[w] # << >> /\ up'[w] = Tail(up[w])
      BY <1>t, <2>4 DEF DropReply, TornReply, SpinEnds, NextReply
    <3>3. InSeq(up'[w]) \cap Tasks \subseteq InSeq(up[w]) \cap Tasks
      <4>1. CASE up[w] # << >> /\ up'[w] = Tail(up[w])
        BY <1>t, <4>1, InTail
      <4>2. CASE up'[w] \in {<< >>, <<"junk">>}
        BY <1>3, <4>2
      <4>3. QED BY <3>2, <4>1, <4>2
    <3>4. QED BY <3>1, <3>3 DEF Custody
  <2>5. QED BY <2>1, <2>2, <2>3, <2>4
<1>5. QED BY <1>1, <1>2, <1>4

(***************************************************************************)
(* A slot that is given t had nothing; it has t, unless its worker is dead.*)
(***************************************************************************)
LEMMA DispatchGives ==
  ASSUME TypeOK, SlotShape, NEW w \in Workers, NEW t \in Tasks, ~busy[w], Dispatch(t, w)
  PROVE  /\ record' = [record EXCEPT ![w] = t] /\ Custody(w) = {}
         /\ Custody(w)' = IF Alive(w) THEN {t} ELSE {}
         /\ \A v \in Workers \ {w} : Custody(v)' = Custody(v)
<1> USE PoolAssumption
<1>t. /\ down \in [Workers -> Seq(Tasks)] /\ record \in [Workers -> Tasks \cup {None}]
      /\ UNCHANGED <<held, up>>
  BY DEF TypeOK, Dispatch
<1>1. Custody(w) = {}
  BY CustodyIsRecord DEF SlotShape
<1>2. CASE Alive(w)
  <2>1. down'[w] = Append(down[w], t) /\ \A v \in Workers \ {w} : down'[v] = down[v]
    BY <1>t, <1>2 DEF Dispatch
  <2>2. InSeq(down'[w]) = InSeq(down[w]) \cup {t}
    BY <1>t, <2>1, InAppend
  <2>3. Custody(w)' = {t}
    BY <1>t, <1>1, <2>2 DEF Custody
  <2>4. \A v \in Workers \ {w} : Custody(v)' = Custody(v)
    BY <1>t, <2>1 DEF Custody
  <2>5. QED BY <1>1, <1>2, <2>3, <2>4 DEF Dispatch
<1>3. CASE ~Alive(w)
  <2>1. \A v \in Workers : Custody(v)' = Custody(v)
    BY <1>t, <1>3 DEF Custody, Dispatch
  <2>2. QED BY <1>1, <1>3, <2>1 DEF Dispatch
<1>4. QED BY <1>2, <1>3

(***************************************************************************)
(* A published reply is that of the slot's task, which leaves the slot.    *)
(***************************************************************************)
LEMMA PublishTakes ==
  ASSUME TypeOK, SlotShape, NEW w \in Workers, PublishReply(w)
  PROVE  /\ record[w] \in Tasks /\ Custody(w) = {record[w]} /\ Custody(w)' = {}
         /\ answers' = [answers EXCEPT ![record[w]] = Append(@, "done")]
         /\ UNCHANGED <<unsent, backlog, mq, record>>
         /\ \A v \in Workers \ {w} : Custody(v)' = Custody(v)
<1> USE PoolAssumption
<1>t. up \in [Workers -> Seq(Tasks \cup Odd)]
  BY DEF TypeOK
<1>1. /\ up[w] # << >> /\ Head(up[w]) \in Tasks
      /\ answers' = [answers EXCEPT ![Head(up[w])] = Append(@, "done")]
      /\ up' = [up EXCEPT ![w] = Tail(@)]
      /\ UNCHANGED <<unsent, backlog, mq, record, down, held>>
  BY DEF PublishReply, NextReply
<1>2. SlotOK(w) /\ SlotOK(w)'
  BY ReplyRead DEF SlotShape
<1>3. InSeq(up[w]) = InSeq(Tail(up[w])) \cup {Head(up[w])}
  BY <1>t, <1>1, InTail
<1>4. Head(up[w]) \in Custody(w)
  BY <1>1, <1>3 DEF Custody
<1>5. Custody(w) = {record[w]} /\ Head(up[w]) = record[w]
  BY <1>2, <1>4, CustodyIsRecord
<1>6. Custody(w)' = {}
  <2>1. ~busy'[w]
    BY DEF PublishReply, TypeOK
  <2>2. InSeq(down'[w]) = {} /\ held'[w] = None /\ up'[w] = << >>
    <3>1. OneBack(w) /\ down[w] = << >> /\ child[w] # "task" /\ held[w] = None
      BY <1>1, <1>2 DEF SlotOK, SlotStage, NothingBack
    <3>2. Tail(up[w]) = << >>
      BY <1>1, <3>1, HeadBack
    <3>3. QED BY <1>t, <1>1, <3>1, <3>2 DEF InSeq
  <2>3. QED BY <2>2 DEF Custody, InSeq
<1>7. \A v \in Workers \ {w} : Custody(v)' = Custody(v)
  BY <1>t, <1>1 DEF Custody
<1>8. QED BY <1>1, <1>5, <1>6, <1>7

(***************************************************************************)
(* Reaping empties the slots of all zombies, and reports the records of    *)
(* some.                                                                   *)
(***************************************************************************)
LEMMA ReapTakes ==
  ASSUME TypeOK, SlotShape, ReapChildren
  PROVE  /\ UNCHANGED <<unsent, backlog, mq, record>>
         /\ \A v \in Workers : Custody(v)' = IF v \in Zombies THEN {} ELSE Custody(v)
         /\ \A v \in Zombies : child'[v] \in {"loop", "gone"}
         /\ \E B \in SUBSET {v \in Zombies : child[v] = "killed"} :
              answers' = [t \in Tasks |-> IF \E v \in B : record[v] = t
                                          THEN Append(answers[t], "crash") ELSE answers[t]]
<1> DEFINE killed == {v \in Zombies : child[v] = "killed"}
<1>1. PICK F \in SUBSET killed :
        /\ up'      = [v \in Workers |-> IF v \in Zombies THEN << >> ELSE up[v]]
        /\ child'   = [v \in Workers |-> IF v \in killed \ F THEN "loop"
                                          ELSE IF v \in Zombies THEN "gone" ELSE child[v]]
        /\ answers' = [t \in Tasks |-> IF \E v \in killed \ F : record[v] = t
                                       THEN Append(answers[t], "crash") ELSE answers[t]]
  BY DEF ReapChildren, CrashReport
<1>2. UNCHANGED <<unsent, backlog, mq, record, down, held>>
  BY DEF ReapChildren
<1>3. ASSUME NEW v \in Workers PROVE Custody(v)' = IF v \in Zombies THEN {} ELSE Custody(v)
  <2>1. CASE v \in Zombies
    <3>1. down[v] = << >> /\ held[v] = None
      BY <2>1 DEF Zombies, SlotShape, SlotOK, SlotStage
    <3>2. up'[v] = << >>
      BY <1>1, <2>1
    <3>3. QED BY <1>2, <2>1, <3>1, <3>2 DEF Custody, InSeq
  <2>2. CASE v \notin Zombies
    BY <1>1, <1>2, <2>2 DEF Custody
  <2>3. QED BY <2>1, <2>2
<1>4. killed \ F \in SUBSET killed
  OBVIOUS
<1>5. \A v \in Zombies : child'[v] \in {"loop", "gone"}
  <2>1. \A v \in Zombies : v \in Workers
    BY DEF Zombies
  <2>2. QED BY <1>1, <2>1
<1>6. QED BY <1>1, <1>2, <1>3, <1>4, <1>5

(***************************************************************************)
(* Seen from the routes of tasks, every step is one of six kinds.          *)
(***************************************************************************)
Loses ==
  /\ UNCHANGED <<unsent, backlog, mq, record, answers>>
  /\ \A v \in Workers : Custody(v)' \subseteq Custody(v)

Comes(t) ==
  /\ t \in unsent /\ unsent' = unsent \ {t} /\ mq' = Append(mq, t)
  /\ UNCHANGED <<backlog, record, answers>>
  /\ \A v \in Workers : Custody(v)' = Custody(v)

Gives(t, w) ==
  /\ \/ t \in backlog /\ backlog' = backlog \ {t} /\ mq' = mq
     \/ mq # << >> /\ t = Head(mq) /\ mq' = Tail(mq) /\ backlog' = backlog
  /\ record' = [record EXCEPT ![w] = t]
  /\ UNCHANGED <<unsent, answers>>
  /\ Custody(w) = {} /\ Custody(w)' = IF Alive(w) THEN {t} ELSE {}
  /\ \A v \in Workers \ {w} : Custody(v)' = Custody(v)

Refuses ==
  /\ mq # << >> /\ mq' = Tail(mq)
  /\ answers' = [answers EXCEPT ![Head(mq)] = Append(@, "overflow")]
  /\ UNCHANGED <<unsent, backlog, record>>
  /\ \A v \in Workers : Custody(v)' = Custody(v)

Publishes(w) ==
  /\ record[w] \in Tasks /\ Custody(w) = {record[w]} /\ Custody(w)' = {}
  /\ answers' = [answers EXCEPT ![record[w]] = Append(@, "done")]
  /\ UNCHANGED <<unsent, backlog, mq, record>>
  /\ \A v \in Workers \ {w} : Custody(v)' = Custody(v)

Reaps(Z, B) ==
  /\ B \subseteq Z
  /\ (\A v \in Z : child'[v] \in {"loop", "gone"})  /\ \A v \in B : child[v] = "killed"
  /\ UNCHANGED <<unsent, backlog, mq, record>>
  /\ \A v \in Workers : Custody(v)' = IF v \in Z THEN {} ELSE Custody(v)
  /\ answers' = [t \in Tasks |-> IF \E v \in B : record[v] = t
                                 THEN Append(answers[t], "crash") ELSE answers[t]]

LEMMA StepKinds ==
  ASSUME TypeOK, MqMarks, PipeMarks, SlotShape, [Next]_vars
  PROVE  \/ Loses \/ Refuses
         \/ \E t \in Tasks : Comes(t) \/ \E w \in Workers : Gives(t, w)
         \/ \E w \in Workers : Publishes(w)
         \/ \E Z \in SUBSET Workers : \E B \in SUBSET Z : Reaps(Z, B)
<1> DEFINE Kind == \/ Loses \/ Refuses
                   \/ \E t \in Tasks : Comes(t) \/ \E w \in Workers : Gives(t, w)
                   \/ \E w \in Workers : Publishes(w)
                   \/ \E Z \in SUBSET Workers : \E B \in SUBSET Z : Reaps(Z, B)
<1>a. ASSUME UNCHANGED <<down, held, up>> PROVE \A v \in Workers : Custody(v)' = Custody(v)
  BY <1>a DEF Custody
<1>1. ASSUME NEW t \in Tasks, Arrive(t) PROVE Kind
  <2>1. Comes(t)
    BY <1>1, <1>a DEF Arrive, Comes
  <2>2. QED BY <2>1
<1>2. ASSUME NEW w \in Workers,
             \/ Crash(w) \/ ChildExit(w) \/ ChildRead(w) \/ ChildFinish(w)
             \/ DropReply(w) \/ TornReply(w) \/ SpinEnds(w)
      PROVE  Kind
  BY <1>2, LosesOnly DEF Loses
<1>3. ASSUME \/ LoadEnd \/ EpollWait \/ IgnoreSignal \/ KillChildren \/ UNCHANGED vars
             \/ \E s \in Outside : OutsideSignal(s)
             \/ \E w \in Workers : Announce(w) \/ ChildEpollWait(w) \/ ChildSignal(w) \/ ReadNothing(w)
      PROVE  Kind
  <2>1. UNCHANGED <<down, held, up, unsent, backlog, mq, record, answers>>
    BY <1>3 DEF LoadEnd, EpollWait, IgnoreSignal, KillChildren, OutsideSignal, Announce,
                ChildEpollWait, ChildSignal, ReadNothing, vars
  <2>2. Loses
    BY <2>1, <1>a DEF Loses
  <2>3. QED BY <2>2
<1>4. ASSUME NEW w \in Workers, NEW t \in Tasks, LoadTask(t, w) PROVE Kind
  <2>1. ~busy[w] /\ Dispatch(t, w)
    BY <1>4 DEF LoadTask, FreeSlots
  <2>2. Gives(t, w)
    BY <1>4, <2>1, DispatchGives DEF LoadTask, Gives
  <2>3. QED BY <2>2
<1>5. ASSUME NEW w \in Workers, AcceptRequest(w) PROVE Kind
  <2>1. ~busy[w] /\ Dispatch(Head(mq), w) /\ mq # << >>
    BY <1>5 DEF AcceptRequest, FreeSlots, Take, MqMarks
  <2>2. Head(mq) \in Tasks
    BY <2>1 DEF TypeOK
  <2>3. Gives(Head(mq), w)
    BY <1>5, <2>1, <2>2, DispatchGives DEF AcceptRequest, Gives
  <2>4. QED BY <2>2, <2>3
<1>6. ASSUME RefuseRequest PROVE Kind
  <2>1. Refuses
    BY <1>6, <1>a DEF RefuseRequest, Refuses, Take, MqMarks
  <2>2. QED BY <2>1
<1>7. ASSUME ReapChildren PROVE Kind
  <2>1. Zombies \in SUBSET Workers
    BY DEF Zombies
  <2>2. PICK B \in SUBSET Zombies : Reaps(Zombies, B)
    <3>1. PICK B \in SUBSET {v \in Zombies : child[v] = "killed"} :
            answers' = [t \in Tasks |-> IF \E v \in B : record[v] = t
                                        THEN Append(answers[t], "crash") ELSE answers[t]]
      BY <1>7, ReapTakes
    <3>2. B \in SUBSET Zombies /\ \A v \in B : child[v] = "killed"
      OBVIOUS
    <3>3. Reaps(Zombies, B)
      BY <1>7, <3>1, <3>2, ReapTakes DEF Reaps
    <3>4. QED BY <3>2, <3>3
  <2>3. QED BY <2>1, <2>2
<1>8. ASSUME NEW w \in Workers, PublishReply(w) PROVE Kind
  BY <1>8, PublishTakes DEF Publishes
<1>9. QED
  <2> HIDE DEF Kind
  <2>1. Kind
    BY <1>1, <1>2, <1>3, <1>4, <1>5, <1>6, <1>7, <1>8 DEF Next, ParentStep, ChildStep, HandlePipe
  <2>2. QED BY <2>1 DEF Kind

(***************************************************************************)
(* Tasks stay on one way.                                                  *)
(***************************************************************************)
LEMMA RoutesStep ==
  ASSUME TypeOK, MqMarks, PipeMarks, SlotShape, RoutesApart, [Next]_vars
  PROVE  RoutesApart'
<1> USE PoolAssumption
<1>t. /\ unsent \subseteq Tasks /\ backlog \subseteq Tasks /\ mq \in Seq(Tasks)
      /\ record \in [Workers -> Tasks \cup {None}]
  BY DEF TypeOK
<1>m. ASSUME mq # << >>
      PROVE  /\ InSeq(mq) = InSeq(Tail(mq)) \cup {Head(mq)} /\ Head(mq) \notin InSeq(Tail(mq))
             /\ \A i, j \in DOMAIN Tail(mq) : Tail(mq)[i] = Tail(mq)[j] => i = j
  BY <1>t, <1>m, InTail DEF RoutesApart
<1>1. CASE Loses \/ (\E w \in Workers : Publishes(w)) \/ (\E Z \in SUBSET Workers : \E B \in SUBSET Z : Reaps(Z, B))
  <2>1. UNCHANGED <<unsent, backlog, mq, record>>
    BY <1>1 DEF Loses, Publishes, Reaps
  <2>2. QED BY <2>1 DEF RoutesApart, Waiting
<1>2. ASSUME NEW t \in Tasks, Comes(t) PROVE RoutesApart'
  <2>1. t \notin InSeq(mq) /\ t \notin backlog
    BY <1>2 DEF Comes, RoutesApart
  <2>2. /\ InSeq(mq') = InSeq(mq) \cup {t}
        /\ \A i, j \in DOMAIN mq' : mq'[i] = mq'[j] => i = j
    BY <1>t, <1>2, <2>1, InAppend DEF Comes, RoutesApart
  <2>3. Waiting' = Waiting
    BY <1>2, <2>2 DEF Comes, Waiting
  <2>4. unsent' = unsent \ {t} /\ UNCHANGED <<backlog, record>>
    BY <1>2 DEF Comes
  <2>5. InSeq(mq)' = InSeq(mq')
    BY DEF InSeq
  <2>6. QED BY <2>1, <2>2, <2>3, <2>4, <2>5 DEF RoutesApart
<1>3. ASSUME NEW t \in Tasks, NEW w \in Workers, Gives(t, w) PROVE RoutesApart'
  <2>1. /\ Waiting' = Waiting \ {t} /\ t \in Waiting /\ unsent' = unsent
        /\ backlog' \subseteq backlog /\ InSeq(mq') \subseteq InSeq(mq)
        /\ \A i, j \in DOMAIN mq' : mq'[i] = mq'[j] => i = j
    <3>1. CASE t \in backlog /\ backlog' = backlog \ {t} /\ mq' = mq
      BY <1>3, <3>1 DEF Gives, Waiting, RoutesApart
    <3>2. CASE mq # << >> /\ t = Head(mq) /\ mq' = Tail(mq) /\ backlog' = backlog
      BY <1>3, <1>m, <3>2 DEF Gives, Waiting, RoutesApart
    <3>3. QED BY <1>3, <3>1, <3>2 DEF Gives
  <2>2. \A v \in Workers : record'[v] = IF v = w THEN t ELSE record[v]
    BY <1>t, <1>3 DEF Gives
  <2>3. \A v \in Workers : record'[v] \notin Waiting'
    BY <2>1, <2>2 DEF RoutesApart
  <2>4. \A v \in Workers : record[v] # t
    BY <2>1 DEF RoutesApart
  <2>5. \A v, u \in Workers : record'[v] = record'[u] => record'[v] = None \/ v = u
    BY <2>2, <2>4 DEF RoutesApart
  <2>6. QED BY <2>1, <2>3, <2>5 DEF RoutesApart
<1>4. CASE Refuses
  BY <1>4, <1>m DEF Refuses, RoutesApart, Waiting
<1>5. QED BY <1>1, <1>2, <1>3, <1>4, StepKinds

(***************************************************************************)
(* Answers stay in order: a task on its way has none, one on a record was  *)
(* not refused.                                                            *)
(***************************************************************************)
Legal(a) ==
  /\ "overflow" \in InSeq(a) => a = <<"overflow">>
  /\ \A i \in 2 .. Len(a) : a[i] = "crash"

LEMMA LegalFirst == ASSUME NEW x \in Answer PROVE Legal(Append(<< >>, x))
<1>1. Append(<< >>, x) = <<x>>
  OBVIOUS
<1>2. InSeq(<<x>>) = {x} /\ Len(<<x>>) = 1
  BY DEF InSeq
<1>3. QED BY <1>1, <1>2 DEF Legal

LEMMA LegalCrash ==
  ASSUME NEW a \in Seq(Answer), Legal(a), a # <<"overflow">>
  PROVE  Legal(Append(a, "crash")) /\ Append(a, "crash") # <<"overflow">>
<1> DEFINE b == Append(a, "crash")
           n == Len(a)
<1>1. /\ n \in Nat /\ Len(b) = n + 1 /\ b[n + 1] = "crash"
      /\ \A i \in 1..n : b[i] = a[i]
  BY AppendProperties DEF Answer
<1>2. InSeq(b) = InSeq(a) \cup {"crash"}
  BY InAppend DEF Answer
<1>3. "overflow" \notin InSeq(b)
  BY <1>2 DEF Legal
<1>4. b # <<"overflow">>
  <2>1. InSeq(<<"overflow">>) = {"overflow"}
    BY DEF InSeq
  <2>2. QED BY <1>3, <2>1
<1>5. ASSUME NEW i \in 2 .. (n + 1) PROVE b[i] = "crash"
  <2>1. CASE i = n + 1
    BY <1>1, <2>1
  <2>2. CASE i # n + 1
    <3>1. i \in 2 .. n /\ i \in 1 .. n
      BY <1>1, <2>2
    <3>2. QED BY <1>1, <3>1 DEF Legal
  <2>3. QED BY <2>1, <2>2
<1> HIDE DEF b, n
<1>6. Legal(b)
  BY <1>1, <1>3, <1>5 DEF Legal
<1>7. QED BY <1>4, <1>6 DEF b

LEMMA AnswersStep ==
  ASSUME TypeOK, MqMarks, PipeMarks, SlotShape, RoutesApart, AnswersFit, AnswersLegal, [Next]_vars
  PROVE  AnswersFit' /\ AnswersLegal'
<1> USE PoolAssumption
<1>t. /\ unsent \subseteq Tasks /\ backlog \subseteq Tasks /\ mq \in Seq(Tasks)
      /\ record \in [Workers -> Tasks \cup {None}] /\ answers \in [Tasks -> Seq(Answer)]
  BY DEF TypeOK
<1>c. \A w \in Workers : Custody(w) \subseteq {record[w]} \ {None}
  BY CustodyIsRecord DEF SlotShape
<1>l. AnswersLegal = (\A t \in Tasks : Legal(answers[t])) /\ AnswersLegal' = (\A t \in Tasks : Legal(answers'[t]))
  BY DEF AnswersLegal, Legal
<1>m. ASSUME mq # << >>
      PROVE  /\ InSeq(mq) = InSeq(Tail(mq)) \cup {Head(mq)} /\ Head(mq) \notin InSeq(Tail(mq))
             /\ Head(mq) \in Tasks
  <2>1. InSeq(mq) = InSeq(Tail(mq)) \cup {Head(mq)} /\ Head(mq) \notin InSeq(Tail(mq))
    BY <1>t, <1>m, InTail DEF RoutesApart
  <2>2. Head(mq) \in Tasks
    BY <1>t, <1>m
  <2>3. QED BY <2>1, <2>2
<1>1. CASE Loses
  <2>1. UNCHANGED <<unsent, backlog, mq, record, answers>> /\ Waiting' = Waiting
    BY <1>1 DEF Loses, Waiting
  <2>2. \A v \in Workers : Custody(v)' # {} => Custody(v) # {}
    BY <1>1 DEF Loses
  <2>3. AnswersFit'
    BY <2>1, <2>2 DEF AnswersFit
  <2>4. QED BY <1>l, <2>1, <2>3
<1>2. ASSUME NEW t \in Tasks, Comes(t) PROVE AnswersFit' /\ AnswersLegal'
  <2>1. InSeq(mq') = InSeq(mq) \cup {t}
    BY <1>t, <1>2, InAppend DEF Comes
  <2>2. Waiting' = Waiting
    BY <1>2, <2>1 DEF Comes, Waiting
  <2>3. UNCHANGED <<record, answers>> /\ \A v \in Workers : Custody(v)' = Custody(v)
    BY <1>2 DEF Comes
  <2>4. AnswersFit'
    BY <2>2, <2>3 DEF AnswersFit
  <2>5. QED BY <1>l, <2>3, <2>4
<1>3. ASSUME NEW t \in Tasks, NEW w \in Workers, Gives(t, w) PROVE AnswersFit' /\ AnswersLegal'
  <2>1. Waiting' \subseteq Waiting /\ t \in Waiting
    <3>1. CASE t \in backlog /\ backlog' = backlog \ {t} /\ mq' = mq
      BY <1>3, <3>1 DEF Gives, Waiting
    <3>2. CASE mq # << >> /\ t = Head(mq) /\ mq' = Tail(mq) /\ backlog' = backlog
      BY <1>3, <1>m, <3>2 DEF Gives, Waiting
    <3>3. QED BY <1>3, <3>1, <3>2 DEF Gives
  <2>2. answers[t] = << >> /\ answers' = answers /\ << >> # <<"overflow">>
    BY <1>3, <2>1 DEF Gives, AnswersFit
  <2>3. \A v \in Workers : record'[v] = IF v = w THEN t ELSE record[v]
    BY <1>t, <1>3 DEF Gives
  <2>4. \A v \in Workers : v # w => Custody(v)' = Custody(v)
    BY <1>3 DEF Gives
  <2>5. AnswersFit'
    BY <2>1, <2>2, <2>3, <2>4 DEF AnswersFit
  <2>6. QED BY <1>l, <2>2, <2>5
<1>4. CASE Refuses
  <2> DEFINE h == Head(mq)
  <2>1. h \in Tasks /\ h \in Waiting /\ Waiting' = Waiting \ {h}
    BY <1>m, <1>4 DEF Refuses, Waiting, RoutesApart
  <2>2. answers[h] = << >> /\ \A v \in Workers : record[v] # h
    BY <2>1 DEF AnswersFit, RoutesApart
  <2>3. \A t \in Tasks : answers'[t] = IF t = h THEN Append(<< >>, "overflow") ELSE answers[t]
    BY <1>t, <1>4, <2>1, <2>2 DEF Refuses
  <2>4. record' = record /\ \A v \in Workers : Custody(v)' = Custody(v)
    BY <1>4 DEF Refuses
  <2> HIDE DEF h
  <2>5. AnswersFit'
    <3>0. Waiting \subseteq Tasks
      BY <1>t DEF Waiting, InSeq
    <3>1. \A t \in Waiting' : answers'[t] = << >>
      BY <2>1, <2>3, <3>0 DEF AnswersFit
    <3>2. \A v \in Workers : record[v] # None => answers'[record[v]] = answers[record[v]]
      BY <1>t, <2>2, <2>3
    <3>3. \A v \in Workers : Custody(v) # {} => record[v] # None
      BY <1>c
    <3>4. QED BY <2>4, <3>1, <3>2, <3>3 DEF AnswersFit
  <2>6. \A t \in Tasks : Legal(answers'[t])
    BY <1>l, <2>3, LegalFirst DEF Answer
  <2>7. QED BY <1>l, <2>5, <2>6
<1>5. ASSUME NEW w \in Workers, Publishes(w) PROVE AnswersFit' /\ AnswersLegal'
  <2> DEFINE h == record[w]
  <2>1. h \in Tasks /\ h \notin Waiting /\ answers[h] = << >>
    BY <1>5 DEF Publishes, AnswersFit, RoutesApart
  <2>2. \A t \in Tasks : answers'[t] = IF t = h THEN Append(<< >>, "done") ELSE answers[t]
    BY <1>t, <1>5, <2>1 DEF Publishes
  <2>3. UNCHANGED <<unsent, backlog, mq, record>> /\ Waiting' = Waiting
    BY <1>5 DEF Publishes, Waiting
  <2>4. \A v \in Workers : Custody(v)' # {} => v # w /\ Custody(v) # {} /\ record[v] # h /\ record[v] # None
    BY <1>c, <1>5, <2>1 DEF Publishes, RoutesApart
  <2>5. Append(<< >>, "done") # <<"overflow">>
    OBVIOUS
  <2>6. Waiting \subseteq Tasks
    BY <1>t DEF Waiting, InSeq
  <2> HIDE DEF h
  <2>7. \A t \in Waiting : answers'[t] = << >>
    BY <2>1, <2>2, <2>6 DEF AnswersFit
  <2>8. \A v \in Workers : Custody(v)' # {} => answers'[record[v]] = << >>
    BY <1>t, <2>2, <2>4 DEF AnswersFit
  <2>9. \A v \in Workers : record[v] # None => answers'[record[v]] # <<"overflow">>
    BY <1>t, <2>2, <2>5 DEF AnswersFit
  <2>10. AnswersFit'
    BY <2>3, <2>7, <2>8, <2>9 DEF AnswersFit
  <2>11. \A t \in Tasks : Legal(answers'[t])
    BY <1>l, <2>2, LegalFirst DEF Answer
  <2>12. QED BY <1>l, <2>10, <2>11
<1>6. ASSUME NEW Z \in SUBSET Workers, NEW B \in SUBSET Z, Reaps(Z, B) PROVE AnswersFit' /\ AnswersLegal'
  <2> DEFINE Told(t) == \E v \in B : record[v] = t
  <2>1. \A t \in Tasks : answers'[t] = IF Told(t) THEN Append(answers[t], "crash") ELSE answers[t]
    BY <1>6 DEF Reaps
  <2>2. UNCHANGED <<unsent, backlog, mq, record>> /\ Waiting' = Waiting
    BY <1>6 DEF Reaps, Waiting
  <2>3. \A t \in Tasks : Told(t) => t \notin Waiting /\ answers[t] # <<"overflow">>
    BY DEF RoutesApart, AnswersFit
  <2>4. \A v \in Workers : Custody(v)' # {} => v \notin Z /\ Custody(v) # {} /\ record[v] # None
    BY <1>c, <1>6 DEF Reaps
  <2>5. \A v \in Workers : v \notin Z /\ record[v] # None => ~Told(record[v])
    BY DEF RoutesApart
  <2>6. Waiting \subseteq Tasks
    BY <1>t DEF Waiting, InSeq
  <2>7. \A t \in Tasks : Legal(answers'[t]) /\ (answers'[t] = <<"overflow">> => ~Told(t) /\ answers[t] = <<"overflow">>)
    <3> SUFFICES ASSUME NEW t \in Tasks
                 PROVE  Legal(answers'[t]) /\ (answers'[t] = <<"overflow">> => ~Told(t) /\ answers[t] = <<"overflow">>)
        OBVIOUS
    <3>1. answers[t] \in Seq(Answer) /\ Legal(answers[t])
      BY <1>t, <1>l
    <3>2. CASE Told(t)
      <4>1. answers[t] # <<"overflow">> /\ answers'[t] = Append(answers[t], "crash")
        BY <2>1, <2>3, <3>2
      <4>2. Legal(Append(answers[t], "crash")) /\ Append(answers[t], "crash") # <<"overflow">>
        BY <3>1, <4>1, LegalCrash
      <4>3. QED BY <4>1, <4>2
    <3>3. CASE ~Told(t)
      BY <2>1, <3>1, <3>3
    <3>4. QED BY <3>2, <3>3
  <2> HIDE DEF Told
  <2>8. \A t \in Waiting : answers'[t] = << >>
    BY <2>1, <2>3, <2>6 DEF AnswersFit
  <2>9. \A v \in Workers : Custody(v)' # {} => answers'[record[v]] = << >>
    BY <1>t, <2>1, <2>4, <2>5 DEF AnswersFit
  <2>10. \A v \in Workers : record[v] # None => answers'[record[v]] # <<"overflow">>
    BY <1>t, <2>7 DEF AnswersFit
  <2>11. AnswersFit'
    BY <2>2, <2>8, <2>9, <2>10 DEF AnswersFit
  <2>12. QED BY <1>l, <2>7, <2>11
<1>7. QED BY <1>1, <1>2, <1>3, <1>4, <1>5, <1>6, StepKinds

-----------------------------------------------------------------------------
(***************************************************************************)
(* The status of a task tells which way it is on, and every way has one.   *)
(***************************************************************************)
statusBar == [t \in Tasks |-> StatusOf(t)]

LEMMA StatusIs ==
  ASSUME TypeOK, SlotShape, RoutesApart, NEW t \in Tasks
  PROVE  /\ StatusOf(t) = "unsent" <=> t \in unsent
         /\ StatusOf(t) = "saved"  <=> t \in backlog
         /\ StatusOf(t) = "queued" <=> t \in InSeq(mq)
         /\ StatusOf(t) = "held"   <=> \E w \in Workers : t \in Custody(w)
         /\ StatusOf(t) \in {"unsent", "saved", "queued", "held", "closed"}
<1>1. \A w \in Workers : t \in Custody(w) => t \notin Waiting
  BY CustodyIsRecord DEF SlotShape, RoutesApart
<1>2. t \in unsent => t \notin backlog /\ t \notin InSeq(mq)
  BY DEF RoutesApart
<1>3. t \in backlog => t \notin InSeq(mq)
  BY DEF RoutesApart
<1>4. QED BY <1>1, <1>2, <1>3 DEF StatusOf, Waiting

(***************************************************************************)
(* A slot with nothing leaves room: every held task has a slot of its own. *)
(***************************************************************************)
LEMMA RoomLeft ==
  ASSUME TypeOK, SlotShape, RoutesApart, NEW w \in Workers, Custody(w) = {}
  PROVE  Cardinality({t \in Tasks : statusBar[t] = "held"}) < Cardinality(Workers)
<1> USE PoolAssumption
<1> DEFINE H == {t \in Tasks : statusBar[t] = "held"}
           V == {v \in Workers \ {w} : record[v] \in H}
           f == [v \in V |-> record[v]]
<1>1. \A t \in H : \E v \in V : record[v] = t
  <2> SUFFICES ASSUME NEW t \in H PROVE \E v \in V : record[v] = t
      OBVIOUS
  <2>1. PICK v \in Workers : t \in Custody(v)
    BY StatusIs DEF statusBar
  <2>2. v # w /\ record[v] = t
    BY <2>1, CustodyIsRecord DEF SlotShape
  <2>3. QED BY <2>2
<1>2. f \in Surjection(V, H)
  BY <1>1 DEF Surjection
<1>3. /\ IsFiniteSet(Workers \ {w}) /\ Cardinality(Workers) \in Nat
      /\ Cardinality(Workers \ {w}) = Cardinality(Workers) - 1
  BY FS_RemoveElement, FS_CardinalityType
<1>4. IsFiniteSet(V) /\ Cardinality(V) <= Cardinality(Workers \ {w})
  BY <1>3, FS_Subset
<1> HIDE DEF f, H, V
<1>5. IsFiniteSet(H) /\ Cardinality(H) <= Cardinality(V)
  BY <1>2, <1>4, FS_Surjection
<1>6. Cardinality(H) \in Nat /\ Cardinality(V) \in Nat
  BY <1>4, <1>5, FS_CardinalityType
<1>7. QED BY <1>3, <1>4, <1>5, <1>6 DEF H

(***************************************************************************)
(* Slots that lose tasks, and reports of tasks lost now or before.         *)
(***************************************************************************)
LEMMA GivesUp ==
  ASSUME TypeOK, SlotShape, RoutesApart, UNCHANGED <<unsent, backlog, mq>>,
         \A v \in Workers : Custody(v)' \subseteq Custody(v),
         NEW C \in SUBSET Tasks,
         answers' = [t \in Tasks |-> IF t \in C THEN Append(answers[t], "crash") ELSE answers[t]],
         \A t \in C : /\ t \notin Waiting /\ answers[t] # <<"overflow">>
                      /\ \A v \in Workers : t \notin Custody(v)'
  PROVE  Service!ServiceNext
<1> DEFINE D == {t \in Tasks : statusBar[t] = "held" /\ \A v \in Workers : t \notin Custody(v)'}
<1>1. \A t \in Tasks : StatusOf(t)' = IF t \in D THEN "closed" ELSE StatusOf(t)
  <2> SUFFICES ASSUME NEW t \in Tasks
               PROVE  StatusOf(t)' = IF t \in D THEN "closed" ELSE StatusOf(t)
      OBVIOUS
  <2>1. InSeq(mq)' = InSeq(mq)
    BY DEF InSeq
  <2>2. StatusOf(t)' = IF t \in unsent THEN "unsent"
                       ELSE IF t \in backlog THEN "saved"
                       ELSE IF t \in InSeq(mq) THEN "queued"
                       ELSE IF \E v \in Workers : t \in Custody(v)' THEN "held"
                       ELSE "closed"
    BY <2>1 DEF StatusOf
  <2>3. t \in D <=> StatusOf(t) = "held" /\ \A v \in Workers : t \notin Custody(v)'
    BY DEF statusBar
  <2> HIDE DEF D
  <2>4. QED BY <2>2, <2>3, StatusIs
<1>2. statusBar' = [t \in Tasks |-> IF t \in D THEN "closed" ELSE statusBar[t]]
  BY <1>1 DEF statusBar
<1>3. C \subseteq D \cup {t \in Tasks : statusBar[t] = "closed" /\ answers[t] # <<"overflow">>}
  BY StatusIs DEF statusBar, Waiting
<1>4. D \in SUBSET Tasks /\ D \subseteq {t \in Tasks : statusBar[t] = "held"}
  OBVIOUS
<1> HIDE DEF D
<1>5. Service!GiveUp(D, C)
  BY <1>2, <1>3, <1>4 DEF Service!GiveUp, Service!Holding, statusBar
<1>6. QED BY <1>4, <1>5 DEF Service!ServiceNext

(***************************************************************************)
(* The service counts with an instance of the pool's own Cardinality.      *)
(***************************************************************************)
LEMMA SameCardinality == \A S : Service!Cardinality(S) = Cardinality(S)
BY DEF Service!Cardinality, Cardinality

(***************************************************************************)
(* Every step of the pool is a step of the service, or none.               *)
(***************************************************************************)
LEMMA ServiceStep ==
  ASSUME TypeOK, MqMarks, PipeMarks, SlotShape, RoutesApart, AnswersFit, [Next]_vars
  PROVE  Service!ServiceNext
<1> USE PoolAssumption
<1>t. /\ unsent \subseteq Tasks /\ backlog \subseteq Tasks /\ mq \in Seq(Tasks)
      /\ record \in [Workers -> Tasks \cup {None}] /\ answers \in [Tasks -> Seq(Answer)]
  BY DEF TypeOK
<1>q. InSeq(mq)' = InSeq(mq')
  BY DEF InSeq
<1>s. \A t \in Tasks :
        StatusOf(t)' = IF t \in unsent' THEN "unsent"
                       ELSE IF t \in backlog' THEN "saved"
                       ELSE IF t \in InSeq(mq') THEN "queued"
                       ELSE IF \E v \in Workers : t \in Custody(v)' THEN "held"
                       ELSE "closed"
  BY <1>q DEF StatusOf
<1>m. ASSUME mq # << >>
      PROVE  /\ InSeq(mq) = InSeq(Tail(mq)) \cup {Head(mq)} /\ Head(mq) \notin InSeq(Tail(mq))
             /\ Head(mq) \in Tasks
  <2>1. InSeq(mq) = InSeq(Tail(mq)) \cup {Head(mq)} /\ Head(mq) \notin InSeq(Tail(mq))
    BY <1>t, <1>m, InTail DEF RoutesApart
  <2>2. Head(mq) \in Tasks
    BY <1>t, <1>m
  <2>3. QED BY <2>1, <2>2
<1>1. CASE Loses
  <2>1. UNCHANGED <<unsent, backlog, mq>> /\ \A v \in Workers : Custody(v)' \subseteq Custody(v)
    BY <1>1 DEF Loses
  <2>2. answers' = [t \in Tasks |-> IF t \in {} THEN Append(answers[t], "crash") ELSE answers[t]]
    BY <1>1, <1>t DEF Loses
  <2>3. QED BY <2>1, <2>2, GivesUp
<1>2. ASSUME NEW t \in Tasks, Comes(t) PROVE Service!ServiceNext
  <2>1. InSeq(mq') = InSeq(mq) \cup {t} /\ t \in unsent
    BY <1>t, <1>2, InAppend DEF Comes
  <2>2. \A u \in Tasks : StatusOf(u)' = IF u = t THEN "queued" ELSE StatusOf(u)
    <3> SUFFICES ASSUME NEW u \in Tasks PROVE StatusOf(u)' = IF u = t THEN "queued" ELSE StatusOf(u)
        OBVIOUS
    <3>1. /\ unsent' = unsent \ {t} /\ backlog' = backlog
          /\ \A v \in Workers : Custody(v)' = Custody(v)
      BY <1>2 DEF Comes
    <3>2. QED BY <1>s, <2>1, <3>1, StatusIs
  <2>3. statusBar' = [statusBar EXCEPT ![t] = "queued"] /\ statusBar[t] = "unsent"
    BY <2>1, <2>2, StatusIs DEF statusBar
  <2>4. Service!Submit(t)
    BY <1>2, <2>3 DEF Comes, Service!Submit, statusBar
  <2>5. QED BY <2>4 DEF Service!ServiceNext
<1>3. ASSUME NEW t \in Tasks, NEW w \in Workers, Gives(t, w) PROVE Service!ServiceNext
  <2>1. /\ t \in Waiting \ unsent /\ unsent' = unsent
        /\ backlog' = backlog \ {t} /\ InSeq(mq') = InSeq(mq) \ {t}
    <3>1. CASE t \in backlog /\ backlog' = backlog \ {t} /\ mq' = mq
      BY <1>3, <3>1 DEF Gives, Waiting, RoutesApart
    <3>2. CASE mq # << >> /\ t = Head(mq) /\ mq' = Tail(mq) /\ backlog' = backlog
      BY <1>3, <1>m, <3>2 DEF Gives, Waiting, RoutesApart
    <3>3. QED BY <1>3, <3>1, <3>2 DEF Gives
  <2>2. statusBar[t] \in {"saved", "queued"} /\ answers' = answers
    BY <1>3, <2>1, StatusIs DEF Gives, Waiting, statusBar
  <2>3. ASSUME NEW u \in Tasks
        PROVE  StatusOf(u)' = IF u # t THEN StatusOf(u)
                              ELSE IF Custody(w)' = {} THEN "closed" ELSE "held"
    <3>1. /\ Custody(w) = {} /\ Custody(w)' \in {{}, {t}}
          /\ \A v \in Workers : v # w => Custody(v)' = Custody(v)
      BY <1>3 DEF Gives
    <3>2. \A v \in Workers : t \notin Custody(v)
      BY <2>2, StatusIs DEF statusBar
    <3>3. (\E v \in Workers : u \in Custody(v)')
            <=> IF u = t THEN Custody(w)' # {} ELSE \E v \in Workers : u \in Custody(v)
      BY <3>1, <3>2
    <3>4. QED BY <1>s, <2>1, <3>3, StatusIs DEF StatusOf
  <2>4. CASE Custody(w)' = {}
    <3>1. statusBar' = [statusBar EXCEPT ![t] = "closed"]
      BY <2>3, <2>4 DEF statusBar
    <3>2. Service!Misplace(t)
      BY <2>2, <3>1 DEF Service!Misplace, statusBar
    <3>3. QED BY <3>2 DEF Service!ServiceNext
  <2>5. CASE Custody(w)' # {}
    <3>1. statusBar' = [statusBar EXCEPT ![t] = "held"]
      BY <2>3, <2>5 DEF statusBar
    <3>2. Cardinality({u \in Tasks : statusBar[u] = "held"}) < Cardinality(Workers)
      BY <1>3, RoomLeft DEF Gives
    <3>3. Service!Cardinality(Service!Holding) < Cardinality(Workers)
      BY <3>2, SameCardinality DEF Service!Holding, statusBar
    <3>4. Service!Accept(t)
      BY <2>2, <3>1, <3>3 DEF Service!Accept, statusBar
    <3>5. QED BY <3>4 DEF Service!ServiceNext
  <2>6. QED BY <2>4, <2>5
<1>4. CASE Refuses
  <2> DEFINE h == Head(mq)
  <2>1. h \in Tasks /\ h \in InSeq(mq) /\ InSeq(mq') = InSeq(mq) \ {h}
    BY <1>m, <1>4 DEF Refuses
  <2>2. /\ UNCHANGED <<unsent, backlog>> /\ \A v \in Workers : Custody(v)' = Custody(v)
        /\ answers' = [answers EXCEPT ![h] = Append(@, "overflow")]
    BY <1>4 DEF Refuses
  <2> HIDE DEF h
  <2>3. ASSUME NEW u \in Tasks PROVE StatusOf(u)' = IF u = h THEN "closed" ELSE StatusOf(u)
    BY <1>s, <2>1, <2>2, StatusIs
  <2>4. statusBar' = [statusBar EXCEPT ![h] = "closed"] /\ statusBar[h] = "queued"
    BY <2>1, <2>3, StatusIs DEF statusBar
  <2>5. Service!Refuse(h)
    BY <2>2, <2>4 DEF Service!Refuse, statusBar
  <2>6. QED BY <2>1, <2>5 DEF Service!ServiceNext
<1>5. ASSUME NEW w \in Workers, Publishes(w) PROVE Service!ServiceNext
  <2> DEFINE h == record[w]
  <2>1. /\ h \in Tasks /\ Custody(w) = {h} /\ Custody(w)' = {}
        /\ UNCHANGED <<unsent, backlog, mq>> /\ \A v \in Workers : v # w => Custody(v)' = Custody(v)
        /\ answers' = [answers EXCEPT ![h] = Append(@, "done")]
    BY <1>5 DEF Publishes
  <2>2. \A v \in Workers : v # w => h \notin Custody(v)
    BY <2>1, CustodyIsRecord DEF SlotShape, RoutesApart
  <2> HIDE DEF h
  <2>3. ASSUME NEW u \in Tasks PROVE StatusOf(u)' = IF u = h THEN "closed" ELSE StatusOf(u)
    <3>1. (\E v \in Workers : u \in Custody(v)')
            <=> u # h /\ \E v \in Workers : u \in Custody(v)
      BY <2>1, <2>2
    <3>2. InSeq(mq') = InSeq(mq)
      BY <2>1
    <3>3. StatusOf(h) = "held"
      BY <2>1, StatusIs
    <3>4. h \notin unsent /\ h \notin backlog /\ h \notin InSeq(mq)
      BY <2>1, <3>3, StatusIs
    <3>5. QED BY <1>s, <2>1, <3>1, <3>2, <3>4, StatusIs
  <2>4. statusBar' = [statusBar EXCEPT ![h] = "closed"] /\ statusBar[h] = "held"
    BY <2>1, <2>3, StatusIs DEF statusBar
  <2>5. Service!Finish(h)
    BY <2>1, <2>4 DEF Service!Finish, statusBar
  <2>6. QED BY <2>1, <2>5 DEF Service!ServiceNext
<1>6. ASSUME NEW Z \in SUBSET Workers, NEW B \in SUBSET Z, Reaps(Z, B) PROVE Service!ServiceNext
  <2> DEFINE C == {t \in Tasks : \E v \in B : record[v] = t}
  <2>1. /\ UNCHANGED <<unsent, backlog, mq>>
        /\ \A v \in Workers : Custody(v)' = IF v \in Z THEN {} ELSE Custody(v)
        /\ answers' = [t \in Tasks |-> IF t \in C THEN Append(answers[t], "crash") ELSE answers[t]]
    BY <1>6 DEF Reaps
  <2>2. ASSUME NEW t \in C
        PROVE  /\ t \notin Waiting /\ answers[t] # <<"overflow">>
               /\ \A v \in Workers : t \notin Custody(v)'
    <3>1. PICK b \in B : record[b] = t /\ t \in Tasks
      OBVIOUS
    <3>2. t \notin Waiting /\ answers[t] # <<"overflow">>
      BY <3>1 DEF RoutesApart, AnswersFit
    <3>3. ASSUME NEW v \in Workers, t \in Custody(v) PROVE v \in Z
      BY <3>1, <3>3, CustodyIsRecord DEF SlotShape, RoutesApart
    <3>4. QED BY <2>1, <3>2, <3>3
  <2>3. C \in SUBSET Tasks /\ \A v \in Workers : Custody(v)' \subseteq Custody(v)
    BY <2>1
  <2> HIDE DEF C
  <2>4. QED BY <2>1, <2>2, <2>3, GivesUp
<1>7. QED BY <1>1, <1>2, <1>3, <1>4, <1>5, <1>6, StepKinds

(***************************************************************************)
(* What the refinement needs of every reachable state.                     *)
(***************************************************************************)
LEMMA ServiceInvariance == Spec => [](RoutesApart /\ AnswersFit /\ AnswersLegal)
<1>1. Init => RoutesApart /\ AnswersFit /\ AnswersLegal
  <2> SUFFICES ASSUME Init PROVE RoutesApart /\ AnswersFit /\ AnswersLegal
      OBVIOUS
  <2> USE PoolAssumption
  <2>1. /\ unsent = Tasks \ Backlog /\ backlog = Backlog /\ mq = << >> /\ InSeq(mq) = {}
        /\ record = [w \in Workers |-> None] /\ answers = [t \in Tasks |-> << >>]
        /\ \A w \in Workers : Custody(w) = {}
    BY DEF Init, InSeq, Custody
  <2>2. Waiting \subseteq Tasks
    BY <2>1 DEF Waiting
  <2>3. RoutesApart
    BY <2>1, <2>2 DEF RoutesApart
  <2>4. AnswersFit
    BY <2>1, <2>2 DEF AnswersFit
  <2>5. AnswersLegal
    BY <2>1 DEF AnswersLegal, InSeq
  <2>6. QED BY <2>3, <2>4, <2>5
<1>2. PoolInv /\ RoutesApart /\ AnswersFit /\ AnswersLegal /\ [Next]_vars
        => (RoutesApart /\ AnswersFit /\ AnswersLegal)'
  BY RoutesStep, AnswersStep DEF PoolInv, MarksBacked
<1>3. QED BY <1>1, <1>2, Invariance, PTL DEF Spec

(***************************************************************************)
(* An overflow is a task's only answer; a result comes at most once, and   *)
(* never after a crash report.                                             *)
(***************************************************************************)
THEOREM AnswersMakeSense == Spec => []AnswersLegal
BY ServiceInvariance, PTL

(***************************************************************************)
(* The pool implements TaskService: whatever crashes, a task goes one way, *)
(* to at most one slot, and is answered as the service allows.             *)
(***************************************************************************)
THEOREM ServiceIsImplemented == Spec => ImplementsService
<1>1. Init => Service!ServiceInit
  <2> SUFFICES ASSUME Init PROVE Service!ServiceInit
      OBVIOUS
  <2>1. /\ unsent = Tasks \ Backlog /\ backlog = Backlog
        /\ answers = [t \in Tasks |-> << >>]
    BY DEF Init
  <2>2. \A t \in Tasks : StatusOf(t) = IF t \in Backlog THEN "saved" ELSE "unsent"
    BY <2>1 DEF StatusOf
  <2>3. QED BY <2>1, <2>2 DEF Service!ServiceInit
<1>2. PoolInv /\ RoutesApart /\ AnswersFit /\ [Next]_vars
        => [Service!ServiceNext]_<<[t \in Tasks |-> StatusOf(t)], answers>>
  BY ServiceStep DEF PoolInv, MarksBacked
<1>3. QED BY <1>1, <1>2, Invariance, ServiceInvariance, PTL
          DEF Spec, ImplementsService, Service!ServiceSpec, Service!svars

-----------------------------------------------------------------------------
(***************************************************************************)
(* What a crash report says.  If workers die only in a task, a worker that *)
(* is dead and not yet reaped died in the task of its record, or was given *)
(* that task when it was dead; either way nobody has answered it, and a    *)
(* late reply of it cannot come.                                           *)
(***************************************************************************)
Killed == {"crashing", "killed"}

DiedInTask ==
  \A w \in Workers : child[w] \in Killed =>
    Custody(w) = {} /\ record[w] # None /\ answers[record[w]] = << >>

\* A worker is killed only by a crash, which takes the task out of its slot.
LEMMA CrashTakes ==
  ASSUME TypeOK, SlotShape, "loop" \notin CrashIn, [Next]_vars,
         NEW w \in Workers, child'[w] \in Killed, child[w] \notin Killed
  PROVE  /\ record[w] \in Tasks /\ Custody(w) = {record[w]} /\ Custody(w)' = {}
         /\ UNCHANGED <<record, answers>>
<1> USE PoolAssumption
<1>t. /\ child \in [Workers -> ChildState] /\ up \in [Workers -> Seq(Tasks \cup Odd)]
      /\ held \in [Workers -> Tasks \cup {None}]  /\ down \in [Workers -> Seq(Tasks)]
  BY DEF TypeOK
<1>1. Crash(w)
  <2>1. ASSUME NEW v \in Workers, \/ Crash(v) \/ Announce(v) \/ ChildStep(v) PROVE v = w
    BY <1>t, <2>1 DEF Crash, Close, Announce, ChildStep, ChildEpollWait, ChildRead, ChildFinish,
                      ChildSignal, ChildExit
  <2>2. ~(Announce(w) \/ ChildStep(w))
    BY <1>t DEF Killed, Close, Announce, ChildStep, ChildEpollWait, ChildRead, ChildFinish,
                ChildSignal, ChildExit
  <2>3. ~ReapChildren
    <3> SUFFICES ASSUME ReapChildren PROVE FALSE
        OBVIOUS
    <3>1. PICK R \in SUBSET Workers :
            child' = [v \in Workers |-> IF v \in R THEN "loop"
                                        ELSE IF v \in Zombies THEN "gone" ELSE child[v]]
      <4>1. Zombies \subseteq Workers
        BY DEF Zombies
      <4>2. QED BY <4>1 DEF ReapChildren
    <3>2. QED BY <3>1 DEF Killed
  <2>4. ASSUME \/ ParentStep /\ ~ReapChildren
               \/ \E t \in Tasks : Arrive(t)
               \/ \E s \in Outside : OutsideSignal(s)
               \/ UNCHANGED vars
        PROVE  child' = child
    BY <2>4 DEF ParentStep, LoadEnd, EpollWait, RefuseRequest, IgnoreSignal, KillChildren,
                HandlePipe, PublishReply, DropReply, TornReply, ReadNothing, SpinEnds,
                AcceptRequest, LoadTask, Dispatch, Arrive, OutsideSignal, vars
  <2>5. QED BY <2>1, <2>2, <2>3, <2>4 DEF Next
<1>2. child[w] = "task" /\ SlotOK(w)
  <2>1. child[w] \in CrashIn \/ child[w] = "task"
    BY <1>1 DEF Crash
  <2>2. child[w] # "send" /\ child[w] \in CrashIn => child[w] = "task"
    BY <1>t DEF ChildState
  <2>3. child[w] = "task"
    BY <1>t, <2>1, <2>2 DEF ChildState
  <2>4. QED BY <2>3 DEF SlotShape
<1>3. held[w] = record[w] /\ record[w] \in Tasks /\ NothingBack(w)
  BY <1>2 DEF SlotOK, SlotStage
<1>4. Custody(w) = {record[w]}
  BY <1>2, <1>3, CustodyIsRecord DEF Custody
<1>5. InSeq(up[w]) \cap Tasks = {}
  <2>1. InSeq(<< >>) = {} /\ InSeq(<<"junk">>) = {"junk"}
    BY DEF InSeq
  <2>2. QED BY <1>3, <2>1 DEF NothingBack
<1>6. InSeq(up'[w]) \cap Tasks = {}
  <2>1. CASE up' = up
    BY <1>5, <2>1
  <2>2. CASE up' = [up EXCEPT ![w] = Append(@, "half")]
    <3>1. up'[w] = Append(up[w], "half") /\ up[w] \in Seq(Tasks \cup Odd) /\ "half" \in Tasks \cup Odd
      BY <1>t, <2>2 DEF Odd
    <3>2. InSeq(up'[w]) = InSeq(up[w]) \cup {"half"}
      BY <3>1, InAppend
    <3>3. QED BY <1>5, <3>2
  <2>3. QED BY <1>1, <2>1, <2>2 DEF Crash
<1>7. down'[w] = << >> /\ held'[w] = None
  BY <1>1, <1>t DEF Crash, Close
<1>8. Custody(w)' = {}
  BY <1>6, <1>7 DEF Custody, InSeq
<1>9. UNCHANGED <<record, answers>>
  BY <1>1 DEF Crash
<1>10. QED BY <1>3, <1>4, <1>8, <1>9

LEMMA DiedInTaskStep ==
  ASSUME TypeOK, MqMarks, PipeMarks, SlotShape, RoutesApart, AnswersFit, "loop" \notin CrashIn,
         DiedInTask, [Next]_vars
  PROVE  DiedInTask'
<1> USE PoolAssumption
<1> SUFFICES ASSUME NEW w \in Workers, child'[w] \in Killed
             PROVE  Custody(w)' = {} /\ record'[w] # None /\ answers'[record'[w]] = << >>
    BY DEF DiedInTask
<1>t. /\ unsent \subseteq Tasks /\ backlog \subseteq Tasks /\ mq \in Seq(Tasks)
      /\ record \in [Workers -> Tasks \cup {None}] /\ answers \in [Tasks -> Seq(Answer)]
  BY DEF TypeOK
<1>1. CASE child[w] \notin Killed
  <2>1. /\ record[w] \in Tasks /\ Custody(w) = {record[w]} /\ Custody(w)' = {}
        /\ UNCHANGED <<record, answers>>
    BY <1>1, CrashTakes
  <2>2. answers[record[w]] = << >>
    BY <2>1 DEF AnswersFit
  <2>3. QED BY <2>1, <2>2
<1>2. CASE child[w] \in Killed
  <2>1. /\ Custody(w) = {} /\ record[w] \in Tasks /\ record[w] # None /\ answers[record[w]] = << >>
        /\ ~Alive(w)
    BY <1>t, <1>2 DEF DiedInTask, Killed, Alive
  <2>2. CASE Loses
    BY <2>1, <2>2 DEF Loses
  <2>3. ASSUME NEW t \in Tasks, Comes(t) PROVE UNCHANGED <<record, answers>> /\ Custody(w)' = {}
    BY <2>1, <2>3 DEF Comes
  <2>4. ASSUME NEW t \in Tasks, NEW v \in Workers, Gives(t, v)
        PROVE  Custody(w)' = {} /\ record'[w] # None /\ answers'[record'[w]] = << >>
    <3>1. answers' = answers /\ record' = [record EXCEPT ![v] = t] /\ Custody(w)' = {}
      BY <2>1, <2>4 DEF Gives
    <3>2. t \in Waiting
      <4>1. mq # << >> => Head(mq) \in InSeq(mq)
        BY <1>t, InTail
      <4>2. QED BY <2>4, <4>1 DEF Gives, Waiting
    <3>3. answers[t] = << >> /\ t # None
      BY <3>2 DEF AnswersFit
    <3>4. QED BY <1>t, <2>1, <3>1, <3>3
  <2>5. CASE Refuses
    <3>1. Head(mq) \in Waiting /\ Head(mq) # record[w]
      <4>1. Head(mq) \in InSeq(mq)
        BY <1>t, <2>5, InTail DEF Refuses
      <4>2. QED BY <4>1 DEF Waiting, RoutesApart
    <3>2. record' = record /\ answers'[record[w]] = answers[record[w]] /\ Custody(w)' = {}
      BY <1>t, <2>1, <2>5, <3>1 DEF Refuses
    <3>3. QED BY <2>1, <3>2
  <2>6. ASSUME NEW v \in Workers, Publishes(v)
        PROVE  record' = record /\ answers'[record[w]] = answers[record[w]] /\ Custody(w)' = {}
    <3>1. v # w /\ record[v] # record[w]
      BY <2>1, <2>6 DEF Publishes, RoutesApart
    <3>2. QED BY <1>t, <2>1, <2>6, <3>1 DEF Publishes
  <2>7. ASSUME NEW Z \in SUBSET Workers, NEW B \in SUBSET Z, Reaps(Z, B)
        PROVE  record' = record /\ answers'[record[w]] = answers[record[w]] /\ Custody(w)' = {}
    <3>1. w \notin Z
      BY <2>7 DEF Reaps, Killed
    <3>2. \A v \in B : record[v] # record[w]
      BY <2>1, <3>1 DEF RoutesApart
    <3>3. QED BY <1>t, <2>1, <2>7, <3>1, <3>2 DEF Reaps
  <2>8. QED BY <2>1, <2>2, <2>3, <2>4, <2>5, <2>6, <2>7, StepKinds
<1>3. QED BY <1>1, <1>2

\* Which answer was appended can be told from the answers.
LEMMA LastAppended ==
  ASSUME NEW a \in Seq(Answer), NEW x \in Answer, NEW y \in Answer, Append(a, x) = Append(a, y)
  PROVE  x = y
<1>1. Append(a, x)[Len(a) + 1] = x /\ Append(a, y)[Len(a) + 1] = y
  BY AppendProperties
<1>2. QED BY <1>1

\* A step that adds a crash report finds the worker of the task killed.
LEMMA ReportIsNews ==
  ASSUME TypeOK, MqMarks, PipeMarks, SlotShape, RoutesApart, DiedInTask, [Next]_vars,
         NEW t \in Tasks, answers'[t] = Append(answers[t], "crash")
  PROVE  answers[t] = << >>
<1>t. mq \in Seq(Tasks) /\ answers \in [Tasks -> Seq(Answer)]
  BY DEF TypeOK
<1>1. /\ answers[t] \in Seq(Answer) /\ "crash" \in Answer /\ "done" \in Answer /\ "overflow" \in Answer
  BY <1>t DEF Answer
<1>2. \A x \in Answer : Append(answers[t], x) # answers[t]
  BY <1>1
<1>3. \A x \in Answer : Append(answers[t], x) = Append(answers[t], "crash") => x = "crash"
  BY <1>1, LastAppended
<1>4. ASSUME NEW h \in Tasks, NEW x \in Answer \ {"crash"}, answers' = [answers EXCEPT ![h] = Append(@, x)]
      PROVE  FALSE
  <2>1. answers'[t] = answers[t] \/ answers'[t] = Append(answers[t], x)
    BY <1>t, <1>4
  <2>2. QED BY <1>1, <1>2, <1>3, <2>1
<1>5. answers' # answers
  BY <1>1, <1>2
<1>6. ~Loses /\ (\A u \in Tasks : ~Comes(u)) /\ \A u \in Tasks, v \in Workers : ~Gives(u, v)
  BY <1>5 DEF Loses, Comes, Gives
<1>7. ~Refuses
  <2>1. mq # << >> => Head(mq) \in Tasks
    BY <1>t
  <2>2. Refuses => answers' = [answers EXCEPT ![Head(mq)] = Append(@, "overflow")] /\ Head(mq) \in Tasks
    BY <2>1 DEF Refuses
  <2>3. QED BY <1>1, <1>4, <2>2
<1>8. \A v \in Workers : ~Publishes(v)
  BY <1>1, <1>4 DEF Publishes
<1>9. PICK Z \in SUBSET Workers : \E B \in SUBSET Z : Reaps(Z, B)
  BY <1>6, <1>7, <1>8, StepKinds
<1>10. PICK B \in SUBSET Z : Reaps(Z, B)
  BY <1>9
<1>11. \E v \in B : record[v] = t
  BY <1>1, <1>2, <1>10 DEF Reaps
<1>12. QED BY <1>10, <1>11 DEF Reaps, DiedInTask, Killed

(***************************************************************************)
(* If no worker dies idle, a task that was answered "success" is never     *)
(* reported "error" afterwards.                                            *)
(***************************************************************************)
THEOREM CrashReportsAreNews ==
  ASSUME "loop" \notin CrashIn
  PROVE  Spec => CrashReportIsNews
<1>1. Init => DiedInTask
  BY DEF Init, DiedInTask, Killed
<1>2. /\ PoolInv /\ RoutesApart /\ AnswersFit /\ DiedInTask /\ [Next]_vars
      => DiedInTask'
  BY DiedInTaskStep DEF PoolInv, MarksBacked
<1>3. /\ PoolInv /\ RoutesApart /\ DiedInTask /\ [Next]_vars
      => [\A t \in Tasks : answers'[t] = Append(answers[t], "crash") => answers[t] = << >>]_vars
  BY ReportIsNews DEF PoolInv, MarksBacked
<1>4. QED BY <1>1, <1>2, <1>3, Invariance, ServiceInvariance, PTL DEF Spec, CrashReportIsNews

-----------------------------------------------------------------------------
(***************************************************************************)
(* What an overflow says.  If every task has a reply, and while no worker  *)
(* has crashed, a living worker is busy only with a task in its slot.      *)
(***************************************************************************)
BusyHasTask == \A w \in Workers : Alive(w) /\ busy[w] => Custody(w) # {}

NoneKilled == \A w \in Workers : child[w] \notin Killed

LEMMA BusyHasTaskStep ==
  ASSUME TypeOK, MqMarks, PipeMarks, SlotShape, ~MaySwallow, BusyHasTask, NoneKilled,
         [Next]_vars, faults' = faults
  PROVE  BusyHasTask' /\ NoneKilled'
<1> USE PoolAssumption
<1>t. /\ child \in [Workers -> ChildState] /\ up \in [Workers -> Seq(Tasks \cup Odd)]
      /\ held \in [Workers -> Tasks \cup {None}]  /\ down \in [Workers -> Seq(Tasks)]
      /\ busy \in [Workers -> BOOLEAN] /\ faults \in Nat
  BY DEF TypeOK
<1> DEFINE Rests(v) == /\ busy'[v] = busy[v] /\ child'[v] = child[v] /\ down'[v] = down[v]
                       /\ held'[v] = held[v] /\ up'[v] = up[v]
           Good(v)  == child'[v] \notin Killed /\ (Alive(v)' /\ busy'[v] => Custody(v)' # {})
<1>r. ASSUME NEW v \in Workers, Rests(v) PROVE Good(v)
  BY <1>r, SameCustody DEF BusyHasTask, NoneKilled, Alive
<1>f. ASSUME NEW v \in Workers, ~busy'[v], child'[v] = child[v] PROVE Good(v)
  BY <1>f DEF NoneKilled
<1>1. ASSUME NEW w \in Workers, Crash(w) PROVE FALSE
  BY <1>t, <1>1 DEF Crash
<1>2. ASSUME NEW w \in Workers, Announce(w) \/ ChildExit(w), NEW v \in Workers PROVE Good(v)
  <2>1. CASE v # w
    BY <1>t, <1>2, <2>1, <1>r DEF Announce, ChildExit, Close
  <2>2. CASE v = w
    BY <1>t, <1>2, <2>2 DEF Announce, ChildExit, Close, NoneKilled, Killed, Alive
  <2>3. QED BY <2>1, <2>2
<1>3. ASSUME NEW w \in Workers, ChildRead(w), NEW v \in Workers PROVE Good(v)
  <2>1. CASE v # w
    BY <1>t, <1>3, <2>1, <1>r DEF ChildRead
  <2>2. CASE v = w
    <3>1. down[w] # << >> /\ Head(down[w]) \in Tasks
      BY <1>t, <1>3 DEF ChildRead, PipeMarks
    <3>2. held'[w] = Head(down[w]) /\ child'[w] = "task"
      BY <1>t, <1>3 DEF ChildRead
    <3>3. held'[w] \in Custody(w)'
      BY <3>1, <3>2 DEF Custody
    <3>4. QED BY <2>2, <3>2, <3>3 DEF Killed
  <2>3. QED BY <2>1, <2>2
<1>4. ASSUME NEW w \in Workers, ChildFinish(w), NEW v \in Workers PROVE Good(v)
  <2>1. up' = [up EXCEPT ![w] = Append(@, held[w])]
    BY <1>4 DEF ChildFinish
  <2>2. CASE v # w
    BY <1>t, <1>4, <2>1, <2>2, <1>r DEF ChildFinish
  <2>3. CASE v = w
    <3>1. held[w] \in Tasks /\ child'[w] = "loop"
      BY <1>t, <1>4 DEF ChildFinish, SlotShape, SlotOK, SlotStage
    <3>2. up'[w] = Append(up[w], held[w]) /\ up[w] \in Seq(Tasks \cup Odd)
      BY <1>t, <2>1
    <3>3. held[w] \in InSeq(up'[w])
      BY <3>1, <3>2, InAppend
    <3>4. Custody(w)' # {}
      BY <3>1, <3>3 DEF Custody
    <3>5. QED BY <2>3, <3>1, <3>4 DEF Killed
  <2>4. QED BY <2>2, <2>3
<1>5. ASSUME NEW w \in Workers, NEW t \in Tasks, w \in FreeSlots, Dispatch(t, w), NEW v \in Workers
      PROVE  Good(v)
  <2>1. CASE v # w
    BY <1>t, <1>5, <2>1, <1>r DEF Dispatch
  <2>2. CASE v = w
    <3>1. Custody(w)' = IF Alive(w) THEN {t} ELSE {}
      BY <1>5, DispatchGives DEF FreeSlots
    <3>2. child' = child
      BY <1>5 DEF Dispatch
    <3>3. QED BY <2>2, <3>1, <3>2 DEF NoneKilled, Alive
  <2>3. QED BY <2>1, <2>2
<1>6. ASSUME NEW w \in Workers, NEW t \in Tasks, LoadTask(t, w), NEW v \in Workers PROVE Good(v)
  BY <1>5, <1>6 DEF LoadTask
<1>7. ASSUME NEW w \in Workers, AcceptRequest(w), NEW v \in Workers PROVE Good(v)
  <2>1. mq # << >> /\ mq \in Seq(Tasks)
    BY <1>7 DEF TypeOK, MqMarks, AcceptRequest, Take
  <2>2. Head(mq) \in Tasks
    BY <2>1
  <2>3. QED BY <1>5, <1>7, <2>2 DEF AcceptRequest
<1>8. ASSUME ReapChildren, NEW v \in Workers PROVE Good(v)
  <2>1. {u \in Zombies : child[u] = "killed"} = {}
    BY DEF Zombies, NoneKilled, Killed
  <2>2. /\ child' = [u \in Workers |-> IF u \in Zombies THEN "gone" ELSE child[u]]
        /\ up' = [u \in Workers |-> IF u \in Zombies THEN << >> ELSE up[u]]
        /\ UNCHANGED <<busy, down, held>>
    BY <1>8, <2>1 DEF ReapChildren
  <2>3. CASE v \in Zombies
    BY <2>2, <2>3 DEF Killed, Alive
  <2>4. CASE v \notin Zombies
    BY <2>2, <2>4, <1>r
  <2>5. QED BY <2>3, <2>4
<1>9. ASSUME NEW w \in Workers, PublishReply(w) \/ TornReply(w) \/ SpinEnds(w), NEW v \in Workers
      PROVE  Good(v)
  <2>1. CASE v # w
    BY <1>t, <1>9, <2>1, <1>r DEF PublishReply, TornReply, SpinEnds, NextReply
  <2>2. CASE v = w
    BY <1>t, <1>9, <2>2, <1>f DEF PublishReply, TornReply, SpinEnds
  <2>3. QED BY <2>1, <2>2
<1>10. ASSUME NEW w \in Workers, DropReply(w), NEW v \in Workers PROVE Good(v)
  <2>1. CASE v # w \/ up' = up
    BY <1>t, <1>10, <2>1, <1>r DEF DropReply, NextReply
  <2>2. CASE v = w /\ Head(up[w]) = "empty" /\ up[w] # << >>
    <3>1. UNCHANGED <<busy, child, down, held>>
      BY <1>10 DEF DropReply
    <3>2. OneBack(w) /\ down[w] = << >> /\ held[w] = None
      BY <2>2 DEF SlotShape, SlotOK, SlotStage, NothingBack
    <3>3. PICK x : up[w] \in {<<x>>, <<"junk", x>>}
      BY <3>2 DEF OneBack
    <3>4. up[w] = <<"empty">>
      BY <2>2, <3>3
    <3>5. Custody(w) = {}
      BY <3>2, <3>4 DEF Custody, InSeq
    <3>6. QED BY <2>2, <3>1, <3>5 DEF BusyHasTask, NoneKilled, Alive
  <2>3. QED BY <1>10, <2>1, <2>2 DEF DropReply
<1>11. ASSUME NEW w \in Workers, ReadNothing(w), NEW v \in Workers PROVE Good(v)
  <2>1. UNCHANGED <<child, down, held, up>> /\ (busy'[v] = busy[v] \/ ~busy'[v])
    BY <1>t, <1>11 DEF ReadNothing
  <2>2. QED BY <2>1, <1>r, <1>f
<1>12. ASSUME \/ LoadEnd \/ EpollWait \/ RefuseRequest \/ IgnoreSignal \/ KillChildren \/ UNCHANGED vars
              \/ \E t \in Tasks : Arrive(t)
              \/ \E s \in Outside : OutsideSignal(s)
              \/ \E w \in Workers : ChildEpollWait(w) \/ ChildSignal(w),
              NEW v \in Workers
       PROVE  Good(v)
  <2>1. UNCHANGED <<busy, child, down, held, up>>
    BY <1>12 DEF LoadEnd, EpollWait, RefuseRequest, IgnoreSignal, KillChildren, Arrive, OutsideSignal,
                 ChildEpollWait, ChildSignal, vars
  <2>2. QED BY <2>1, <1>r
<1>13. ASSUME NEW v \in Workers PROVE Good(v)
  <2> HIDE DEF Good, Rests
  <2>1. QED BY <1>1, <1>2, <1>3, <1>4, <1>6, <1>7, <1>8, <1>9, <1>10, <1>11, <1>12
            DEF Next, ParentStep, ChildStep, HandlePipe
<1>14. QED BY <1>13 DEF BusyHasTask, NoneKilled

\* Faults are only counted up.
LEMMA FaultsGrow == TypeOK /\ [Next]_vars => faults' \in Nat /\ faults' >= faults
<1> SUFFICES ASSUME TypeOK, [Next]_vars PROVE faults' \in Nat /\ faults' >= faults
    OBVIOUS
<1>1. faults \in Nat
  BY DEF TypeOK
<1>2. CASE ReapChildren
  <2>1. PICK F \in SUBSET Zombies : faults' = faults + Cardinality(F)
    BY <1>2 DEF ReapChildren
  <2>2. IsFiniteSet(F)
    BY PoolAssumption, FS_Subset DEF Zombies
  <2>3. Cardinality(F) \in Nat
    BY <2>2, FS_CardinalityType
  <2>4. QED BY <1>1, <2>1, <2>3
<1>3. ASSUME NEW w \in Workers, Crash(w) PROVE faults' = faults + 1
  BY <1>3 DEF Crash
<1>4. CASE ~ReapChildren /\ \A w \in Workers : ~Crash(w)
  <2>1. faults' = faults
    BY <1>4 DEF Next, ParentStep, ChildStep, HandlePipe, LoadEnd, EpollWait, RefuseRequest, IgnoreSignal,
                KillChildren, Arrive, OutsideSignal, ChildEpollWait, ChildRead, ChildFinish, ChildSignal,
                ChildExit, Announce, PublishReply, DropReply, TornReply, ReadNothing, SpinEnds,
                AcceptRequest, LoadTask, vars
  <2>2. QED BY <1>1, <2>1
<1>5. QED BY <1>1, <1>2, <1>3, <1>4

\* A task is answered "overflow" only when a request is refused.
LEMMA OverflowIsRefusal ==
  ASSUME TypeOK, SlotShape, Next, NEW t \in Tasks, answers'[t] = Append(answers[t], "overflow")
  PROVE  RefuseRequest
<1>1. answers \in [Tasks -> Seq(Answer)] /\ answers[t] \in Seq(Answer)
      /\ "crash" \in Answer /\ "done" \in Answer /\ "overflow" \in Answer
  BY DEF TypeOK, Answer
<1>2. answers'[t] # answers[t]
  BY <1>1
<1>3. \A x \in Answer : Append(answers[t], x) = Append(answers[t], "overflow") => x = "overflow"
  BY <1>1, LastAppended
<1>4. ~ReapChildren
  <2> SUFFICES ASSUME ReapChildren PROVE FALSE
      OBVIOUS
  <2>1. answers'[t] = answers[t] \/ answers'[t] = Append(answers[t], "crash")
    BY DEF ReapChildren, CrashReport
  <2>2. QED BY <1>1, <1>2, <1>3, <2>1
<1>5. ASSUME NEW w \in Workers, PublishReply(w) PROVE FALSE
  <2>1. answers'[t] = answers[t] \/ answers'[t] = Append(answers[t], "done")
    BY <1>1, <1>5, PublishTakes
  <2>2. QED BY <1>1, <1>2, <1>3, <2>1
<1>6. ASSUME ~RefuseRequest, ~ReapChildren, \A w \in Workers : ~PublishReply(w)
      PROVE  answers' = answers
  BY <1>6 DEF Next, ParentStep, ChildStep, HandlePipe, LoadEnd, EpollWait, IgnoreSignal, KillChildren,
              Arrive, OutsideSignal, ChildEpollWait, ChildRead, ChildFinish, ChildSignal, ChildExit,
              Announce, Crash, DropReply, TornReply, ReadNothing, SpinEnds, AcceptRequest, LoadTask
<1>7. QED BY <1>2, <1>4, <1>5, <1>6

HonestShape == faults = 0 => BusyHasTask /\ NoneKilled

(***************************************************************************)
(* If every task has a reply, and while no worker has crashed, "overflow"  *)
(* is published only when every living worker has a task.                  *)
(***************************************************************************)
THEOREM OverflowsAreHonest ==
  ASSUME ~MaySwallow
  PROVE  Spec => OverflowIsHonest
<1>1. Init => HonestShape
  BY DEF Init, HonestShape, BusyHasTask, NoneKilled, Killed
<1>2. PoolInv /\ HonestShape /\ [Next]_vars => HonestShape'
  <2> SUFFICES ASSUME PoolInv, HonestShape, [Next]_vars, faults' = 0 PROVE BusyHasTask' /\ NoneKilled'
      BY DEF HonestShape
  <2>1. faults = 0
    BY FaultsGrow DEF PoolInv, TypeOK
  <2>2. QED BY <2>1, BusyHasTaskStep DEF PoolInv, MarksBacked, HonestShape
<1>3. /\ PoolInv /\ HonestShape /\ [Next]_vars
      => [faults = 0 => \A t \in Tasks : answers'[t] = Append(answers[t], "overflow")
            => \A w \in Workers : Alive(w) => Custody(w) # {}]_vars
  <2> SUFFICES ASSUME PoolInv, HonestShape, Next, faults = 0, NEW t \in Tasks,
                      answers'[t] = Append(answers[t], "overflow"), NEW w \in Workers, Alive(w)
               PROVE  Custody(w) # {}
      OBVIOUS
  <2>1. RefuseRequest
    BY OverflowIsRefusal DEF PoolInv, MarksBacked
  <2>2. pid[w]
    BY DEF PoolInv, StopShape, Alive
  <2>3. busy[w]
    BY <2>1, <2>2 DEF RefuseRequest, FreeSlots
  <2>4. QED BY <2>3 DEF HonestShape, BusyHasTask
<1>4. QED BY <1>1, <1>2, <1>3, Invariance, PTL DEF Spec, OverflowIsHonest
=============================================================================
