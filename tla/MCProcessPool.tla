--------------------------- MODULE MCProcessPool ---------------------------
(***************************************************************************)
(* Instances of the process pool for TLC.                                  *)
(***************************************************************************)
EXTENDS PoolProperties, TLC

SlotSymmetry == Permutations(Workers)

(***************************************************************************)
(* A life of the service: workers crash while it runs; if none did, it may *)
(* get one signal, when no request is on its way, and then no request      *)
(* arrives, no worker crashes and no fork fails.                           *)
(***************************************************************************)
Quiet == sent = {} /\ mq = << >> /\ faults = 0

LifeNext ==
  \/ LoadEnd \/ EpollWait \/ RefuseRequest \/ IgnoreSignal \/ KillChildren
  \/ ReapChildren /\ (faults' # faults => sent = {})
  \/ \E w \in Workers : HandlePipe(w) \/ AcceptRequest(w) \/ ChildStep(w) \/ Announce(w)
  \/ \E w \in Workers, t \in Tasks : LoadTask(t, w)
  \/ \E w \in Workers : Crash(w) /\ sent = {}
  \/ \E t \in Tasks : Arrive(t) /\ sent = {}
  \/ \E s \in Outside : OutsideSignal(s) /\ Quiet

LifeSpec == Init /\ [][LifeNext]_vars /\ Fairness
=============================================================================
