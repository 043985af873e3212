----------------------------- MODULE LinkProofs -----------------------------
(***************************************************************************)
(* TLAPS proofs about the way of a request into the parent, for any        *)
(* requests, room of the socket and losses of the connection.              *)
(***************************************************************************)
EXTENDS LinkProperties, FiniteSetTheorems, SequenceTheorems, TLAPS

USE LinkAssumption DEF lvars, brokerVars, sendVars, sockVars, parentVars, taskVars, Readers

Units == [of : Requests, kind : {"length", "body"}]

(***************************************************************************)
(* Who may write and who may read: the thread in a callback holds the      *)
(* mutex, a thread without a packet is idle, the parent runs callbacks     *)
(* within loop() only, and it was told of an event that is still there.    *)
(***************************************************************************)
LinkShape ==
  /\ \A r \in Readers : at[r] \in {"length", "body"} <=> mutex = r
  /\ \A r \in Readers : at[r] = "idle" <=> msg[r] = Nobody
  /\ at["parent"] # "idle" => ppc = "loop"
  /\ ppc = "body" => cur \in Requests
  /\ event => sock # << >> /\ ppc \in {"idle", "loop"}

\* A length is in the stream, and its body is not sent yet.
Half == \E r \in Readers : mutex = r /\ at[r] = "body"
Before == IF ppc = "body" THEN 1 ELSE 0

(***************************************************************************)
(* Framed, said of the socket alone: lengths and bodies alternate, each    *)
(* body is that of the length before it, and the first and the last unit   *)
(* agree with the parent and with the thread in the callback.              *)
(***************************************************************************)
Framing ==
  /\ \A i \in 1..Len(sock) : sock[i].kind = "length" <=> (i + Before) % 2 = 1
  /\ \A i, j \in 1..Len(sock) :
       j = i + 1 /\ sock[i].kind = "length" => sock[j] = Unit(sock[i].of, "body")
  /\ sock # << >> /\ ppc = "body" => sock[1] = Unit(cur, "body")
  /\ sock # << >> => (sock[Len(sock)].kind = "length" <=> Half)
  /\ sock = << >> => (ppc = "body" <=> Half)
  /\ \A r \in Readers :
       mutex = r /\ at[r] = "body" =>
         IF sock = << >> THEN cur = msg[r] ELSE sock[Len(sock)].of = msg[r]

LinkInv == LinkTypeOK /\ LinkShape /\ (ppc # "dead" => Framing) /\ DeathHasCause

LEMMA NobodyIsNoReader == Nobody \notin Readers /\ Nobody \notin Requests
  OBVIOUS

LEMMA LinkInitial == LinkInit => LinkInv
<1> SUFFICES ASSUME LinkInit PROVE LinkInv
    OBVIOUS
<1> USE DEF LinkInit
<1>1. LinkTypeOK
  <2>1. net \in Seq(Requests) /\ sock \in Seq(Units)
    OBVIOUS
  <2>2. QED BY <2>1 DEF LinkTypeOK, Units
<1>2. LinkShape /\ Framing /\ DeathHasCause
  BY NobodyIsNoReader DEF LinkShape, Framing, DeathHasCause, Half, Before
<1>3. QED BY <1>1, <1>2 DEF LinkInv

LEMMA LinkTypeStep == LinkTypeOK /\ LinkShape /\ [LinkNext]_lvars => LinkTypeOK'
<1> SUFFICES ASSUME LinkTypeOK, LinkShape, [LinkNext]_lvars PROVE LinkTypeOK'
    OBVIOUS
<1> USE DEF LinkTypeOK
<1>1. ASSUME NEW ok \in BOOLEAN, Connect(ok) PROVE LinkTypeOK'
  BY <1>1 DEF Connect
<1>2. ASSUME NEW t \in Requests, Publish(t) PROVE LinkTypeOK'
  <2>1. net' \in Seq(Requests)
    <3>1. net' = Append(net, t) \/ net' = net
      BY <1>2 DEF Publish
    <3>2. net \in Seq(Requests) /\ Append(net, t) \in Seq(Requests)
      BY AppendProperties
    <3>3. QED BY <3>1, <3>2
  <2>2. QED BY <1>2, <2>1 DEF Publish
<1>3. ASSUME NEW t \in Requests, WorkerReplies(t) PROVE LinkTypeOK'
  BY <1>3 DEF WorkerReplies
<1>4. CASE Drop
  <2>1. {net[i] : i \in 1..Len(net)} \subseteq Requests
    OBVIOUS
  <2>2. QED BY <1>4, <2>1 DEF Drop
<1>5. CASE Reconnect
  BY <1>5 DEF Reconnect
<1>6. ASSUME NEW r \in Readers, TakePacket(r) PROVE LinkTypeOK'
  <2>1. Head(net) \in Requests /\ Tail(net) \in Seq(Requests)
    BY <1>6 DEF TakePacket, TakePacketLeaving
  <2>2. QED BY <1>6, <2>1 DEF TakePacket, TakePacketLeaving
<1>7. ASSUME NEW r \in Readers, LockCallback(r) PROVE LinkTypeOK'
  BY <1>7 DEF LockCallback, BeginCallback
<1>8. ASSUME NEW r \in Readers, SendLength(r) PROVE LinkTypeOK'
  <2>1. msg[r] \in Requests
    BY <1>8 DEF SendLength, LinkShape
  <2>2. sock' \in Seq(Units)
    BY <1>8, <2>1 DEF SendLength, Unit, Units
  <2>3. QED BY <1>8, <2>1, <2>2 DEF SendLength, Units
<1>9. ASSUME NEW r \in Readers, SendBody(r) PROVE LinkTypeOK'
  <2>1. msg[r] \in Requests
    BY <1>9 DEF SendBody, LinkShape
  <2>2. sock' \in Seq(Units)
    BY <1>9, <2>1 DEF SendBody, Unit, Units
  <2>3. QED BY <1>9, <2>1, <2>2 DEF SendBody, Units
<1>10. CASE WaitForEvent
  BY <1>10 DEF WaitForEvent
<1>11. CASE ReadLength
  <2>1. Head(sock) \in Units /\ Tail(sock) \in Seq(Units)
    BY <1>11, HeadTailProperties DEF ReadLength, LinkShape, Units
  <2>2. QED BY <1>11, <2>1 DEF ReadLength, Units
<1>12. ASSUME NEW accepted \in BOOLEAN, ReadBody(accepted) PROVE LinkTypeOK'
  <2>1. Tail(sock) \in Seq(Units) /\ cur \in Requests
    BY <1>12 DEF ReadBody, LinkShape, Units
  <2>2. QED BY <1>12, <2>1 DEF ReadBody, Units
<1>13. ASSUME NEW t \in Requests, PublishReply(t) PROVE LinkTypeOK'
  BY <1>13 DEF PublishReply
<1>14. CASE LeaveLoop
  BY <1>14 DEF LeaveLoop, LeaveLoopWhen
<1>15. CASE UNCHANGED lvars
  BY <1>15
<1>16. QED
  <2> HIDE DEF LinkTypeOK
  <2> QED
    BY <1>1, <1>2, <1>3, <1>4, <1>5, <1>6, <1>7, <1>8, <1>9, <1>10, <1>11, <1>12, <1>13, <1>14, <1>15
       DEF LinkNext, ThreadStep, ParentStep, Deliver

LEMMA LinkShapeStep == LinkTypeOK /\ LinkShape /\ [LinkNext]_lvars => LinkShape'
<1> SUFFICES ASSUME LinkTypeOK, LinkShape, [LinkNext]_lvars PROVE LinkShape'
    OBVIOUS
<1> USE NobodyIsNoReader DEF LinkTypeOK, LinkShape
<1>1. CASE UNCHANGED <<sendVars, sockVars, parentVars>>
  BY <1>1
<1>2. ASSUME NEW r \in Readers, TakePacket(r) PROVE LinkShape'
  <2>1. Head(net) \in Requests
    BY <1>2 DEF TakePacket, TakePacketLeaving
  <2>2. QED BY <1>2, <2>1 DEF TakePacket, TakePacketLeaving
<1>3. ASSUME NEW r \in Readers, LockCallback(r) PROVE LinkShape'
  BY <1>3 DEF LockCallback, BeginCallback
<1>4. ASSUME NEW r \in Readers, SendLength(r) PROVE LinkShape'
  <2>1. sock' # << >>
    BY <1>4 DEF SendLength
  <2>2. QED BY <1>4, <2>1 DEF SendLength
<1>5. ASSUME NEW r \in Readers, SendBody(r) PROVE LinkShape'
  <2>1. sock' # << >>
    BY <1>5 DEF SendBody
  <2>2. QED BY <1>5, <2>1 DEF SendBody
<1>6. CASE WaitForEvent
  BY <1>6 DEF WaitForEvent
<1>7. CASE ReadLength
  <2>1. Head(sock) \in Units
    BY <1>7, HeadTailProperties DEF ReadLength, Units
  <2>2. QED BY <1>7, <2>1 DEF ReadLength, Units
<1>8. ASSUME NEW accepted \in BOOLEAN, ReadBody(accepted) PROVE LinkShape'
  BY <1>8 DEF ReadBody
<1>9. ASSUME NEW t \in Requests, PublishReply(t) PROVE LinkShape'
  BY <1>9 DEF PublishReply
<1>10. CASE LeaveLoop
  BY <1>10 DEF LeaveLoop, LeaveLoopWhen
<1>11. QED
  <2> HIDE DEF LinkTypeOK, LinkShape
  <2> QED
    BY <1>1, <1>2, <1>3, <1>4, <1>5, <1>6, <1>7, <1>8, <1>9, <1>10
       DEF LinkNext, ThreadStep, ParentStep, Deliver, Connect, Publish, WorkerReplies, Drop, Reconnect

(***************************************************************************)
(* The framing is kept.  A unit is added by the thread in the callback,    *)
(* and taken by the parent; the others do not touch the stream.            *)
(***************************************************************************)
LEMMA AddUnit ==
  ASSUME sock \in Seq(Units), NEW u \in Units, sock' = Append(sock, u)
  PROVE  /\ Len(sock) \in Nat /\ Len(sock') = Len(sock) + 1 /\ sock' # << >>
         /\ sock'[Len(sock) + 1] = u
         /\ \A i \in 1..Len(sock') : i \in 1..Len(sock) \/ i = Len(sock) + 1
         /\ \A i \in 1..Len(sock) : sock'[i] = sock[i]
         /\ sock = << >> <=> Len(sock) = 0
  OBVIOUS

LEMMA EmptyLength == ASSUME NEW s \in Seq(Units) PROVE s = << >> <=> Len(s) = 0
  OBVIOUS

LEMMA TakeUnit ==
  ASSUME sock \in Seq(Units), sock # << >>, sock' = Tail(sock)
  PROVE  /\ Len(sock) \in Nat \ {0} /\ Len(sock') = Len(sock) - 1
         /\ Head(sock) = sock[1] /\ sock[1] \in Units
         /\ \A i \in 1..Len(sock') : sock'[i] = sock[i + 1] /\ i + 1 \in 1..Len(sock)
         /\ sock' = << >> <=> Len(sock) = 1
         /\ sock' # << >> => sock'[Len(sock')] = sock[Len(sock)]
<1>1. Len(sock) \in Nat \ {0} /\ Head(sock) = sock[1] /\ sock[1] \in Units
  OBVIOUS
<1>2. /\ sock' \in Seq(Units) /\ Len(sock') = Len(sock) - 1
      /\ \A i \in 1..Len(sock') : sock'[i] = sock[i + 1]
  BY HeadTailProperties
<1>3. sock' = << >> <=> Len(sock') = 0
  BY <1>2, EmptyLength
<1> DEFINE n == Len(sock)
           m == Len(sock')
<1> HIDE DEF n, m
<1>4. n \in Nat \ {0} /\ m = n - 1
  BY <1>1, <1>2 DEF n, m
<1>5. /\ \A i \in 1..m : sock'[i] = sock[i + 1] /\ i + 1 \in 1..n
      /\ m # 0 => sock'[m] = sock[n]
  <2>1. \A i \in 1..m : sock'[i] = sock[i + 1]
    BY <1>2 DEF m
  <2>2. \A i \in 1..m : i + 1 \in 1..n
    BY <1>4
  <2>3. m # 0 => m \in 1..m /\ m + 1 = n
    BY <1>4
  <2>4. QED BY <2>1, <2>2, <2>3
<1>6. m = 0 <=> n = 1
  BY <1>4
<1>7. QED BY <1>1, <1>3, <1>4, <1>5, <1>6 DEF n, m

LEMMA FramingStep ==
  LinkTypeOK /\ LinkShape /\ (ppc # "dead" => Framing) /\ [LinkNext]_lvars =>
    (ppc' # "dead" => Framing')
<1> SUFFICES ASSUME LinkTypeOK, LinkShape, ppc # "dead" => Framing, [LinkNext]_lvars, ppc' # "dead"
             PROVE  Framing'
    OBVIOUS
<1>0. ppc # "dead"
  BY DEF LinkNext, ThreadStep, ParentStep, Deliver, Connect, Publish, WorkerReplies, Drop, Reconnect,
         TakePacket, TakePacketLeaving, LockCallback, BeginCallback, SendLength,
         SendBody, WaitForEvent, ReadLength, ReadBody, PublishReply, LeaveLoop,
         LeaveLoopWhen
<1> USE <1>0, NobodyIsNoReader
<1>t. /\ sock \in Seq(Units)  /\ at \in [Readers -> {"idle", "lock", "length", "body"}]
      /\ msg \in [Readers -> Requests \union {Nobody}]
      /\ ppc \in {"idle", "body", "loop", "dead"}
  BY DEF LinkTypeOK, Units
<1>1. ASSUME UNCHANGED <<sock, cur, mutex>>, UNCHANGED Before,
             \A r \in Readers : mutex = r => at'[r] = "body" <=> at[r] = "body",
             \A r \in Readers : mutex = r /\ at[r] = "body" => msg'[r] = msg[r],
             ppc' = "body" <=> ppc = "body"
      PROVE  Framing'
  BY <1>1 DEF Framing, Half
<1>2. CASE UNCHANGED <<sendVars, sockVars, parentVars>>
  BY <1>1, <1>2 DEF Before
<1>3. ASSUME NEW r \in Readers, TakePacket(r) PROVE Framing'
  BY <1>1, <1>3, <1>t DEF TakePacket, TakePacketLeaving, Before, LinkShape
<1>4. ASSUME NEW r \in Readers, LockCallback(r) PROVE Framing'
  <2>1. /\ mutex = Nobody /\ mutex' = r /\ at'[r] = "length"
        /\ UNCHANGED <<sock, cur, ppc>>
    BY <1>4, <1>t DEF LockCallback, BeginCallback
  <2>2. ~Half /\ ~Half'
    BY <2>1 DEF Half
  <2>3. QED BY <2>1, <2>2 DEF Framing, Before, Half
<1>5. ASSUME NEW r \in Readers, SendLength(r) PROVE Framing'
  <2> DEFINE u == Unit(msg[r], "length")
  <2>1. /\ mutex = r /\ mutex' = r /\ at[r] = "length" /\ at'[r] = "body" /\ msg' = msg
        /\ UNCHANGED <<cur, ppc>> /\ sock' = Append(sock, u) /\ u \in Units
        /\ u.kind = "length" /\ u.of = msg[r]
    BY <1>5, <1>t DEF SendLength, LinkShape, Unit, Units
  <2>2. ~Half /\ Half'
    BY <2>1 DEF Half
  <2> HIDE DEF u
  <2>3. \A i \in 1..Len(sock') : sock'[i].kind = "length" <=> (i + Before') % 2 = 1
    <3>1. Before' = Before /\ Before \in 0..1
      BY <2>1 DEF Before
    <3>2. (Len(sock) + 1 + Before) % 2 = 1
      <4>1. CASE sock = << >>
        BY <2>1, <2>2, <4>1 DEF Framing, Before
      <4>2. CASE sock # << >>
        <5>1. Len(sock) \in 1..Len(sock) /\ sock[Len(sock)].kind # "length"
          BY <1>t, <2>2, <4>2 DEF Framing
        <5>2. (Len(sock) + Before) % 2 # 1
          BY <5>1 DEF Framing
        <5>3. QED BY <3>1, <5>1, <5>2
      <4>3. QED BY <4>1, <4>2
    <3>3. QED BY <1>t, <2>1, <3>1, <3>2, AddUnit DEF Framing
  <2>4. \A i, j \in 1..Len(sock') :
          j = i + 1 /\ sock'[i].kind = "length" => sock'[j] = Unit(sock'[i].of, "body")
    <3>1. sock # << >> => sock[Len(sock)].kind # "length"
      BY <2>2 DEF Framing
    <3>2. QED BY <1>t, <2>1, <3>1, AddUnit DEF Framing
  <2>5. sock' # << >> /\ ppc' = "body" => sock'[1] = Unit(cur', "body")
    <3>1. CASE sock = << >>
      BY <2>1, <2>2, <3>1 DEF Framing
    <3>2. CASE sock # << >>
      BY <1>t, <2>1, <3>2, AddUnit DEF Framing
    <3>3. QED BY <3>1, <3>2
  <2>6. sock' # << >> /\ sock'[Len(sock')] = u
    BY <1>t, <2>1, AddUnit
  <2>7. QED BY <2>1, <2>2, <2>3, <2>4, <2>5, <2>6 DEF Framing, Half
<1>6. ASSUME NEW r \in Readers, SendBody(r) PROVE Framing'
  <2> DEFINE u == Unit(msg[r], "body")
  <2>1. /\ mutex = r /\ mutex' = Nobody /\ at[r] = "body"
        /\ UNCHANGED <<cur, ppc>> /\ sock' = Append(sock, u) /\ u \in Units
        /\ u.kind = "body" /\ u.of = msg[r]
    BY <1>6, <1>t DEF SendBody, LinkShape, Unit, Units
  <2>2. Half /\ ~Half'
    BY <2>1 DEF Half
  <2>3. \A i \in 1..Len(sock') : sock'[i].kind = "length" <=> (i + Before') % 2 = 1
    <3>1. Before' = Before /\ Before \in 0..1
      BY <2>1 DEF Before
    <3>2. (Len(sock) + 1 + Before) % 2 # 1
      <4>1. CASE sock = << >>
        BY <2>1, <2>2, <4>1 DEF Framing, Before
      <4>2. CASE sock # << >>
        <5>1. Len(sock) \in 1..Len(sock) /\ sock[Len(sock)].kind = "length"
          BY <1>t, <2>2, <4>2 DEF Framing
        <5>2. (Len(sock) + Before) % 2 = 1
          BY <5>1 DEF Framing
        <5>3. QED BY <3>1, <5>1, <5>2
      <4>3. QED BY <4>1, <4>2
    <3> HIDE DEF u
    <3>3. QED BY <1>t, <2>1, <3>1, <3>2, AddUnit DEF Framing
  <2>4. \A i, j \in 1..Len(sock') :
          j = i + 1 /\ sock'[i].kind = "length" => sock'[j] = Unit(sock'[i].of, "body")
    <3>1. sock # << >> => sock[Len(sock)].of = msg[r]
      BY <2>1 DEF Framing
    <3>2. \A i \in 1..Len(sock) : sock'[i] = sock[i]
      BY <1>t, <2>1, AddUnit
    <3>3. ASSUME NEW i \in 1..Len(sock'), NEW j \in 1..Len(sock'), j = i + 1, sock'[i].kind = "length"
          PROVE  sock'[j] = Unit(sock'[i].of, "body")
      <4>1. CASE j \in 1..Len(sock)
        <5>1. i \in 1..Len(sock)
          BY <1>t, <3>3, <4>1
        <5>2. QED BY <3>2, <3>3, <4>1, <5>1 DEF Framing
      <4>2. CASE j = Len(sock) + 1
        <5>1. i = Len(sock) /\ i \in 1..Len(sock) /\ sock # << >>
          BY <1>t, <3>3, <4>2
        <5>2. QED BY <1>t, <2>1, <3>1, <3>2, <4>2, <5>1, AddUnit
      <4>3. QED BY <1>t, <2>1, <4>1, <4>2, AddUnit
    <3>4. QED BY <3>3
  <2>5. sock' # << >> /\ ppc' = "body" => sock'[1] = Unit(cur', "body")
    <3>1. CASE sock = << >>
      BY <1>t, <2>1, <2>2, <3>1, AddUnit DEF Framing
    <3>2. CASE sock # << >>
      BY <1>t, <2>1, <3>2, AddUnit DEF Framing
    <3>3. QED BY <3>1, <3>2
  <2>6. sock' # << >> /\ sock'[Len(sock')] = u
    BY <1>t, <2>1, AddUnit
  <2>7. QED BY <2>1, <2>2, <2>3, <2>4, <2>5, <2>6 DEF Framing, Half
<1>7. CASE WaitForEvent
  BY <1>1, <1>7 DEF WaitForEvent, Before
<1>8. CASE ReadLength
  <2>1. /\ ppc = "idle" /\ sock # << >> /\ sock' = Tail(sock) /\ UNCHANGED <<mutex, at, msg>>
    BY <1>8 DEF ReadLength, LinkShape
  <2>0. /\ Len(sock) \in Nat \ {0} /\ Len(sock') = Len(sock) - 1
        /\ Head(sock) = sock[1] /\ sock[1] \in Units
        /\ \A i \in 1..Len(sock') : sock'[i] = sock[i + 1] /\ i + 1 \in 1..Len(sock)
        /\ sock' = << >> <=> Len(sock) = 1
        /\ sock' # << >> => sock'[Len(sock')] = sock[Len(sock)]
    BY <1>t, <2>1, TakeUnit
  <2>2. Before = 0 /\ sock[1].kind = "length"
    <3>1. 1 \in 1..Len(sock)
      BY <2>0
    <3>2. Before = 0
      BY <2>1 DEF Before
    <3>3. (1 + 0) % 2 = 1
      OBVIOUS
    <3>4. QED BY <3>1, <3>2, <3>3 DEF Framing
  <2>3. ppc' = "body" /\ cur' = sock[1].of /\ Before' = 1
    BY <1>8, <2>0, <2>1, <2>2 DEF ReadLength, Before
  <2>4. \A i \in 1..Len(sock') : sock'[i].kind = "length" <=> (i + Before') % 2 = 1
    BY <2>0, <2>2, <2>3 DEF Framing
  <2>5. \A i, j \in 1..Len(sock') :
          j = i + 1 /\ sock'[i].kind = "length" => sock'[j] = Unit(sock'[i].of, "body")
    <3>1. ASSUME NEW i \in 1..Len(sock'), NEW j \in 1..Len(sock'), j = i + 1, sock'[i].kind = "length"
          PROVE  sock'[j] = Unit(sock'[i].of, "body")
      <4>1. /\ sock'[i] = sock[i + 1] /\ i + 1 \in 1..Len(sock)
            /\ sock'[j] = sock[j + 1] /\ j + 1 \in 1..Len(sock) /\ j + 1 = (i + 1) + 1
        BY <2>0, <3>1
      <4>2. sock[j + 1] = Unit(sock[i + 1].of, "body")
        BY <3>1, <4>1 DEF Framing
      <4>3. QED BY <4>1, <4>2
    <3>2. QED BY <3>1
  <2>6. ASSUME sock' # << >>
        PROVE  sock'[1] = Unit(cur', "body") /\ sock'[Len(sock')] = sock[Len(sock)]
    <3>1. 1 \in 1..Len(sock') /\ sock'[1] = sock[1 + 1] /\ 1 + 1 \in 1..Len(sock) /\ 1 \in 1..Len(sock)
      BY <2>0, <2>6
    <3>2. sock[1 + 1] = Unit(sock[1].of, "body")
      BY <2>2, <3>1 DEF Framing
    <3>3. QED BY <2>0, <2>3, <2>6, <3>1, <3>2
  <2>7. sock' = << >> => Len(sock) = 1
    BY <2>0
  <2>8. Half' = Half
    BY <2>1 DEF Half
  <2>9. QED BY <2>1, <2>2, <2>3, <2>4, <2>5, <2>6, <2>7, <2>8 DEF Framing
<1>9. ASSUME NEW accepted \in BOOLEAN, ReadBody(accepted) PROVE Framing'
  <2>1. /\ ppc = "body" /\ sock # << >> /\ sock' = Tail(sock) /\ UNCHANGED <<mutex, at, msg>>
        /\ ppc' # "body"
    BY <1>9 DEF ReadBody
  <2>0. /\ Len(sock) \in Nat \ {0} /\ Len(sock') = Len(sock) - 1
        /\ Head(sock) = sock[1] /\ sock[1] \in Units
        /\ \A i \in 1..Len(sock') : sock'[i] = sock[i + 1] /\ i + 1 \in 1..Len(sock)
        /\ sock' = << >> <=> Len(sock) = 1
        /\ sock' # << >> => sock'[Len(sock')] = sock[Len(sock)]
    BY <1>t, <2>1, TakeUnit
  <2>2. Before = 1 /\ Before' = 0 /\ sock[1] = Unit(cur, "body") /\ sock[1].kind # "length"
    BY <2>1 DEF Framing, Before, Unit
  <2>3. \A i \in 1..Len(sock') : sock'[i].kind = "length" <=> (i + Before') % 2 = 1
    <3>1. ASSUME NEW i \in 1..Len(sock') PROVE sock'[i].kind = "length" <=> i % 2 = 1
      <4>1. sock'[i] = sock[i + 1] /\ i + 1 \in 1..Len(sock) /\ i \in Nat
        BY <2>0
      <4>2. sock[i + 1].kind = "length" <=> (i + 1 + 1) % 2 = 1
        BY <2>2, <4>1 DEF Framing
      <4>3. QED BY <4>1, <4>2
    <3>2. QED BY <2>2, <3>1
  <2>4. \A i, j \in 1..Len(sock') :
          j = i + 1 /\ sock'[i].kind = "length" => sock'[j] = Unit(sock'[i].of, "body")
    <3>1. ASSUME NEW i \in 1..Len(sock'), NEW j \in 1..Len(sock'), j = i + 1, sock'[i].kind = "length"
          PROVE  sock'[j] = Unit(sock'[i].of, "body")
      <4>1. /\ sock'[i] = sock[i + 1] /\ i + 1 \in 1..Len(sock)
            /\ sock'[j] = sock[j + 1] /\ j + 1 \in 1..Len(sock) /\ j + 1 = (i + 1) + 1
        BY <2>0, <3>1
      <4>2. sock[j + 1] = Unit(sock[i + 1].of, "body")
        BY <3>1, <4>1 DEF Framing
      <4>3. QED BY <4>1, <4>2
    <3>2. QED BY <3>1
  <2>5. sock' # << >> => sock'[Len(sock')] = sock[Len(sock)]
    BY <2>0
  <2>6. sock' = << >> => Len(sock) = 1
    BY <2>0
  <2>7. Half' = Half
    BY <2>1 DEF Half
  <2>8. sock' = << >> => ~Half
    BY <2>1, <2>2, <2>6 DEF Framing
  <2>9. QED BY <2>1, <2>3, <2>4, <2>5, <2>7, <2>8 DEF Framing, Half
<1>10. ASSUME NEW t \in Requests, PublishReply(t) PROVE Framing'
  BY <1>1, <1>10 DEF PublishReply, Before
<1>11. CASE LeaveLoop
  BY <1>1, <1>11 DEF LeaveLoop, LeaveLoopWhen, Before
<1>12. QED
  <2> HIDE DEF LinkTypeOK
  <2> QED
    BY <1>2, <1>3, <1>4, <1>5, <1>6, <1>7, <1>8, <1>9, <1>10, <1>11
       DEF LinkNext, ThreadStep, ParentStep, Deliver, Connect, Publish, WorkerReplies, Drop, Reconnect

(***************************************************************************)
(* The parent ends of a long request only: what it reads as a length is    *)
(* one, and what it reads as a body is the body of that length.            *)
(***************************************************************************)
LEMMA DeathStep ==
  LinkTypeOK /\ LinkShape /\ (ppc # "dead" => Framing) /\ DeathHasCause /\ [LinkNext]_lvars =>
    DeathHasCause'
<1> SUFFICES ASSUME LinkTypeOK, LinkShape, ppc # "dead" => Framing, DeathHasCause, [LinkNext]_lvars
             PROVE  DeathHasCause'
    OBVIOUS
<1> USE DEF DeathHasCause
<1>t. sock \in Seq(Units)
  BY DEF LinkTypeOK, Units
<1>1. CASE UNCHANGED <<ppc, cur>>
  BY <1>1
<1>2. CASE ReadLength
  <2>1. ppc = "idle" /\ sock # << >> /\ sock' = Tail(sock)
    BY <1>2 DEF ReadLength, LinkShape
  <2>0. Len(sock) \in Nat \ {0} /\ Head(sock) = sock[1] /\ sock[1] \in Units
    BY <1>t, <2>1, TakeUnit
  <2>2. Before = 0 /\ sock[1].kind = "length"
    BY <2>0, <2>1 DEF Framing, Before
  <2>3. QED BY <1>2, <2>0, <2>1, <2>2 DEF ReadLength
<1>3. ASSUME NEW accepted \in BOOLEAN, ReadBody(accepted) PROVE DeathHasCause'
  <2>1. ppc = "body" /\ sock # << >> /\ sock' = Tail(sock)
    BY <1>3 DEF ReadBody
  <2>2. Head(sock) = Unit(cur, "body")
    BY <1>t, <2>1, TakeUnit DEF Framing
  <2>3. QED BY <1>3, <2>2 DEF ReadBody
<1>4. ASSUME ppc' # "dead" PROVE DeathHasCause'
  BY <1>4
<1>5. QED
  <2> HIDE DEF LinkTypeOK, LinkShape
  <2> QED
    BY <1>1, <1>2, <1>3, <1>4
       DEF LinkNext, ThreadStep, ParentStep, Deliver, Connect, Publish, WorkerReplies, Drop, Reconnect,
           TakePacket, TakePacketLeaving, LockCallback, BeginCallback, SendLength,
           SendBody, WaitForEvent, PublishReply, LeaveLoop, LeaveLoopWhen

THEOREM LinkInvariance == LinkSpec => []LinkInv
<1>1. LinkInv /\ [LinkNext]_lvars => LinkInv'
  BY LinkTypeStep, LinkShapeStep, FramingStep, DeathStep DEF LinkInv
<1>2. QED BY LinkInitial, <1>1, PTL DEF LinkSpec

(***************************************************************************)
(* The types are right in every reachable state.                           *)
(***************************************************************************)
THEOREM LinkTypeCorrect == LinkSpec => []LinkTypeOK
<1>1. LinkInv => LinkTypeOK
  BY DEF LinkInv
<1>2. QED BY LinkInvariance, <1>1, PTL

(***************************************************************************)
(* The parent never ends because it read bytes from the wrong place.       *)
(***************************************************************************)
THEOREM DeathsHaveCause == LinkSpec => []DeathHasCause
<1>1. LinkInv => DeathHasCause
  BY DEF LinkInv
<1>2. QED BY LinkInvariance, <1>1, PTL

(***************************************************************************)
(* The stream: what the parent has read, the socket, what is to be sent.   *)
(***************************************************************************)
Ahead == IF ppc = "body" THEN <<Unit(cur, "length")>> ELSE << >>
Rest == IF mutex # Nobody /\ at[mutex] = "body" THEN <<Unit(msg[mutex], "body")>> ELSE << >>
After == IF Half THEN 1 ELSE 0

LEMMA StreamUnits ==
  ASSUME LinkTypeOK, LinkShape
  PROVE  /\ Len(sock) \in Nat /\ Before \in 0..1 /\ After \in 0..1
         /\ Len(Stream) = Before + Len(sock) + After
         /\ Before = 1 => Stream[1] = Unit(cur, "length") /\ cur \in Requests
         /\ \A i \in 1..Len(sock) : Stream[Before + i] = sock[i]
         /\ After = 1 => Stream[Before + Len(sock) + 1] = Unit(msg[mutex], "body")
<1> USE NobodyIsNoReader
<1>1. sock \in Seq(Units) /\ Len(sock) \in Nat
  BY DEF LinkTypeOK, Units
<1>2. /\ Ahead \in Seq(Units) /\ Len(Ahead) = Before /\ Before \in 0..1
      /\ Before = 1 => Ahead[1] = Unit(cur, "length") /\ cur \in Requests
  <2>1. CASE ppc = "body"
    <3>1. cur \in Requests /\ Before = 1 /\ Ahead = <<Unit(cur, "length")>>
      BY <2>1 DEF Ahead, Before, LinkShape
    <3>2. Unit(cur, "length") \in Units
      BY <3>1 DEF Unit, Units
    <3>3. QED BY <3>1, <3>2
  <2>2. CASE ppc # "body"
    <3>1. Before = 0 /\ Ahead = << >>
      BY <2>2 DEF Ahead, Before
    <3>2. QED BY <3>1
  <2>3. QED BY <2>1, <2>2
<1>3. /\ Rest \in Seq(Units) /\ Len(Rest) = After /\ After \in 0..1
      /\ After = 1 => Rest[1] = Unit(msg[mutex], "body")
  <2>1. CASE Half
    <3>1. mutex \in Readers /\ at[mutex] = "body" /\ msg[mutex] \in Requests /\ mutex # Nobody
      BY <2>1 DEF Half, LinkShape, LinkTypeOK
    <3>2. Rest = <<Unit(msg[mutex], "body")>> /\ After = 1
      BY <2>1, <3>1 DEF Rest, After
    <3>3. QED BY <3>1, <3>2 DEF Unit, Units
  <2>2. CASE ~Half
    <3>1. Rest = << >> /\ After = 0
      BY <2>2 DEF Half, Rest, After, LinkTypeOK
    <3>2. QED BY <3>1
  <2>3. QED BY <2>1, <2>2
<1>4. /\ Ahead \o sock \in Seq(Units) /\ Len(Ahead \o sock) = Before + Len(sock)
      /\ \A i \in 1..Before : (Ahead \o sock)[i] = Ahead[i]
      /\ \A i \in 1..Len(sock) : (Ahead \o sock)[Before + i] = sock[i]
  BY <1>1, <1>2
<1> DEFINE s == Ahead \o sock
<1>5. /\ Len(s \o Rest) = Before + Len(sock) + After
      /\ \A i \in 1..(Before + Len(sock)) : (s \o Rest)[i] = s[i]
      /\ After = 1 => (s \o Rest)[Before + Len(sock) + 1] = Rest[1]
  <2> HIDE DEF s
  <2>1. s \in Seq(Units) /\ Len(s) = Before + Len(sock)
    BY <1>4 DEF s
  <2>2. QED BY <1>1, <1>2, <1>3, <2>1
<1>6. Stream = s \o Rest
  BY DEF Stream, Ahead, Rest
<1>7. \A i \in 1..Len(sock) : Before + i \in 1..(Before + Len(sock))
  BY <1>1, <1>2
<1>8. Before = 1 => 1 \in 1..(Before + Len(sock)) /\ 1 \in 1..Before
  BY <1>1
<1> HIDE DEF s
<1>9. s = Ahead \o sock
  BY DEF s
<1>10. QED BY <1>1, <1>2, <1>3, <1>4, <1>5, <1>6, <1>7, <1>8, <1>9

(***************************************************************************)
(* The alternation of the socket is that of the whole stream.              *)
(***************************************************************************)
LEMMA FramingIsFramed == LinkInv => Framed
<1> SUFFICES ASSUME LinkTypeOK, LinkShape, Framing
             PROVE  /\ Len(Stream) % 2 = 0
                    /\ \A i \in 1..Len(Stream) :
                         i % 2 = 1 => /\ Stream[i] = Unit(Stream[i].of, "length")
                                      /\ Stream[i + 1] = Unit(Stream[i].of, "body")
    BY DEF Framed, LinkInv
<1> DEFINE n == Len(sock)
<1> USE NobodyIsNoReader
<1>1. /\ n \in Nat /\ Before \in 0..1 /\ After \in 0..1 /\ Len(Stream) = Before + n + After
      /\ Before = 1 => Stream[1] = Unit(cur, "length")
      /\ \A i \in 1..n : Stream[Before + i] = sock[i]
      /\ After = 1 => Stream[Before + n + 1] = Unit(msg[mutex], "body")
  BY StreamUnits
<1>2. sock = << >> <=> n = 0
  BY EmptyLength DEF LinkTypeOK, Units
<1>3. n = 0 => Before = After
  BY <1>2 DEF Framing, Before, After
<1>4. n # 0 => n \in 1..n /\ (After = 1 <=> (n + Before) % 2 = 1)
  BY <1>1, <1>2 DEF Framing, After
<1>5. \A i \in 1..n : sock[i] \in Units
  <2>1. sock \in Seq(Units)
    BY DEF LinkTypeOK, Units
  <2>2. QED BY <2>1
<1>6. After = 1 => mutex \in Readers /\ at[mutex] = "body"
  BY DEF After, Half
<1>7. /\ n = 0 /\ After = 1 => cur = msg[mutex]
      /\ n # 0 /\ After = 1 => sock[n].of = msg[mutex]
  BY <1>2, <1>6 DEF Framing
<1>8. n # 0 /\ Before = 1 => sock[1] = Unit(cur, "body")
  BY <1>2 DEF Framing, Before
<1> HIDE DEF n
<1>9. (Before + n + After) % 2 = 0
  <2>1. CASE n = 0
    BY <1>1, <1>3, <2>1
  <2>2. CASE n # 0
    BY <1>1, <1>4, <2>2
  <2>3. QED BY <2>1, <2>2
<1>10. ASSUME NEW i \in 1..(Before + n + After), i % 2 = 1
       PROVE  /\ Stream[i] = Unit(Stream[i].of, "length")
              /\ Stream[i + 1] = Unit(Stream[i].of, "body")
  <2>1. i \in Nat /\ i + 1 <= Before + n + After
    BY <1>1, <1>9, <1>10
  <2>2. CASE i <= Before
    <3>1. i = 1 /\ Before = 1
      BY <1>1, <2>1, <2>2
    <3>2. CASE n = 0
      <4>1. After = 1 /\ i + 1 = Before + n + 1
        BY <1>3, <3>1, <3>2
      <4>2. Stream[i + 1] = Unit(cur, "body")
        BY <1>1, <1>7, <3>2, <4>1
      <4>3. QED BY <1>1, <3>1, <4>2 DEF Unit
    <3>3. CASE n # 0
      <4>1. 1 \in 1..n /\ i + 1 = Before + 1
        BY <1>1, <3>1, <3>3
      <4>2. Stream[i + 1] = Unit(cur, "body")
        BY <1>1, <1>8, <3>1, <3>3, <4>1
      <4>3. QED BY <1>1, <3>1, <4>2 DEF Unit
    <3>4. QED BY <3>2, <3>3
  <2>3. CASE i > Before
    <3> DEFINE k == i - Before
    <3>1. k \in 1..n /\ i = Before + k /\ (k + Before) % 2 = 1
      <4>1. k \in Nat \ {0} /\ i = Before + k /\ k <= n
        BY <1>1, <2>1, <2>3
      <4>2. QED BY <1>1, <1>10, <4>1
    <3> HIDE DEF k
    <3>2. Stream[i] = sock[k] /\ sock[k].kind = "length" /\ sock[k] \in Units
      BY <1>1, <1>5, <3>1 DEF Framing, n
    <3>3. Stream[i] = Unit(Stream[i].of, "length")
      BY <3>2 DEF Unit, Units
    <3>4. CASE k + 1 \in 1..n
      <4>1. Stream[i + 1] = sock[k + 1]
        <5>1. i + 1 = Before + (k + 1)
          BY <1>1, <3>1
        <5>2. QED BY <1>1, <3>4, <5>1, SMTT(60)
      <4>2. sock[k + 1] = Unit(sock[k].of, "body")
        BY <3>1, <3>2, <3>4 DEF Framing, n
      <4>3. QED BY <3>2, <3>3, <4>1, <4>2
    <3>5. CASE k = n
      <4>1. n # 0 /\ After = 1 /\ i + 1 = Before + n + 1
        BY <1>1, <2>1, <3>1, <3>5
      <4>2. Stream[i + 1] = Unit(sock[k].of, "body")
        BY <1>1, <1>7, <3>5, <4>1
      <4>3. QED BY <3>2, <3>3, <4>2
    <3>6. k + 1 \in 1..n \/ k = n
      BY <1>1, <3>1
    <3>7. QED BY <3>4, <3>5, <3>6
  <2>4. QED BY <1>1, <2>1, <2>2, <2>3
<1>11. QED BY <1>1, <1>9, <1>10

(***************************************************************************)
(* Two threads write into the socket, in two sends each, and the parent    *)
(* always finds a length and then its own body.                            *)
(***************************************************************************)
THEOREM RequestsStayFramed == LinkSpec => []Framed
  BY LinkInvariance, FramingIsFramed, PTL

(***************************************************************************)
(* The parent always knows where a request begins.                         *)
(***************************************************************************)
THEOREM RequestsArriveWhole == LinkSpec => []RequestsStayWhole
<1>1. Framed /\ DeathHasCause => RequestsStayWhole
  BY DEF RequestsStayWhole
<1>2. QED BY RequestsStayFramed, DeathsHaveCause, <1>1, PTL

-----------------------------------------------------------------------------
(***************************************************************************)
(* The requests that wait in the socket are counted by their lengths.      *)
(***************************************************************************)
LengthsIn(s) == {i \in 1..Len(s) : s[i].kind = "length"}

LEMMA UnreadIsCount == Unread = Cardinality(LengthsIn(sock))
  BY DEF Unread, LengthsIn

LEMMA LengthsAreFinite ==
  ASSUME NEW s \in Seq(Units)
  PROVE  IsFiniteSet(LengthsIn(s)) /\ Cardinality(LengthsIn(s)) \in Nat
<1>1. Len(s) \in Int
  OBVIOUS
<1>2. IsFiniteSet(1..Len(s))
  BY <1>1, FS_Interval
<1>3. LengthsIn(s) \subseteq 1..Len(s)
  BY DEF LengthsIn
<1>4. QED BY <1>2, <1>3, FS_Subset, FS_CardinalityType

LEMMA CountAppend ==
  ASSUME NEW s \in Seq(Units), NEW u \in Units
  PROVE  Cardinality(LengthsIn(Append(s, u))) =
           Cardinality(LengthsIn(s)) + IF u.kind = "length" THEN 1 ELSE 0
<1> DEFINE n == Len(s)
           a == Append(s, u)
<1>1. /\ n \in Nat /\ Len(a) = n + 1 /\ a[n + 1] = u
      /\ \A i \in 1..n : a[i] = s[i]
  OBVIOUS
<1>2. \A i \in 1..(n + 1) : i \in 1..n \/ i = n + 1
  BY <1>1
<1>3. 1..n \subseteq 1..(n + 1) /\ n + 1 \in 1..(n + 1) /\ n + 1 \notin 1..n
  BY <1>1
<1>4. CASE u.kind = "length"
  <2>1. LengthsIn(a) = LengthsIn(s) \union {n + 1} /\ n + 1 \notin LengthsIn(s)
    <3> HIDE DEF a
    <3> QED BY <1>1, <1>2, <1>3, <1>4 DEF LengthsIn
  <2>2. QED BY <1>4, <2>1, LengthsAreFinite, FS_AddElement
<1>5. CASE u.kind # "length"
  <2>1. LengthsIn(a) = LengthsIn(s)
    <3> HIDE DEF a
    <3> QED BY <1>1, <1>2, <1>3, <1>5 DEF LengthsIn
  <2>2. QED BY <1>5, <2>1, LengthsAreFinite
<1>6. QED BY <1>4, <1>5

LEMMA CountTail ==
  ASSUME NEW s \in Seq(Units), s # << >>
  PROVE  Cardinality(LengthsIn(Tail(s))) =
           Cardinality(LengthsIn(s)) - IF s[1].kind = "length" THEN 1 ELSE 0
<1> DEFINE n == Len(s)
           r == Tail(s)
           S == LengthsIn(r)
           T == LengthsIn(s) \ {1}
           f == [i \in S |-> i + 1]
<1>1. n \in Nat \ {0} /\ Len(r) = n - 1 /\ r \in Seq(Units) /\ \A i \in 1..(n - 1) : r[i] = s[i + 1]
  BY HeadTailProperties
<1>2. \A i \in S : i \in Nat /\ i + 1 \in T
  <2> HIDE DEF r
  <2> QED BY <1>1 DEF LengthsIn
<1>3. \A j \in T : j - 1 \in S /\ (j - 1) + 1 = j
  <2>1. ASSUME NEW j \in T PROVE j - 1 \in S /\ (j - 1) + 1 = j
    <3>1. j \in 2..n /\ s[j].kind = "length"
      BY <1>1 DEF LengthsIn
    <3>2. j - 1 \in 1..(n - 1) /\ (j - 1) + 1 = j
      BY <1>1, <3>1
    <3>3. r[j - 1] = s[j]
      BY <1>1, <3>2
    <3> HIDE DEF r, n
    <3>4. QED BY <1>1, <3>1, <3>2, <3>3 DEF LengthsIn
  <2>2. QED BY <2>1
<1>4. f \in Bijection(S, T)
  <2> HIDE DEF S, T
  <2>1. f \in [S -> T]
    BY <1>2
  <2>2. \A a, b \in S : f[a] = f[b] => a = b
    BY <1>2
  <2>3. \A j \in T : \E i \in S : f[i] = j
    BY <1>3
  <2>4. QED BY <2>1, <2>2, <2>3 DEF Bijection, Injection, Surjection, IsInjective
<1>5. Cardinality(S) = Cardinality(T)
  <2>1. IsFiniteSet(S)
    BY <1>1, LengthsAreFinite
  <2>2. ExistsBijection(S, T)
    BY <1>4 DEF ExistsBijection
  <2>3. QED BY <2>1, <2>2, FS_Bijection
<1>6. 1 \in LengthsIn(s) <=> s[1].kind = "length"
  BY <1>1 DEF LengthsIn
<1>7. Cardinality(T) = IF 1 \in LengthsIn(s) THEN Cardinality(LengthsIn(s)) - 1
                                           ELSE Cardinality(LengthsIn(s))
  BY LengthsAreFinite, FS_RemoveElement
<1>8. QED BY <1>5, <1>6, <1>7, LengthsAreFinite

LEMMA UnreadStep == LinkInv /\ UnreadWereMerged /\ [LinkNext]_lvars => UnreadWereMerged'
<1> SUFFICES ASSUME LinkTypeOK, LinkShape, ppc # "dead" => Framing, UnreadWereMerged, [LinkNext]_lvars
             PROVE  UnreadWereMerged'
    BY DEF LinkInv
<1> USE DEF UnreadWereMerged, One
<1>t. /\ sock \in Seq(Units) /\ Unread \in Nat /\ merged \in Nat
      /\ mark \in BOOLEAN /\ event \in BOOLEAN
  BY UnreadIsCount, LengthsAreFinite DEF LinkTypeOK, Units
<1>1. CASE UNCHANGED <<sock, mark, merged, event>>
  BY <1>1 DEF Unread
<1>2. ASSUME NEW r \in Readers, SendLength(r) PROVE UnreadWereMerged'
  <2> DEFINE u == Unit(msg[r], "length")
  <2>1. u \in Units /\ u.kind = "length" /\ sock' = Append(sock, u)
    BY <1>2, NobodyIsNoReader DEF SendLength, LinkShape, LinkTypeOK, Unit, Units
  <2>2. Unread' = Unread + 1
    <3>1. Unread' = Cardinality(LengthsIn(sock'))
      BY DEF Unread, LengthsIn
    <3> HIDE DEF u
    <3>2. QED BY <1>t, <2>1, <3>1, CountAppend, UnreadIsCount
  <2>3. mark' = TRUE /\ event' = event /\ merged' = IF mark THEN merged + 1 ELSE merged
    BY <1>2 DEF SendLength
  <2>4. QED BY <1>t, <2>2, <2>3
<1>3. ASSUME NEW r \in Readers, SendBody(r) PROVE UnreadWereMerged'
  <2> DEFINE u == Unit(msg[r], "body")
  <2>1. u \in Units /\ u.kind # "length" /\ sock' = Append(sock, u)
    BY <1>3, NobodyIsNoReader DEF SendBody, LinkShape, LinkTypeOK, Unit, Units
  <2>2. Unread' = Unread
    <3>1. Unread' = Cardinality(LengthsIn(sock'))
      BY DEF Unread, LengthsIn
    <3> HIDE DEF u
    <3>2. QED BY <1>t, <2>1, <3>1, CountAppend, UnreadIsCount
  <2>3. mark' = TRUE /\ event' = event /\ merged' = merged
    BY <1>3 DEF SendBody
  <2>4. QED BY <1>t, <2>2, <2>3
<1>4. CASE WaitForEvent
  <2>1. /\ Unread' = Unread /\ merged' = merged /\ mark = TRUE /\ mark' = FALSE
        /\ event = FALSE /\ event' = (sock # << >>)
    BY <1>4, <1>t DEF WaitForEvent, Unread
  <2>2. sock = << >> => Unread = 0
    <3>1. sock = << >> => LengthsIn(sock) = {}
      BY DEF LengthsIn
    <3>2. QED BY <3>1, UnreadIsCount, FS_EmptySet
  <2>3. CASE sock = << >>
    BY <1>t, <2>1, <2>2, <2>3
  <2>4. CASE sock # << >>
    <3>1. event' = TRUE
      BY <2>1, <2>4
    <3>2. QED BY <1>t, <2>1, <3>1
  <2>5. QED BY <2>3, <2>4
<1>5. CASE ReadLength
  <2>1. /\ ppc = "idle" /\ sock # << >> /\ sock' = Tail(sock)
        /\ event = TRUE /\ event' = FALSE /\ merged' = merged /\ mark' = mark
    BY <1>5, <1>t DEF ReadLength, LinkShape
  <2>2. sock[1].kind = "length"
    <3>0. Len(sock) \in Nat \ {0}
      BY <1>t, <2>1, TakeUnit
    <3>1. 1 \in 1..Len(sock)
      BY <3>0
    <3>2. Before = 0
      BY <2>1 DEF Before
    <3>3. (1 + 0) % 2 = 1
      OBVIOUS
    <3>4. QED BY <2>1, <3>1, <3>2, <3>3 DEF Framing
  <2>3. Unread' = Unread - 1
    <3>1. Unread' = Cardinality(LengthsIn(sock'))
      BY DEF Unread, LengthsIn
    <3>2. QED BY <1>t, <2>1, <2>2, <3>1, CountTail, UnreadIsCount
  <2>4. QED BY <1>t, <2>1, <2>3
<1>6. ASSUME NEW accepted \in BOOLEAN, ReadBody(accepted) PROVE UnreadWereMerged'
  <2>1. /\ ppc = "body" /\ sock # << >> /\ sock' = Tail(sock)
        /\ event' = event /\ merged' = merged /\ mark' = mark
    BY <1>6 DEF ReadBody
  <2>2. sock[1].kind # "length"
    BY <2>1 DEF Framing, Unit
  <2>3. Unread' = Unread
    <3>1. Unread' = Cardinality(LengthsIn(sock'))
      BY DEF Unread, LengthsIn
    <3>2. QED BY <1>t, <2>1, <2>2, <3>1, CountTail, UnreadIsCount
  <2>4. QED BY <1>t, <2>1, <2>3
<1>7. QED
  <2> HIDE DEF UnreadWereMerged, LinkTypeOK
  <2> QED
    BY <1>1, <1>2, <1>3, <1>4, <1>5, <1>6
       DEF LinkNext, ThreadStep, ParentStep, Deliver, Connect, Publish, WorkerReplies, Drop, Reconnect,
           TakePacket, TakePacketLeaving, LockCallback, BeginCallback, PublishReply, LeaveLoop,
           LeaveLoopWhen

(***************************************************************************)
(* A request stays unread only if it began to arrive in the edge of        *)
(* another one.                                                            *)
(***************************************************************************)
THEOREM UnreadRequestsWereMerged == LinkSpec => []UnreadWereMerged
<1>1. LinkInit => UnreadWereMerged
  <2>1. LinkInit => LengthsIn(sock) = {}
    BY DEF LinkInit, LengthsIn
  <2>2. LinkInit => Unread = 0
    BY <2>1, UnreadIsCount, FS_EmptySet
  <2>3. QED BY <2>2 DEF LinkInit, UnreadWereMerged, One
<1>2. QED BY <1>1, UnreadStep, LinkInvariance, PTL DEF LinkSpec

-----------------------------------------------------------------------------
(***************************************************************************)
(* OnePlace: each step moves at most one request, from where it was alone. *)
(***************************************************************************)
In(s, y)   == \E i \in 1..Len(s) : s[i] = y
Once(s, y) == \A i, j \in 1..Len(s) : s[i] = y /\ s[j] = y => i = j

LEMMA AppendIn ==
  ASSUME NEW T, NEW s \in Seq(T), NEW x \in T, NEW y
  PROVE  /\ In(Append(s, x), y) <=> In(s, y) \/ y = x
         /\ Once(s, y) /\ (y = x => ~In(s, y)) => Once(Append(s, x), y)
<1> DEFINE a == Append(s, x)
           n == Len(s)
<1>1. /\ n \in Nat /\ Len(a) = n + 1 /\ a[n + 1] = x
      /\ \A i \in 1..n : a[i] = s[i]
  BY AppendProperties
<1>2. In(a, y) <=> In(s, y) \/ y = x
  BY <1>1 DEF In
<1>3. Once(s, y) /\ (y = x => ~In(s, y)) => Once(a, y)
  <2> SUFFICES ASSUME Once(s, y), y = x => ~In(s, y),
                      NEW i \in 1..(n + 1), NEW j \in 1..(n + 1), a[i] = y, a[j] = y
               PROVE  i = j
      BY <1>1 DEF Once
  <2>1. CASE i \in 1..n /\ j \in 1..n
    BY <1>1, <2>1 DEF Once
  <2>2. CASE i = n + 1 /\ j \in 1..n
    BY <1>1, <2>2 DEF In
  <2>3. CASE j = n + 1 /\ i \in 1..n
    BY <1>1, <2>3 DEF In
  <2>4. QED BY <1>1, <2>1, <2>2, <2>3
<1>4. QED BY <1>2, <1>3

LEMMA TailIn ==
  ASSUME NEW T, NEW s \in Seq(T), s # << >>, NEW y, Once(s, y)
  PROVE  /\ In(Tail(s), y) <=> In(s, y) /\ y # Head(s)
         /\ Once(Tail(s), y)
<1> DEFINE b == Tail(s)
           n == Len(s)
<1>1. /\ n \in Nat \ {0} /\ Len(b) = n - 1 /\ Head(s) = s[1]
      /\ \A i \in 1..(n - 1) : b[i] = s[i + 1]
  BY HeadTailProperties, EmptySeq
<1> HIDE DEF n, b
<1>2. In(b, y) => In(s, y) /\ y # s[1]
  <2> SUFFICES ASSUME NEW i \in 1..(n - 1), b[i] = y PROVE In(s, y) /\ y # s[1]
      BY <1>1 DEF In
  <2>1. i + 1 \in 1..n /\ 1 \in 1..n /\ s[i + 1] = y /\ i + 1 # 1
    BY <1>1
  <2>2. QED BY <2>1 DEF In, Once, n
<1>3. In(s, y) /\ y # s[1] => In(b, y)
  <2> SUFFICES ASSUME NEW i \in 1..n, s[i] = y, y # s[1] PROVE In(b, y)
      BY DEF In, n
  <2>1. i - 1 \in 1..(n - 1) /\ b[i - 1] = y
    BY <1>1
  <2>2. QED BY <1>1, <2>1 DEF In
<1>4. Once(b, y)
  <2> SUFFICES ASSUME NEW i \in 1..(n - 1), NEW j \in 1..(n - 1), b[i] = y, b[j] = y PROVE i = j
      BY <1>1 DEF Once
  <2>1. i + 1 \in 1..n /\ j + 1 \in 1..n /\ s[i + 1] = y /\ s[j + 1] = y
    BY <1>1
  <2>2. i + 1 = j + 1
    BY <2>1 DEF Once, n
  <2>3. QED BY <2>2
<1>5. QED BY <1>1, <1>2, <1>3, <1>4 DEF b

Places == {"broker", "lost", "net", "thread", "parent", "sock", "read", "working", "replies", "answered"}

\* Request t is at place a and nowhere else.
Sole(t, a) ==
  /\ t \in broker <=> a = "broker"
  /\ t \in lost <=> a = "lost"
  /\ In(net, t) <=> a = "net"
  /\ msg["thread"] = t <=> a = "thread"
  /\ msg["parent"] = t <=> a = "parent"
  /\ BodySent(t) <=> a = "sock"
  /\ (cur = t /\ ~BodySent(t) /\ msg["thread"] # t /\ msg["parent"] # t) <=> a = "read"
  /\ t \in working <=> a = "working"
  /\ t \in replies <=> a = "replies"
  /\ t \in answered <=> a = "answered"

LEMMA SoleIsOne ==
  ASSUME NEW t \in Requests
  PROVE  (\E a \in Places : Sole(t, a)) <=> Cardinality({p \in DOMAIN Has(t) : Has(t)[p]}) = 1
<1> DEFINE where == {p \in DOMAIN Has(t) : Has(t)[p]}
<1>1. DOMAIN Has(t) = Places
  BY DEF Has, Places
<1>2. IsFiniteSet(Places)
  <2>1. \A S, x : IsFiniteSet(S) => IsFiniteSet(S \cup {x})
    BY FS_AddElement
  <2>2. IsFiniteSet({} \cup {"broker"} \cup {"lost"} \cup {"net"} \cup {"thread"} \cup {"parent"}
                    \cup {"sock"} \cup {"read"} \cup {"working"} \cup {"replies"} \cup {"answered"})
    BY <2>1, FS_EmptySet
  <2>3. QED BY <2>2 DEF Places
<1>3. IsFiniteSet(where)
  BY <1>1, <1>2, FS_Subset
<1>4. \A a \in Places : Sole(t, a) <=> \A p \in Places : Has(t)[p] <=> p = a
  <2>1. /\ Has(t)["broker"] <=> t \in broker
        /\ Has(t)["lost"] <=> t \in lost
        /\ Has(t)["net"] <=> In(net, t)
        /\ Has(t)["thread"] <=> msg["thread"] = t
        /\ Has(t)["parent"] <=> msg["parent"] = t
        /\ Has(t)["sock"] <=> BodySent(t)
        /\ Has(t)["read"] <=> (cur = t /\ ~BodySent(t) /\ msg["thread"] # t /\ msg["parent"] # t)
        /\ Has(t)["working"] <=> t \in working
        /\ Has(t)["replies"] <=> t \in replies
        /\ Has(t)["answered"] <=> t \in answered
    BY DEF Has, In
  <2>2. QED BY <2>1 DEF Sole, Places
<1>5. \A a \in Places : Sole(t, a) <=> where = {a}
  BY <1>1, <1>4
<1>6. \A a : where = {a} => a \in Places
  BY <1>1
<1>7. QED
  <2> HIDE DEF where, Sole
  <2>1. (\E a \in Places : Sole(t, a)) <=> \E a : where = {a}
    BY <1>5, <1>6
  <2>2. QED BY <1>3, <2>1, FS_Singleton DEF where

(***************************************************************************)
(* No request is twice on the connection or in the socket, and the parent  *)
(* has one in hand only while it reads.                                    *)
(***************************************************************************)
PlaceShape ==
  /\ \A t \in Requests : Once(net, t) /\ Once(sock, Unit(t, "body"))
  /\ ppc \in {"idle", "loop"} => cur = Nobody

Placed == \A t \in Requests : \E a \in Places : Sole(t, a)

LEMMA PlaceShapeStep == LinkInv /\ PlaceShape /\ Placed /\ [LinkNext]_lvars => PlaceShape'
<1> SUFFICES ASSUME LinkInv, PlaceShape, Placed, [LinkNext]_lvars PROVE PlaceShape'
    OBVIOUS
<1>t. net \in Seq(Requests) /\ sock \in Seq(Units) /\ LinkShape
  BY DEF LinkInv, LinkTypeOK, Units
<1>1. \A t \in Requests : Once(net, t)'
  <2> SUFFICES ASSUME NEW t \in Requests PROVE Once(net', t)
      BY DEF Once
  <2>1. Once(net, t)
    BY DEF PlaceShape
  <2>2. CASE net' = net
    BY <2>1, <2>2
  <2>3. ASSUME NEW u \in Requests, Publish(u), net' # net PROVE Once(net', t)
    <3>1. net' = Append(net, u) /\ u \in broker
      BY <2>3 DEF Publish
    <3>2. ~In(net, u)
      BY <3>1 DEF Placed, Sole
    <3>3. QED BY <1>t, <2>1, <3>1, <3>2, AppendIn
  <2>4. ASSUME NEW r \in Readers, TakePacket(r) PROVE Once(net', t)
    <3>1. net' = Tail(net) /\ net # << >>
      BY <2>4 DEF TakePacket, TakePacketLeaving
    <3>2. QED BY <1>t, <2>1, <3>1, TailIn
  <2>5. CASE Drop
    BY <2>5 DEF Drop, Once
  <2>6. QED
    BY <2>2, <2>3, <2>4, <2>5 DEF LinkNext, ThreadStep, ParentStep, Deliver, Connect, WorkerReplies,
       Reconnect, LockCallback, BeginCallback, SendLength, SendBody, WaitForEvent, ReadLength,
       ReadBody, PublishReply, LeaveLoop, LeaveLoopWhen
<1>2. \A t \in Requests : Once(sock, Unit(t, "body"))'
  <2> SUFFICES ASSUME NEW t \in Requests PROVE Once(sock', Unit(t, "body"))
      BY DEF Once, Unit
  <2> DEFINE y == Unit(t, "body")
  <2>1. Once(sock, y)
    BY DEF PlaceShape
  <2>2. CASE sock' = sock
    BY <2>1, <2>2
  <2>3. ASSUME NEW r \in Readers, SendLength(r) PROVE Once(sock', y)
    <3>1. sock' = Append(sock, Unit(msg[r], "length")) /\ msg[r] \in Requests
      BY <2>3, <1>t DEF SendLength, LinkShape, LinkInv, LinkTypeOK
    <3>2. Unit(msg[r], "length") \in Units /\ y # Unit(msg[r], "length")
      BY <3>1 DEF Unit, Units
    <3>3. QED BY <1>t, <2>1, <3>1, <3>2, AppendIn
  <2>4. ASSUME NEW r \in Readers, SendBody(r) PROVE Once(sock', y)
    <3>1. sock' = Append(sock, Unit(msg[r], "body")) /\ msg[r] \in Requests
      BY <2>4, <1>t DEF SendBody, LinkShape, LinkInv, LinkTypeOK
    <3>2. Unit(msg[r], "body") \in Units /\ (y = Unit(msg[r], "body") => msg[r] = t)
      BY <3>1 DEF Unit, Units
    <3>3. msg[r] = t => ~In(sock, y)
      BY DEF Placed, Sole, BodySent, In
    <3>4. QED BY <1>t, <2>1, <3>1, <3>2, <3>3, AppendIn
  <2>5. CASE ReadLength \/ \E accepted \in BOOLEAN : ReadBody(accepted)
    <3>1. sock' = Tail(sock) /\ sock # << >>
      BY <2>5, <1>t DEF ReadLength, ReadBody, LinkShape
    <3>2. QED BY <1>t, <2>1, <3>1, TailIn
  <2>6. QED
    BY <2>2, <2>3, <2>4, <2>5 DEF LinkNext, ThreadStep, ParentStep, Deliver, Connect, Publish,
       WorkerReplies, Drop, Reconnect, TakePacket, TakePacketLeaving, LockCallback, BeginCallback,
       WaitForEvent, PublishReply, LeaveLoop, LeaveLoopWhen
<1>3. (ppc \in {"idle", "loop"} => cur = Nobody)'
  BY DEF PlaceShape, LinkNext, ThreadStep, ParentStep, Deliver, Connect, Publish, WorkerReplies, Drop,
         Reconnect, TakePacket, TakePacketLeaving, LockCallback, BeginCallback, SendLength, SendBody,
         WaitForEvent, ReadLength, ReadBody, PublishReply, LeaveLoop, LeaveLoopWhen
<1>4. QED BY <1>1, <1>2, <1>3 DEF PlaceShape

LEMMA PlacedStep == LinkInv /\ PlaceShape /\ Placed /\ [LinkNext]_lvars => Placed'
<1> SUFFICES ASSUME LinkInv, PlaceShape, Placed, [LinkNext]_lvars, NEW t \in Requests
             PROVE  \E a \in Places : Sole(t, a)'
    BY DEF Placed
<1>p. PICK a \in Places : Sole(t, a)
  BY DEF Placed
<1>t. /\ net \in Seq(Requests) /\ sock \in Seq(Units) /\ LinkShape
      /\ msg \in [Readers -> Requests \cup {Nobody}]
  BY DEF LinkInv, LinkTypeOK, Units
<1> DEFINE body == Unit(t, "body")
<1>b. (BodySent(t) <=> In(sock, body)) /\ (BodySent(t)' <=> In(sock', body))
  BY DEF BodySent, In, Unit
<1>1. CASE UNCHANGED <<broker, lost, net, msg, sock, cur, taskVars>>
  <2>1. Sole(t, a)'
    BY <1>1, <1>p, <1>b DEF Sole
  <2>2. QED BY <2>1
<1>2. ASSUME NEW u \in Requests, Publish(u) PROVE \E b \in Places : Sole(t, b)'
  <2>1. IF link = "up" THEN net' = Append(net, u) /\ lost' = lost
                       ELSE net' = net /\ lost' = lost \cup {u}
    BY <1>2 DEF Publish
  <2>2. In(net', t) <=> In(net, t) \/ (link = "up" /\ t = u)
    <3>1. CASE link = "up"
      <4>1. In(Append(net, u), t) <=> In(net, t) \/ t = u
        BY <1>t, AppendIn
      <4>2. QED BY <2>1, <3>1, <4>1
    <3>2. CASE link # "up"
      BY <2>1, <3>2
    <3>3. QED BY <3>1, <3>2
  <2>3. BodySent(t)' <=> BodySent(t)
    BY <1>2, <1>b DEF Publish
  <2>4. t = u => a = "broker"
    BY <1>2, <1>p DEF Publish, Sole
  <2>5. CASE t # u
    <3>1. Sole(t, a)'
      BY <1>2, <1>p, <2>1, <2>2, <2>3, <2>5 DEF Publish, Sole
    <3>2. QED BY <3>1
  <2>6. CASE t = u /\ link = "up"
    <3>1. Sole(t, "net")'
      BY <1>2, <1>p, <2>1, <2>2, <2>3, <2>4, <2>6 DEF Publish, Sole
    <3>2. QED BY <3>1 DEF Places
  <2>7. CASE t = u /\ link # "up"
    <3>1. Sole(t, "lost")'
      BY <1>2, <1>p, <2>1, <2>2, <2>3, <2>4, <2>7 DEF Publish, Sole
    <3>2. QED BY <3>1 DEF Places
  <2>8. QED BY <2>5, <2>6, <2>7
<1>3. ASSUME NEW u \in Requests, WorkerReplies(u) \/ PublishReply(u)
      PROVE  \E b \in Places : Sole(t, b)'
  <2> DEFINE b == IF t # u THEN a ELSE IF a = "working" THEN "replies" ELSE "answered"
  <2>1. b \in Places
    BY DEF Places
  <2>2. BodySent(t)' <=> BodySent(t)
    BY <1>3, <1>b DEF WorkerReplies, PublishReply
  <2>3. Sole(t, b)'
    <3>1. CASE WorkerReplies(u)
      BY <1>p, <2>2, <3>1 DEF WorkerReplies, Sole
    <3>2. CASE PublishReply(u)
      BY <1>p, <2>2, <3>2 DEF PublishReply, Sole
    <3>3. QED BY <1>3, <3>1, <3>2
  <2>4. QED BY <2>1, <2>3
<1>4. CASE Drop
  <2> DEFINE b == IF a = "net" THEN "lost" ELSE a
  <2>1. b \in Places
    BY DEF Places
  <2>2. ~In(net', t) /\ (t \in lost' <=> t \in lost \/ In(net, t))
    BY <1>4 DEF Drop, In
  <2>3. BodySent(t)' <=> BodySent(t)
    BY <1>4, <1>b DEF Drop
  <2>4. Sole(t, b)'
    BY <1>4, <1>p, <2>2, <2>3 DEF Drop, Sole
  <2>5. QED BY <2>1, <2>4
<1>5. ASSUME NEW r \in Readers, TakePacket(r) PROVE \E b \in Places : Sole(t, b)'
  <2>1. r \in Places
    BY DEF Places
  <2>2. net # << >> /\ net' = Tail(net) /\ msg' = [msg EXCEPT ![r] = Head(net)] /\ msg[r] = Nobody
    BY <1>5, <1>t DEF TakePacket, TakePacketLeaving, LinkShape
  <2>3. In(net', t) <=> In(net, t) /\ t # Head(net)
    BY <1>t, <2>2, TailIn DEF PlaceShape
  <2>4. t = Head(net) => a = "net"
    <3>1. In(net, Head(net))
      BY <1>t, <2>2 DEF In
    <3>2. QED BY <1>p, <3>1 DEF Sole
  <2>5. BodySent(t)' <=> BodySent(t)
    BY <1>5, <1>b DEF TakePacket, TakePacketLeaving
  <2>6. \A q \in Readers : msg'[q] = t <=> (msg[q] = t \/ (q = r /\ t = Head(net)))
    BY <1>t, <2>2, NobodyIsNoReader
  <2>7. UNCHANGED <<broker, lost, cur, taskVars>>
    BY <1>5 DEF TakePacket, TakePacketLeaving
  <2>8. CASE t = Head(net)
    <3>1. Sole(t, r)'
      BY <1>p, <2>3, <2>4, <2>5, <2>6, <2>7, <2>8 DEF Sole
    <3>2. QED BY <2>1, <3>1
  <2>9. CASE t # Head(net)
    <3>1. Sole(t, a)'
      BY <1>p, <2>3, <2>5, <2>6, <2>7, <2>9 DEF Sole
    <3>2. QED BY <3>1
  <2>10. QED BY <2>8, <2>9
<1>6. ASSUME NEW r \in Readers, SendLength(r) PROVE \E b \in Places : Sole(t, b)'
  <2>1. sock' = Append(sock, Unit(msg[r], "length")) /\ msg[r] \in Requests
    BY <1>6, <1>t DEF SendLength, LinkShape
  <2>2. Unit(msg[r], "length") \in Units /\ body # Unit(msg[r], "length")
    BY <2>1 DEF Unit, Units
  <2>3. BodySent(t)' <=> BodySent(t)
    BY <1>t, <1>b, <2>1, <2>2, AppendIn
  <2>4. Sole(t, a)'
    BY <1>6, <1>p, <2>3 DEF SendLength, Sole
  <2>5. QED BY <2>4
<1>7. ASSUME NEW r \in Readers, SendBody(r) PROVE \E b \in Places : Sole(t, b)'
  <2>2. sock' = Append(sock, Unit(msg[r], "body")) /\ msg[r] \in Requests
    BY <1>7, <1>t DEF SendBody, LinkShape
  <2>3. Unit(msg[r], "body") \in Units /\ (body = Unit(msg[r], "body") <=> t = msg[r])
    BY <2>2 DEF Unit, Units
  <2>4. BodySent(t)' <=> BodySent(t) \/ t = msg[r]
    BY <1>t, <1>b, <2>2, <2>3, AppendIn
  <2>5. \A q \in Readers : msg'[q] = t <=> (msg[q] = t /\ q # r)
    BY <1>7, <1>t, NobodyIsNoReader DEF SendBody
  <2>6. t = msg[r] => a = r
    BY <1>p DEF Sole
  <2>7. UNCHANGED <<broker, lost, net, cur, taskVars>>
    BY <1>7 DEF SendBody
  <2>8. CASE t = msg[r]
    <3>1. Sole(t, "sock")'
      BY <1>p, <2>4, <2>5, <2>6, <2>7, <2>8 DEF Sole
    <3>2. QED BY <3>1 DEF Places
  <2>9. CASE t # msg[r]
    <3>1. Sole(t, a)'
      BY <1>p, <2>4, <2>5, <2>7, <2>9 DEF Sole
    <3>2. QED BY <3>1
  <2>10. QED BY <2>8, <2>9
<1>8. CASE ReadLength
  <2>1. /\ ppc = "idle" /\ cur = Nobody /\ sock # << >> /\ sock' = Tail(sock) /\ Framing
    BY <1>8, <1>t DEF ReadLength, LinkShape, PlaceShape, LinkInv
  <2>2. /\ Len(sock) \in Nat \ {0} /\ Len(sock') = Len(sock) - 1
        /\ Head(sock) = sock[1] /\ sock[1] \in Units /\ 1 \in 1..Len(sock)
        /\ \A i \in 1..Len(sock') : sock'[i] = sock[i + 1]
    <3>1. Len(sock) \in Nat \ {0}
      BY <1>t, <2>1, TakeUnit
    <3>2. 1 \in 1..Len(sock)
      BY <3>1
    <3>3. QED BY <1>t, <2>1, <3>1, <3>2, TakeUnit
  <2>3. sock[1].kind = "length"
    <3>1. Before = 0 /\ (1 + 0) % 2 = 1
      BY <2>1 DEF Before
    <3>2. QED BY <2>1, <2>2, <3>1 DEF Framing
  <2>4. BodySent(t)' <=> BodySent(t)
    <3>1. body # Head(sock)
      BY <2>2, <2>3 DEF Unit
    <3>2. QED BY <1>t, <1>b, <2>1, <3>1, TailIn DEF PlaceShape
  <2>5. cur' = sock[1].of
    BY <1>8, <2>2, <2>3 DEF ReadLength
  <2>6. cur' = t => BodySent(t)' \/ \E r \in Readers : msg[r] = t
    <3>1. ASSUME sock[1].of = t, Len(sock) > 1 PROVE BodySent(t)'
      <4>1. 2 \in 1..Len(sock) /\ 1 \in 1..Len(sock')
        BY <2>2, <3>1
      <4>2. sock[2] = Unit(t, "body")
        <5>1. 1 \in 1..Len(sock) /\ 2 = 1 + 1
          BY <2>2
        <5>2. sock[2] = Unit(sock[1].of, "body")
          BY <2>1, <2>3, <4>1, <5>1 DEF Framing
        <5>3. QED BY <3>1, <5>2
      <4>3. sock'[1] = Unit(t, "body")
        BY <2>2, <4>1, <4>2
      <4>4. QED BY <4>1, <4>3 DEF BodySent, Unit
    <3>2. ASSUME sock[1].of = t, Len(sock) = 1 PROVE \E r \in Readers : msg[r] = t
      <4>1. Half
        BY <2>1, <2>3, <3>2 DEF Framing
      <4>2. PICK r \in Readers : mutex = r /\ at[r] = "body"
        BY <4>1 DEF Half
      <4>3. msg[r] = t
        BY <2>1, <3>2, <4>2 DEF Framing
      <4>4. QED BY <4>3
    <3>3. QED BY <2>2, <2>5, <3>1, <3>2
  <2>7. Sole(t, a)'
    <3>1. a # "read" /\ cur # t
      BY <1>p, <2>1, NobodyIsNoReader DEF Sole
    <3>2. ~(cur' = t /\ ~BodySent(t)' /\ msg["thread"] # t /\ msg["parent"] # t)
      BY <2>6
    <3>3. QED BY <1>8, <1>p, <2>4, <3>1, <3>2 DEF ReadLength, Sole
  <2>8. QED BY <2>7
<1>9. ASSUME NEW accepted \in BOOLEAN, ReadBody(accepted) PROVE \E b \in Places : Sole(t, b)'
  <2>2. ppc = "body" /\ sock # << >> /\ sock' = Tail(sock) /\ Framing
    BY <1>9 DEF ReadBody, LinkInv
  <2>3. Head(sock) = Unit(cur, "body") /\ cur \in Requests
    BY <1>t, <2>2, TakeUnit DEF Framing, LinkShape
  <2>4. BodySent(t)' <=> BodySent(t) /\ t # cur
    <3>1. body = Head(sock) <=> t = cur
      BY <2>3 DEF Unit
    <3>2. QED BY <1>t, <1>b, <2>2, <3>1, TailIn DEF PlaceShape
  <2>5. t = cur => a = "sock"
    <3>1. In(sock, Head(sock))
      BY <1>t, <2>2 DEF In
    <3>2. QED BY <1>p, <1>b, <2>3, <3>1 DEF Sole
  <2>6. /\ cur' = Nobody /\ Nobody # t
        /\ working' = IF accepted THEN working \union {cur} ELSE working
        /\ answered' = IF accepted THEN answered ELSE answered \union {cur}
        /\ UNCHANGED <<broker, lost, net, msg, replies>>
    BY <1>9, <2>3, NobodyIsNoReader DEF ReadBody
  <2>7. a # "read" \/ t = cur
    BY <1>p DEF Sole
  <2>8. CASE t # cur
    <3>1. Sole(t, a)'
      BY <1>p, <2>4, <2>6, <2>7, <2>8 DEF Sole
    <3>2. QED BY <3>1
  <2>9. CASE t = cur /\ accepted
    <3>1. Sole(t, "working")'
      BY <1>p, <2>4, <2>5, <2>6, <2>9 DEF Sole
    <3>2. QED BY <3>1 DEF Places
  <2>10. CASE t = cur /\ ~accepted
    <3>1. Sole(t, "answered")'
      BY <1>p, <2>4, <2>5, <2>6, <2>10 DEF Sole
    <3>2. QED BY <3>1 DEF Places
  <2>11. QED BY <2>8, <2>9, <2>10
<1>10. QED
  BY <1>1, <1>2, <1>3, <1>4, <1>5, <1>6, <1>7, <1>8, <1>9
     DEF LinkNext, ThreadStep, ParentStep, Deliver, Connect, Reconnect, LockCallback, BeginCallback,
         WaitForEvent, LeaveLoop, LeaveLoopWhen

(***************************************************************************)
(* A request is delivered once and none disappears, for any number of      *)
(* requests, of lost connections, and any room of the socket.              *)
(***************************************************************************)
THEOREM RequestsAreOnePlace == LinkSpec => []OnePlace
<1>1. LinkInit => PlaceShape /\ Placed
  <2>1. LinkInit => PlaceShape
    BY DEF LinkInit, PlaceShape, Once
  <2>2. LinkInit => \A t \in Requests : Sole(t, "broker")
    BY NobodyIsNoReader DEF LinkInit, Sole, In, BodySent
  <2>3. QED BY <2>1, <2>2 DEF Placed, Places
<1>2. Placed => OnePlace
  BY SoleIsOne DEF Placed, OnePlace
<1>3. LinkInv /\ PlaceShape /\ Placed /\ [LinkNext]_lvars => PlaceShape' /\ Placed'
  BY PlaceShapeStep, PlacedStep
<1>4. QED BY <1>1, <1>2, <1>3, LinkInvariance, PTL DEF LinkSpec
=============================================================================
