------------------------------ MODULE MqttLink ------------------------------
(***************************************************************************)
(* How a request gets from the broker into the parent and an answer out of *)
(* it (task_handle.cpp 21-52, 337-404; process_pool.h 555-701).  Both the  *)
(* thread of the MQTT library and the parent, which calls loop() after it  *)
(* has published, take packets from the connection and run on_message:     *)
(* send_msg writes the length and then the body of the request into        *)
(* sig_mqfd[1], a blocking socket of limited room, whose other end only    *)
(* the parent reads.  The library runs callbacks one at a time, under a    *)
(* mutex.                                                                  *)
(*                                                                         *)
(* ProcessPool takes a request in the socket for one element; here it is   *)
(* two units, and the edge-triggered mark is set by each of them.          *)
(***************************************************************************)
EXTENDS Naturals, Sequences, FiniteSets

CONSTANTS
  Requests,   \* each published once
  Huge,       \* those whose length is more than MAX_BUFF
  Room,       \* how many units the socket takes
  Nobody,     \* no request, no thread
  MaxDrops    \* bound: times the connection is lost

ASSUME LinkAssumption ==
  /\ IsFiniteSet(Requests)  /\ Huge \subseteq Requests
  /\ Nobody \notin Requests \union {"thread", "parent"}
  /\ Room \in Nat \ {0}  /\ MaxDrops \in Nat

VARIABLES
  link,       \* connection to the broker: "start", "never", "up" or "down"
  broker,     \* requests not published yet
  net,        \* packets on the connection
  lost,       \* requests the service has never seen
  mutex,      \* who runs a callback
  at, msg,    \* where each thread is in on_message, and with which request
  sock,       \* sig_mqfd: units sent and not read
  mark,       \* sig_mqfd[0] became readable since the last epoll_wait
  event,      \* its event is in the batch being handled
  ppc, cur,   \* where the parent is, and the request it reads
  working,    \* requests given to workers
  replies,    \* ... whose replies can be read
  answered,   \* requests with an answer handed to the library
  drops,
  merged      \* history: requests that began to arrive while the mark was set

brokerVars == <<link, broker, net, lost, drops>>
sendVars   == <<mutex, at, msg>>
sockVars   == <<sock, mark, merged>>
parentVars == <<event, ppc, cur>>
taskVars   == <<working, replies, answered>>
lvars == <<brokerVars, sendVars, sockVars, parentVars, taskVars>>

Readers == {"thread", "parent"}
Unit(t, kind) == [of |-> t, kind |-> kind]

LinkInit ==
  /\ link = "start"  /\ broker = Requests  /\ net = << >>  /\ lost = {}  /\ drops = 0
  /\ mutex = Nobody  /\ at = [r \in Readers |-> "idle"]  /\ msg = [r \in Readers |-> Nobody]
  /\ sock = << >>  /\ mark = FALSE  /\ merged = 0
  /\ event = FALSE  /\ ppc = "idle"  /\ cur = Nobody
  /\ working = {}  /\ replies = {}  /\ answered = {}

-----------------------------------------------------------------------------
\* ScheHandler::init: without a connection loop_start is never called, and nothing
\* connects later.
Connect(ok) ==
  /\ link = "start"
  /\ link' = IF ok THEN "up" ELSE "never"
  /\ UNCHANGED <<broker, net, lost, drops, sendVars, sockVars, parentVars, taskVars>>

\* The session is clean: what is published while nobody is subscribed is lost.
Publish(t) ==
  /\ t \in broker  /\ link # "start"
  /\ broker' = broker \ {t}
  /\ IF link = "up" THEN net' = Append(net, t) /\ UNCHANGED lost
                    ELSE lost' = lost \union {t} /\ UNCHANGED net
  /\ UNCHANGED <<link, drops, sendVars, sockVars, parentVars, taskVars>>

Drop ==
  /\ link = "up"  /\ drops < MaxDrops
  /\ link' = "down"  /\ drops' = drops + 1
  /\ lost' = lost \union {net[i] : i \in 1..Len(net)}  /\ net' = << >>
  /\ UNCHANGED <<broker, sendVars, sockVars, parentVars, taskVars>>

\* The library's thread connects again, and on_connect subscribes again.
Reconnect ==
  /\ link = "down"  /\ at["thread"] = "idle"
  /\ link' = "up"
  /\ UNCHANGED <<broker, net, lost, drops, sendVars, sockVars, parentVars, taskVars>>

-----------------------------------------------------------------------------
\* A reader takes a packet; the parent only within loop().
TakePacketLeaving(r, rest) ==
  /\ link = "up"  /\ net # << >>  /\ at[r] = "idle"
  /\ r = "parent" => ppc = "loop"
  /\ msg' = [msg EXCEPT ![r] = Head(net)]  /\ net' = rest
  /\ at' = [at EXCEPT ![r] = "lock"]
  /\ UNCHANGED <<link, broker, lost, drops, mutex, sockVars, parentVars, taskVars>>

\* Mutant: both readers may get a packet.
TakePacketBoth(r) == TakePacketLeaving(r, net)

TakePacket(r) == TakePacketLeaving(r, Tail(net))

BeginCallback(r, free) ==
  /\ at[r] = "lock"  /\ free
  /\ mutex' = r
  /\ at' = [at EXCEPT ![r] = "length"]
  /\ UNCHANGED <<brokerVars, msg, sockVars, parentVars, taskVars>>

\* Mutant: callbacks run at the same time.
LockCallbackAtOnce(r) == BeginCallback(r, TRUE)

LockCallback(r) == BeginCallback(r, mutex = Nobody)

\* send_msg: two sends, each of which blocks while the socket is full.
SendLength(r) ==
  /\ at[r] = "length"  /\ Len(sock) < Room
  /\ sock' = Append(sock, Unit(msg[r], "length"))  /\ mark' = TRUE
  /\ merged' = IF mark THEN merged + 1 ELSE merged
  /\ at' = [at EXCEPT ![r] = "body"]
  /\ UNCHANGED <<brokerVars, mutex, msg, parentVars, taskVars>>

SendBody(r) ==
  /\ at[r] = "body"  /\ Len(sock) < Room
  /\ sock' = Append(sock, Unit(msg[r], "body"))  /\ mark' = TRUE
  /\ mutex' = Nobody
  /\ at' = [at EXCEPT ![r] = "idle"]  /\ msg' = [msg EXCEPT ![r] = Nobody]
  /\ UNCHANGED <<brokerVars, merged, parentVars, taskVars>>

Deliver(r) == TakePacket(r) \/ LockCallback(r) \/ SendLength(r) \/ SendBody(r)

-----------------------------------------------------------------------------
\* epoll_wait reports the socket if it is marked and, looked at again, readable.
WaitForEvent ==
  /\ ppc = "idle"  /\ ~event  /\ mark
  /\ mark' = FALSE  /\ event' = (sock # << >>)
  /\ UNCHANGED <<brokerVars, sendVars, sock, merged, ppc, cur, taskVars>>

\* Mutant: the event is dropped, unread.
SkipLength ==
  /\ ppc = "idle"  /\ event
  /\ event' = FALSE
  /\ UNCHANGED <<brokerVars, sendVars, sockVars, ppc, cur, taskVars>>

\* readMsg reads a length.  One over MAX_BUFF makes it return -100, and the
\* constructor of std::string that is given -100 throws: the parent ends.
ReadLength ==
  /\ ppc = "idle"  /\ event
  /\ event' = FALSE
  /\ sock' = Tail(sock)
  /\ LET unit == Head(sock) IN
       IF unit.kind = "length"
         THEN cur' = unit.of /\ ppc' = IF unit.of \in Huge THEN "dead" ELSE "body"
         ELSE cur' = Nobody /\ ppc' = "dead"
  /\ UNCHANGED <<brokerVars, sendVars, mark, merged, taskVars>>

\* readn waits for the body; then a worker gets the request, or the answer is
\* "overflow" and loop() is called.
ReadBody(accepted) ==
  /\ ppc = "body"  /\ sock # << >>
  /\ sock' = Tail(sock)
  /\ IF Head(sock) # Unit(cur, "body")
       THEN ppc' = "dead" /\ cur' = Nobody /\ UNCHANGED <<working, answered>>
       ELSE /\ cur' = Nobody
            /\ ppc' = IF accepted THEN "idle" ELSE "loop"
            /\ working' = IF accepted THEN working \union {cur} ELSE working
            /\ answered' = IF accepted THEN answered ELSE answered \union {cur}
  /\ UNCHANGED <<brokerVars, sendVars, mark, merged, event, replies>>

\* A worker ends its task.
WorkerReplies(t) ==
  /\ t \in working  /\ ppc # "dead"
  /\ working' = working \ {t}  /\ replies' = replies \union {t}
  /\ UNCHANGED <<brokerVars, sendVars, sockVars, parentVars, answered>>

\* publish_to_mq, also in the middle of a batch.
PublishReply(t) ==
  /\ ppc = "idle"  /\ t \in replies
  /\ replies' = replies \ {t}  /\ answered' = answered \union {t}
  /\ ppc' = "loop"
  /\ UNCHANGED <<brokerVars, sendVars, sockVars, event, cur, working>>

\* loop() returns when it has no packet, or has delivered those it took.
LeaveLoopWhen(ready) ==
  /\ ppc = "loop"  /\ at["parent"] = "idle"  /\ ready
  /\ ppc' = "idle"
  /\ UNCHANGED <<brokerVars, sendVars, sockVars, event, cur, taskVars>>

\* Mutant: loop() waits for the connection.
LeaveLoopConnected == LeaveLoopWhen(link = "up")

LeaveLoop == LeaveLoopWhen(TRUE)

ParentStep ==
  \/ WaitForEvent \/ ReadLength \/ LeaveLoop \/ Deliver("parent")
  \/ (\E accepted \in BOOLEAN : ReadBody(accepted)) \/ (\E t \in Requests : PublishReply(t))

ThreadStep == ppc # "dead" /\ Deliver("thread")

LinkNext ==
  \/ \E ok \in BOOLEAN : Connect(ok)
  \/ \E t \in Requests : Publish(t) \/ WorkerReplies(t)
  \/ Drop \/ Reconnect \/ ThreadStep \/ ParentStep

\* The scheduler runs the parent and the library's thread.  The broker owes nobody
\* a request, and a task its end is TaskService's.
LinkSpec == LinkInit /\ [][LinkNext]_lvars /\ WF_lvars(ParentStep) /\ WF_lvars(ThreadStep)
=============================================================================
