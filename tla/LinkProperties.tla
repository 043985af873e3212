--------------------------- MODULE LinkProperties ---------------------------
(***************************************************************************)
(* What the way of a request into the parent promises.                     *)
(***************************************************************************)
EXTENDS MqttLink

\* Types (task_handle.cpp, process_pool.h).
LinkTypeOK ==
  /\ link \in {"start", "never", "up", "down"}
  /\ broker \subseteq Requests  /\ net \in Seq(Requests)  /\ lost \subseteq Requests
  /\ mutex \in Readers \union {Nobody}
  /\ at \in [Readers -> {"idle", "lock", "length", "body"}]
  /\ msg \in [Readers -> Requests \union {Nobody}]
  /\ sock \in Seq([of : Requests, kind : {"length", "body"}])
  /\ mark \in BOOLEAN  /\ event \in BOOLEAN  /\ merged \in Nat  /\ drops \in Nat
  /\ ppc \in {"idle", "body", "loop", "dead"}  /\ cur \in Requests \union {Nobody}
  /\ working \subseteq Requests  /\ replies \subseteq Requests  /\ answered \subseteq Requests

\* The bytes in the socket, with the length the parent has just read before them
\* and the body that is still to be sent behind them.
Stream ==
  (IF ppc = "body" THEN <<Unit(cur, "length")>> ELSE << >>)
    \o sock
    \o (IF mutex # Nobody /\ at[mutex] = "body" THEN <<Unit(msg[mutex], "body")>> ELSE << >>)

\* Requests are never mixed: every length is followed by its own body, though two
\* threads write them, each in two sends that may block in between.
Framed ==
  ppc # "dead" =>
    /\ Len(Stream) % 2 = 0
    /\ \A i \in 1..Len(Stream) :
         i % 2 = 1 => /\ Stream[i] = Unit(Stream[i].of, "length")
                      /\ Stream[i + 1] = Unit(Stream[i].of, "body")

\* The parent ends only of a request longer than its buffer, never of bytes read
\* from the wrong place.
DeathHasCause == ppc = "dead" => cur \in Huge

\* Both: the parent always knows where a request begins.
RequestsStayWhole == Framed /\ DeathHasCause

\* Where request t may be; one that is being written or read is where its body is.
BodySent(t) == \E i \in 1..Len(sock) : sock[i] = Unit(t, "body")

Has(t) ==
  [broker |-> t \in broker, lost |-> t \in lost, net |-> \E i \in 1..Len(net) : net[i] = t,
   thread |-> msg["thread"] = t, parent |-> msg["parent"] = t, sock |-> BodySent(t),
   read |-> cur = t /\ ~BodySent(t) /\ \A r \in Readers : msg[r] # t,
   working |-> t \in working, replies |-> t \in replies, answered |-> t \in answered]

\* A request is at one place at a time: it is not delivered twice by the two
\* readers of the connection, and none disappears unless the connection did.
OnePlace == \A t \in Requests : Cardinality({p \in DOMAIN Has(t) : Has(t)[p]}) = 1

Unread == Cardinality({i \in 1..Len(sock) : sock[i].kind = "length"})
One(b) == IF b THEN 1 ELSE 0

\* The parent reads one request for each edge: those left in the socket are no
\* more than those that began to arrive in an edge of another.  (They stay there
\* until a later request comes.)
UnreadWereMerged == Unread <= merged + One(mark) + One(event)

\* The socket is full: who sends now waits for the parent, which may wait for them.
Full == Len(sock) = Room

\* loop(), called to publish, returns: the parent and the library's thread wait for
\* each other only when the socket is full.
LoopReturns == ppc = "loop" ~> ppc # "loop" \/ Full

\* A request at the head of a marked socket is read, unless the parent hangs.
MarkedIsRead ==
  \A t \in Requests :
    (mark /\ sock # << >> /\ Head(sock) = Unit(t, "length"))
      ~> \/ \A i \in 1..Len(sock) : sock[i] # Unit(t, "length")
         \/ Full \/ ppc = "dead"

\* A reply is published, unless the parent hangs.
ReplyIsPublished ==
  \A t \in Requests : t \in replies ~> t \in answered \/ Full \/ ppc = "dead"

\* While the socket has room, the parent and the library's thread never stop each
\* other: requests are read and replies published.
LinkProceeds == LoopReturns /\ MarkedIsRead /\ ReplyIsPublished
=============================================================================
