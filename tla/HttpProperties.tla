--------------------------- MODULE HttpProperties ---------------------------
(***************************************************************************)
(* What the OSS client's requests and its pool of handles promise.         *)
(***************************************************************************)
EXTENDS HttpClient

\* Types (CurlHttpClient.cc, Client.cc).
HttpTypeOK ==
  /\ hpc \in [Callers -> {"attempt", "grow", "growing", "acquire", "waiting", "woken",
                          "perform", "release", "judge", "ok", "failed"}]
  /\ htry \in [Callers -> 0..MaxRetries]  /\ hhandle \in [Callers -> Nat]
  /\ hbody \in [Callers -> {"start", "moved"}]  /\ hanswer \in [Callers -> Kinds \union {"none"}]
  /\ hnote \in [Callers -> BOOLEAN]  /\ hfree \in Seq(Nat \ {0})
  /\ hsize \in Nat  /\ hmade \in Nat  /\ hadd \in Nat  /\ hgrower \in Callers \union {NoCaller}
  /\ hclosed \in BOOLEAN  /\ hexecuted \in [Callers -> Nat]
  /\ hfaults \in Nat  /\ hinits \in Nat

Using == {c \in Callers : hhandle[c] # 0}

\* A handle is used by one thread, or is free, once: two requests never share a
\* connection, however threads grow the pool and wait for each other's handles.
HandleIsOwned ==
  /\ \A c, d \in Using : hhandle[c] = hhandle[d] => c = d
  /\ \A i, j \in 1..Len(hfree) : hfree[i] = hfree[j] => i = j
  /\ \A c \in Using, i \in 1..Len(hfree) : hfree[i] # hhandle[c]

\* The pool never has more handles than maxConnections, though its size is looked
\* at, and brought up to date, while others take and return handles.
PoolIsBounded == hmade <= MaxHandles

\* No handle is lost: when nobody grows the pool, poolSize_ counts the free ones
\* and those in use, which is what the destructor waits for.
HandlesAreCounted ==
  hgrower = NoCaller /\ ~hclosed => hsize = Len(hfree) + Cardinality(Using)

\* No lost wake-up: while threads wait for a handle, each free one has a thread
\* that will notify, or one that was woken and will look.
FreeIsNoticed ==
  (\E c \in Callers : hpc[c] = "waiting") =>
    Len(hfree) <= Cardinality({c \in Callers : hnote[c]})
                    + Cardinality({c \in Callers : hpc[c] = "woken"})

\* The pool of handles under threads that take, return and make them: each handle
\* has one owner, none is over the limit, none is lost and none lies unnoticed.
HandlesAreKept == HandleIsOwned /\ PoolIsBounded /\ HandlesAreCounted /\ FreeIsNoticed

\* Every attempt sends the body from its start, also after one that broke.
BodyFromStart == \A c \in Callers : hpc[c] = "perform" => hbody[c] = "start"

\* The calls implement RemoteCall: MaxRetries + 1 executions at most, success only
\* after one, and none after the return.
Call == INSTANCE RemoteCall WITH
          MaxTries <- MaxRetries + 1,
          phase <- [c \in Callers |-> IF hpc[c] \in {"ok", "failed"} THEN hpc[c] ELSE "calling"],
          executed <- hexecuted

ImplementsCall == Call!CallSpec
=============================================================================
