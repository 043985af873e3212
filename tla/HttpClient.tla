----------------------------- MODULE HttpClient -----------------------------
(***************************************************************************)
(* A client of the OSS SDK used by several threads: the retries of         *)
(* Client::AttemptRequest, and the pool of curl handles behind             *)
(* CurlHttpClient::makeRequest.  Each thread makes one call; a handle is a *)
(* number.                                                                 *)
(*                                                                         *)
(* The queue of free handles has a mutex of its own, so what lies between  *)
(* its lock and unlock is one step; growPool holds another mutex over      *)
(* several of them.  A notify comes after the unlock, as a step of its own.*)
(***************************************************************************)
EXTENDS Naturals, Sequences, FiniteSets

CONSTANTS
  Callers,      \* the threads that share the client
  MaxHandles,   \* maxConnections
  MaxRetries,   \* of DefaultRetryStrategy
  NoCaller,         \* no thread
  HFaults,      \* bound: attempts that do not end well
  InitFaults    \* bound: failures of curl_easy_init

ASSUME HttpAssumption ==
  /\ IsFiniteSet(Callers)  /\ NoCaller \notin Callers
  /\ MaxHandles \in Nat \ {0}  /\ MaxRetries \in Nat
  /\ HFaults \in Nat  /\ InitFaults \in Nat

VARIABLES
  hpc,       \* what a thread does
  htry,      \* retry
  hhandle,   \* the handle it has, 0 for none
  hbody,     \* where its request body is: "start" or "moved"
  hanswer,   \* how its attempt ended, until that is judged
  hnote,     \* it has put back a handle and not yet notified
  hfree,     \* m_resources
  hsize,     \* poolSize_
  hmade,     \* handles made so far
  hgrower,   \* who holds containerLock_
  hadd,      \* how many handles it has still to make
  hclosed,   \* the client is destroyed
  hexecuted, \* server: executions of each call's request
  hfaults, hinits

callVars == <<htry, hbody, hanswer, hexecuted, hfaults>>
poolVars == <<hfree, hsize, hmade, hgrower, hadd, hinits>>
hvars == <<hpc, hhandle, hnote, callVars, poolVars, hclosed>>

\* How an attempt ends, and what that means: an answer 2xx; 5xx; a connection
\* that broke while the body was sent; a request that was executed but whose
\* answer was lost (curl 28, 52, 56); 403; another 4xx, or no such host; a
\* checksum that differs from the server's.
Kinds == {"ok", "busy", "cut", "unheard", "denied", "refused", "badcrc"}
Executes == {"ok", "unheard", "badcrc"}

\* shouldRetry.  A 403 is retried whatever it says: find() returns npos, which
\* is true, when the message is not about the time.
Retried == {"busy", "cut", "unheard", "denied"}

HInit ==
  /\ hpc = [c \in Callers |-> "attempt"]  /\ htry = [c \in Callers |-> 0]
  /\ hhandle = [c \in Callers |-> 0]  /\ hbody = [c \in Callers |-> "start"]
  /\ hanswer = [c \in Callers |-> "none"]  /\ hnote = [c \in Callers |-> FALSE]
  /\ hfree = << >>  /\ hsize = 0  /\ hmade = 0  /\ hgrower = NoCaller  /\ hadd = 0
  /\ hclosed = FALSE  /\ hexecuted = [c \in Callers |-> 0]
  /\ hfaults = 0  /\ hinits = 0

At(c, pc) == hpc[c] = pc /\ ~hnote[c]
Goto(c, pc) == hpc' = [hpc EXCEPT ![c] = pc]
Smaller(a, b) == IF a < b THEN a ELSE b

\* HasResourcesAvailable decides whether growPool is tried.
LookForHandle(c) ==
  /\ At(c, "attempt")
  /\ Goto(c, IF hfree = << >> THEN "grow" ELSE "acquire")
  /\ UNCHANGED <<hhandle, hnote, callVars, poolVars, hclosed>>

\* growPool with containerLock_: the pool doubles, within its limit.
Doubling == IF hsize > 0 THEN 2 * hsize ELSE 2
AmountToAdd == Smaller(Doubling, MaxHandles - hsize)

GrowBegin(c) ==
  /\ At(c, "grow")  /\ hgrower = NoCaller
  /\ IF hsize < MaxHandles
       THEN /\ hgrower' = c
            /\ hadd' = AmountToAdd
            /\ Goto(c, "growing")
       ELSE Goto(c, "acquire") /\ UNCHANGED <<hgrower, hadd>>
  /\ UNCHANGED <<hhandle, hnote, callVars, hfree, hsize, hmade, hinits, hclosed>>

\* One handle is made and put into the queue, or the loop ends.
GrowOne(c, made) ==
  /\ At(c, "growing")  /\ hadd > 0
  /\ ~made => hinits < InitFaults
  /\ IF made
       THEN /\ hmade' = hmade + 1  /\ hfree' = Append(hfree, hmade + 1)
            /\ hadd' = hadd - 1  /\ hnote' = [hnote EXCEPT ![c] = TRUE]
            /\ UNCHANGED hinits
       ELSE hadd' = 0 /\ hinits' = hinits + 1 /\ UNCHANGED <<hmade, hfree, hnote>>
  /\ UNCHANGED <<hpc, hhandle, callVars, hsize, hgrower, hclosed>>

\* poolSize_ is brought up to date at the end only.
GrowEnd(c) ==
  /\ At(c, "growing")  /\ hadd = 0
  /\ hsize' = hmade  /\ hgrower' = NoCaller
  /\ Goto(c, "acquire")
  /\ UNCHANGED <<hhandle, hnote, callVars, hfree, hmade, hadd, hinits, hclosed>>

\* ResourceManager_::Acquire: the last handle of the queue, or wait.
AcquireLeaving(c, rest) ==
  /\ At(c, "acquire") \/ At(c, "woken")
  /\ IF hfree = << >>
       THEN Goto(c, "waiting") /\ UNCHANGED <<hfree, hhandle>>
       ELSE /\ hhandle' = [hhandle EXCEPT ![c] = hfree[Len(hfree)]]
            /\ hfree' = rest
            /\ Goto(c, "perform")
  /\ UNCHANGED <<hnote, callVars, hsize, hmade, hgrower, hadd, hinits, hclosed>>

\* Mutant: the handle stays in the queue.
AcquireShared(c) == AcquireLeaving(c, hfree)

AcquireHandle(c) == AcquireLeaving(c, SubSeq(hfree, 1, Len(hfree) - 1))

\* notify_one wakes one of those that wait, if any does.
NotifyOne(c) ==
  /\ hnote[c]
  /\ hnote' = [hnote EXCEPT ![c] = FALSE]
  /\ LET waiting == {w \in Callers : hpc[w] = "waiting"} IN
       IF waiting = {} THEN UNCHANGED hpc ELSE \E w \in waiting : Goto(w, "woken")
  /\ UNCHANGED <<hhandle, callVars, poolVars, hclosed>>

\* curl_easy_perform; sendBody reads on from where the body is.
Perform(c, kind) ==
  /\ At(c, "perform")
  /\ kind # "ok" => hfaults < HFaults
  /\ hfaults' = IF kind = "ok" THEN hfaults ELSE hfaults + 1
  /\ hanswer' = [hanswer EXCEPT ![c] = kind]
  /\ hexecuted' = [hexecuted EXCEPT ![c] = IF kind \in Executes THEN @ + 1 ELSE @]
  /\ hbody' = [hbody EXCEPT ![c] = "moved"]
  /\ Goto(c, "release")
  /\ UNCHANGED <<hhandle, hnote, htry, poolVars, hclosed>>

\* The handle goes back, then the body is rewound to where the attempt found it.
ReleaseWith(c, note) ==
  /\ At(c, "release")
  /\ hfree' = Append(hfree, hhandle[c])
  /\ hhandle' = [hhandle EXCEPT ![c] = 0]
  /\ hnote' = [hnote EXCEPT ![c] = note]
  /\ hbody' = [hbody EXCEPT ![c] = "start"]
  /\ Goto(c, "judge")
  /\ UNCHANGED <<htry, hanswer, hexecuted, hfaults, hsize, hmade, hgrower, hadd, hinits, hclosed>>

\* Mutant: nobody is notified.
ReleaseSilently(c) == ReleaseWith(c, FALSE)

ReleaseHandle(c) == ReleaseWith(c, TRUE)

\* AttemptRequest: return, or sleep and attempt again.
JudgeWithin(c, retries) ==
  /\ At(c, "judge")
  /\ LET again == hanswer[c] \in Retried /\ htry[c] < retries IN
       /\ Goto(c, IF hanswer[c] = "ok" THEN "ok" ELSE IF again THEN "attempt" ELSE "failed")
       /\ htry' = IF again THEN [htry EXCEPT ![c] = @ + 1] ELSE htry
  /\ hanswer' = [hanswer EXCEPT ![c] = "none"]
  /\ UNCHANGED <<hhandle, hnote, hbody, hexecuted, hfaults, poolVars, hclosed>>

\* Mutant: one attempt too many.
JudgeLate(c) == JudgeWithin(c, MaxRetries + 1)

Judge(c) == JudgeWithin(c, MaxRetries)

\* The destructor waits until it has as many handles as poolSize_ says.
CloseClient ==
  /\ ~hclosed  /\ \A c \in Callers : At(c, "ok") \/ At(c, "failed")
  /\ Len(hfree) = hsize
  /\ hclosed' = TRUE  /\ hfree' = << >>
  /\ UNCHANGED <<hpc, hhandle, hnote, callVars, hsize, hmade, hgrower, hadd, hinits>>

CallStep(c) ==
  \/ LookForHandle(c) \/ GrowBegin(c) \/ GrowEnd(c) \/ AcquireHandle(c)
  \/ NotifyOne(c) \/ ReleaseHandle(c) \/ Judge(c)
  \/ (\E made \in BOOLEAN : GrowOne(c, made)) \/ (\E kind \in Kinds : Perform(c, kind))

HNext == CloseClient \/ \E c \in Callers : CallStep(c)

HFairness == WF_hvars(CloseClient) /\ \A c \in Callers : WF_hvars(CallStep(c))

HSpec == HInit /\ [][HNext]_hvars /\ HFairness
=============================================================================
