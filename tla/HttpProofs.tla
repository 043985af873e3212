----------------------------- MODULE HttpProofs -----------------------------
(***************************************************************************)
(* TLAPS proofs about the OSS client and its pool of curl handles, for any *)
(* threads, number of handles and of retries.                              *)
(***************************************************************************)
EXTENDS HttpProperties, FiniteSetTheorems, SequenceTheorems, TLAPS

USE HttpAssumption DEF hvars, callVars, poolVars, Kinds, Executes, Retried

(***************************************************************************)
(* What HandleIsOwned and PoolIsBounded rest on: a thread has a handle     *)
(* exactly while it performs or releases; at most one thread grows the     *)
(* pool, and what it has still to make fits; every handle has been made;   *)
(* the body is at its start until an attempt is performed.                 *)
(***************************************************************************)
HttpShape ==
  /\ \A c \in Callers : hhandle[c] # 0 <=> hpc[c] \in {"perform", "release"}
  /\ \A c \in Callers : hpc[c] = "growing" <=> hgrower = c
  /\ hgrower = NoCaller => hadd = 0 /\ hsize = hmade
  /\ hmade + hadd <= MaxHandles
  /\ \A c \in Callers : hhandle[c] <= hmade
  /\ \A i \in 1..Len(hfree) : hfree[i] <= hmade
  /\ \A c \in Callers : hpc[c] # "release" => hbody[c] = "start"

HttpInv == HttpTypeOK /\ HttpShape /\ HandleIsOwned

LEMMA HttpInitial == HInit => HttpInv
<1> SUFFICES ASSUME HInit PROVE HttpInv
    OBVIOUS
<1>1. HttpTypeOK
  <2>1. hnote \in [Callers -> BOOLEAN] /\ hclosed \in BOOLEAN
    BY DEF HInit
  <2>2. hfree \in Seq(Nat \ {0})
    BY DEF HInit
  <2>3. QED BY <2>1, <2>2 DEF HInit, HttpTypeOK
<1>2. HttpShape /\ HandleIsOwned
  BY DEF HInit, HttpShape, HandleIsOwned, Using
<1>3. QED BY <1>1, <1>2 DEF HttpInv

(***************************************************************************)
(* The types are kept.                                                     *)
(***************************************************************************)
LEMMA HttpTypeStep == HttpTypeOK /\ HttpShape /\ [HNext]_hvars => HttpTypeOK'
<1> SUFFICES ASSUME HttpTypeOK, HttpShape, [HNext]_hvars PROVE HttpTypeOK'
    OBVIOUS
<1> USE DEF HttpTypeOK, At, Goto
<1>1. ASSUME NEW c \in Callers, LookForHandle(c) PROVE HttpTypeOK'
  BY <1>1 DEF LookForHandle
<1>2. ASSUME NEW c \in Callers, GrowBegin(c) PROVE HttpTypeOK'
  <2>1. hsize < MaxHandles => AmountToAdd \in Nat
    BY DEF AmountToAdd, Doubling, Smaller
  <2>2. QED BY <1>2, <2>1 DEF GrowBegin
<1>3. ASSUME NEW c \in Callers, GrowEnd(c) PROVE HttpTypeOK'
  BY <1>3 DEF GrowEnd
<1>4. ASSUME NEW c \in Callers, AcquireHandle(c) PROVE HttpTypeOK'
  <2>1. CASE hfree = << >>
    BY <1>4, <2>1 DEF AcquireHandle, AcquireLeaving
  <2>2. CASE hfree # << >>
    <3>1. /\ hfree[Len(hfree)] \in Nat
          /\ SubSeq(hfree, 1, Len(hfree) - 1) \in Seq(Nat \ {0})
      BY <2>2
    <3>2. hhandle' \in [Callers -> Nat] /\ hfree' \in Seq(Nat \ {0})
      BY <1>4, <2>2, <3>1 DEF AcquireHandle, AcquireLeaving
    <3>3. QED BY <1>4, <2>2, <3>2 DEF AcquireHandle, AcquireLeaving
  <2>3. QED BY <2>1, <2>2
<1>5. ASSUME NEW c \in Callers, NotifyOne(c) PROVE HttpTypeOK'
  BY <1>5 DEF NotifyOne
<1>6. ASSUME NEW c \in Callers, ReleaseHandle(c) PROVE HttpTypeOK'
  <2>1. hhandle[c] \in Nat \ {0}
    BY <1>6 DEF ReleaseHandle, ReleaseWith, HttpShape
  <2>2. hfree' \in Seq(Nat \ {0})
    BY <1>6, <2>1 DEF ReleaseHandle, ReleaseWith
  <2>3. QED BY <1>6, <2>2 DEF ReleaseHandle, ReleaseWith
<1>7. ASSUME NEW c \in Callers, Judge(c) PROVE HttpTypeOK'
  BY <1>7 DEF Judge, JudgeWithin
<1>8. ASSUME NEW c \in Callers, NEW made \in BOOLEAN, GrowOne(c, made) PROVE HttpTypeOK'
  <2>1. CASE made
    <3>1. hmade + 1 \in Nat \ {0} /\ hfree' = Append(hfree, hmade + 1)
      BY <1>8, <2>1 DEF GrowOne
    <3>2. hfree' \in Seq(Nat \ {0})
      BY <3>1
    <3>3. hnote' \in [Callers -> BOOLEAN]
      BY <1>8, <2>1 DEF GrowOne
    <3>4. QED BY <1>8, <2>1, <3>2, <3>3, SMTT(60) DEF GrowOne
  <2>2. CASE ~made
    BY <1>8, <2>2 DEF GrowOne
  <2>3. QED BY <2>1, <2>2
<1>9. ASSUME NEW c \in Callers, NEW kind \in Kinds, Perform(c, kind) PROVE HttpTypeOK'
  <2>1. hexecuted' \in [Callers -> Nat] /\ hfaults' \in Nat
    BY <1>9 DEF Perform
  <2>2. hanswer' \in [Callers -> Kinds \union {"none"}]
    BY <1>9 DEF Perform
  <2>3. QED BY <1>9, <2>1, <2>2 DEF Perform
<1>10. CASE CloseClient
  BY <1>10 DEF CloseClient
<1>11. CASE UNCHANGED hvars
  BY <1>11
<1>12. QED
  <2> HIDE DEF HttpTypeOK, At, Goto, Kinds
  <2> QED
    BY <1>1, <1>2, <1>3, <1>4, <1>5, <1>6, <1>7, <1>8, <1>9, <1>10, <1>11 DEF HNext, CallStep

(***************************************************************************)
(* The shape is kept.                                                      *)
(***************************************************************************)
LEMMA HttpShapeStep == HttpTypeOK /\ HttpShape /\ [HNext]_hvars => HttpShape'
<1> SUFFICES ASSUME HttpTypeOK, HttpShape, [HNext]_hvars PROVE HttpShape'
    OBVIOUS
<1> USE DEF HttpTypeOK, HttpShape, At, Goto
<1>1. ASSUME NEW c \in Callers, LookForHandle(c) PROVE HttpShape'
  BY <1>1 DEF LookForHandle
<1>2. ASSUME NEW c \in Callers, GrowBegin(c) PROVE HttpShape'
  BY <1>2 DEF GrowBegin, AmountToAdd, Doubling, Smaller
<1>3. ASSUME NEW c \in Callers, GrowEnd(c) PROVE HttpShape'
  BY <1>3 DEF GrowEnd
<1>4. ASSUME NEW c \in Callers, AcquireHandle(c) PROVE HttpShape'
  <2> USE DEF AcquireHandle, AcquireLeaving
  <2>1. CASE hfree = << >>
    <3>1. hpc' = [hpc EXCEPT ![c] = "waiting"] /\ hpc[c] \in {"acquire", "woken"}
      BY <1>4, <2>1
    <3>2. UNCHANGED <<hhandle, hfree, hbody, hsize, hmade, hgrower, hadd>>
      BY <1>4, <2>1
    <3> HIDE DEF AcquireHandle
    <3>3. QED BY <3>1, <3>2
  <2>2. CASE hfree # << >>
    <3> DEFINE h == hfree[Len(hfree)]
    <3>1. h \in Nat \ {0} /\ h <= hmade
      BY <2>2
    <3>2. /\ hpc' = [hpc EXCEPT ![c] = "perform"]  /\ hpc[c] \in {"acquire", "woken"}
          /\ hhandle' = [hhandle EXCEPT ![c] = h]
          /\ UNCHANGED <<hbody, hsize, hmade, hgrower, hadd>>
      BY <1>4, <2>2
    <3>3. \A i \in 1..Len(hfree') : hfree'[i] <= hmade'
      <4>1. /\ hfree' = SubSeq(hfree, 1, Len(hfree) - 1)  /\ hfree \in Seq(Nat \ {0})
            /\ hmade' = hmade
        BY <1>4, <2>2
      <4>2. \A i \in 1..Len(hfree') : i \in 1..Len(hfree) /\ hfree'[i] = hfree[i]
        BY <2>2, <4>1, SMTT(60)
      <4>3. QED BY <4>1, <4>2
    <3> HIDE DEF AcquireHandle, h
    <3>4. QED BY <3>1, <3>2, <3>3
  <2>3. QED BY <2>1, <2>2
<1>5. ASSUME NEW c \in Callers, NotifyOne(c) PROVE HttpShape'
  BY <1>5, SMTT(60) DEF NotifyOne
<1>6. ASSUME NEW c \in Callers, ReleaseHandle(c) PROVE HttpShape'
  <2>1. \A i \in 1..Len(hfree') : hfree'[i] <= hmade'
    BY <1>6, SMTT(60) DEF ReleaseHandle, ReleaseWith
  <2>2. QED BY <1>6, <2>1 DEF ReleaseHandle, ReleaseWith
<1>7. ASSUME NEW c \in Callers, Judge(c) PROVE HttpShape'
  BY <1>7 DEF Judge, JudgeWithin
<1>8. ASSUME NEW c \in Callers, NEW made \in BOOLEAN, GrowOne(c, made) PROVE HttpShape'
  <2>1. CASE made
    <3>1. \A i \in 1..Len(hfree') : hfree'[i] <= hmade'
      <4>1. /\ hmade' = hmade + 1 /\ hmade \in Nat
            /\ hfree' = Append(hfree, hmade + 1) /\ hfree \in Seq(Nat \ {0})
        BY <1>8, <2>1 DEF GrowOne
      <4>2. \A i \in 1..Len(hfree') : i \in 1..Len(hfree) \/ hfree'[i] = hmade + 1
        BY <4>1
      <4>3. QED BY <4>1, <4>2, SMTT(60)
    <3>2. QED BY <1>8, <2>1, <3>1 DEF GrowOne
  <2>2. CASE ~made
    BY <1>8, <2>2 DEF GrowOne
  <2>3. QED BY <2>1, <2>2
<1>9. ASSUME NEW c \in Callers, NEW kind \in Kinds, Perform(c, kind) PROVE HttpShape'
  BY <1>9 DEF Perform
<1>10. CASE CloseClient
  BY <1>10 DEF CloseClient
<1>11. CASE UNCHANGED hvars
  BY <1>11
<1>12. QED
  BY <1>1, <1>2, <1>3, <1>4, <1>5, <1>6, <1>7, <1>8, <1>9, <1>10, <1>11 DEF HNext, CallStep

(***************************************************************************)
(* A handle keeps one owner: only three steps move one.                    *)
(***************************************************************************)
LEMMA OwnerStep == HttpInv /\ [HNext]_hvars => HandleIsOwned'
<1> SUFFICES ASSUME HttpTypeOK, HttpShape, HandleIsOwned, [HNext]_hvars PROVE HandleIsOwned'
    BY DEF HttpInv
<1> USE DEF HandleIsOwned, Using
<1>1. CASE UNCHANGED <<hhandle, hfree>>
  BY <1>1
<1>2. ASSUME NEW c \in Callers, AcquireHandle(c), hfree # << >> PROVE HandleIsOwned'
  <2> DEFINE n == Len(hfree)
  <2>1. /\ hhandle' = [hhandle EXCEPT ![c] = hfree[n]]  /\ hhandle \in [Callers -> Nat]
        /\ n \in Nat \ {0}  /\ hfree \in Seq(Nat \ {0})
    BY <1>2 DEF AcquireHandle, AcquireLeaving, HttpTypeOK
  <2>2. Len(hfree') = n - 1 /\ \A i \in 1..(n - 1) : hfree'[i] = hfree[i]
    BY <1>2, <2>1 DEF AcquireHandle, AcquireLeaving
  <2>3. QED BY <2>1, <2>2
<1>3. ASSUME NEW c \in Callers, ReleaseHandle(c) PROVE HandleIsOwned'
  <2> DEFINE n == Len(hfree)
  <2>1. /\ hhandle' = [hhandle EXCEPT ![c] = 0]  /\ hhandle \in [Callers -> Nat]
        /\ hhandle[c] # 0  /\ n \in Nat  /\ hfree \in Seq(Nat \ {0})
    BY <1>3 DEF ReleaseHandle, ReleaseWith, HttpTypeOK, HttpShape, At
  <2>2. /\ Len(hfree') = n + 1  /\ hfree'[n + 1] = hhandle[c]
        /\ \A i \in 1..n : hfree'[i] = hfree[i]
    BY <1>3, <2>1 DEF ReleaseHandle, ReleaseWith
  <2> HIDE DEF n
  <2>3. \A i \in 1..(n + 1) : i \in 1..n \/ i = n + 1
    BY <2>1
  <2>4. \A i, j \in 1..(n + 1) : hfree'[i] = hfree'[j] => i = j
    BY <2>1, <2>2, <2>3 DEF n
  <2>5. \A d \in Using', i \in 1..(n + 1) : hfree'[i] # hhandle'[d]
    BY <2>1, <2>2, <2>3, SMTT(60) DEF n
  <2>6. QED BY <2>1, <2>2, <2>4, <2>5
<1>4. ASSUME NEW c \in Callers, GrowOne(c, TRUE) PROVE HandleIsOwned'
  <2> DEFINE n == Len(hfree)
  <2>1. /\ hhandle' = hhandle  /\ hhandle \in [Callers -> Nat]  /\ hmade \in Nat
        /\ n \in Nat  /\ hfree \in Seq(Nat \ {0})
        /\ \A d \in Callers : hhandle[d] <= hmade
        /\ \A i \in 1..n : hfree[i] <= hmade
    BY <1>4 DEF GrowOne, HttpTypeOK, HttpShape
  <2>2. /\ Len(hfree') = n + 1  /\ hfree'[n + 1] = hmade + 1
        /\ \A i \in 1..n : hfree'[i] = hfree[i]
    <3>1. hfree' = Append(hfree, hmade + 1) /\ hmade + 1 \in Nat \ {0}
      BY <1>4, <2>1 DEF GrowOne
    <3>2. QED BY <2>1, <3>1, AppendProperties
  <2> HIDE DEF n
  <2>3. \A i \in 1..(n + 1) : i \in 1..n \/ i = n + 1
    BY <2>1
  <2>4. \A i, j \in 1..(n + 1) : hfree'[i] = hfree'[j] => i = j
    BY <2>1, <2>2, <2>3, SMTT(60) DEF n
  <2>5. ASSUME NEW d \in Using', NEW i \in 1..(n + 1) PROVE hfree'[i] # hhandle'[d]
    <3>1. hhandle'[d] = hhandle[d] /\ hhandle[d] \in Nat /\ d \in Using
      BY <2>1
    <3>2. CASE i = n + 1
      BY <2>1, <2>2, <3>1, <3>2
    <3>3. CASE i \in 1..n
      BY <2>2, <3>1, <3>3 DEF n
    <3>4. QED BY <2>3, <3>2, <3>3
  <2>6. QED BY <2>1, <2>2, <2>4, <2>5
<1>5. CASE CloseClient
  BY <1>5 DEF CloseClient
<1>6. ASSUME NEW c \in Callers, CallStep(c) PROVE HandleIsOwned'
  BY <1>6, <1>1, <1>2, <1>3, <1>4
     DEF CallStep, LookForHandle, GrowBegin, GrowEnd, AcquireHandle, AcquireLeaving,
         NotifyOne, Judge, JudgeWithin, GrowOne, Perform
<1>7. QED BY <1>1, <1>5, <1>6 DEF HNext

THEOREM HttpInvariance == HSpec => []HttpInv
<1>1. HttpInv /\ [HNext]_hvars => HttpInv'
  BY HttpTypeStep, HttpShapeStep, OwnerStep DEF HttpInv
<1>2. QED BY HttpInitial, <1>1, PTL DEF HSpec

(***************************************************************************)
(* The types are right in every reachable state.                           *)
(***************************************************************************)
THEOREM HttpTypeCorrect == HSpec => []HttpTypeOK
<1>1. HttpInv => HttpTypeOK
  BY DEF HttpInv
<1>2. QED BY HttpInvariance, <1>1, PTL

(***************************************************************************)
(* Two requests never share a curl handle.                                 *)
(***************************************************************************)
THEOREM HandlesAreOwned == HSpec => []HandleIsOwned
<1>1. HttpInv => HandleIsOwned
  BY DEF HttpInv
<1>2. QED BY HttpInvariance, <1>1, PTL

(***************************************************************************)
(* There are never more handles than maxConnections.                       *)
(***************************************************************************)
THEOREM PoolStaysBounded == HSpec => []PoolIsBounded
<1>1. HttpInv => PoolIsBounded
  BY DEF HttpInv, HttpTypeOK, HttpShape, PoolIsBounded
<1>2. QED BY HttpInvariance, <1>1, PTL

(***************************************************************************)
(* Every attempt sends the whole body, from its start.                     *)
(***************************************************************************)
THEOREM BodiesStartAtStart == HSpec => []BodyFromStart
<1>1. HttpInv => BodyFromStart
  BY DEF HttpInv, HttpTypeOK, HttpShape, BodyFromStart
<1>2. QED BY HttpInvariance, <1>1, PTL

-----------------------------------------------------------------------------
(***************************************************************************)
(* Until the client is closed every handle that was made is free or in     *)
(* use: it moves from one to the other in one step.                        *)
(***************************************************************************)
Counted == ~hclosed => hmade = Len(hfree) + Cardinality(Using)

LEMMA FrontLength ==
  ASSUME NEW s \in Seq(Nat \ {0}), s # << >>
  PROVE  Len(SubSeq(s, 1, Len(s) - 1)) = Len(s) - 1 /\ Len(s) \in Nat
<1>1. Len(s) \in Nat \ {0}
  OBVIOUS
<1> DEFINE n == Len(s) - 1
<1>2. n \in Nat /\ \A i \in 1..n : s[i] \in Nat \ {0}
  BY <1>1
<1>3. Len(SubSeq(s, 1, n)) = IF 1 <= n THEN n - 1 + 1 ELSE 0
  <2> HIDE DEF n
  <2> QED BY <1>2, SubSeqProperties
<1> DEFINE k == Len(SubSeq(s, 1, n))
<1>4. k = n
  <2>1. n \in Nat /\ k = IF 1 <= n THEN n - 1 + 1 ELSE 0
    BY <1>2, <1>3
  <2> HIDE DEF n, k
  <2>2. QED BY <2>1
<1>5. QED BY <1>1, <1>4

LEMMA UsingIsFinite == IsFiniteSet(Using) /\ Cardinality(Using) \in Nat
  BY FS_Subset, FS_CardinalityType DEF Using

LEMMA CountedStep == HttpInv /\ Counted /\ [HNext]_hvars => Counted'
<1> SUFFICES ASSUME HttpTypeOK, HttpShape, Counted, [HNext]_hvars PROVE Counted'
    BY DEF HttpInv
<1> USE DEF Counted
<1>1. CASE UNCHANGED <<hhandle, hfree, hmade, hclosed>>
  BY <1>1 DEF Using
<1>2. ASSUME NEW c \in Callers, AcquireHandle(c), hfree # << >> PROVE Counted'
  <2> DEFINE h == hfree[Len(hfree)]
  <2>0. h # 0 /\ hfree \in Seq(Nat \ {0})
    BY <1>2 DEF HttpTypeOK
  <2>1. Using' = Using \union {c} /\ c \notin Using
    <3>1. hhandle' = [hhandle EXCEPT ![c] = h] /\ hpc[c] \in {"acquire", "woken"}
      BY <1>2 DEF AcquireHandle, AcquireLeaving, At
    <3>2. hhandle[c] = 0 /\ hhandle \in [Callers -> Nat]
      BY <3>1 DEF HttpTypeOK, HttpShape
    <3> HIDE DEF h
    <3>3. QED BY <2>0, <3>1, <3>2 DEF Using
  <2>2. Cardinality(Using') = Cardinality(Using) + 1
    BY <2>1, UsingIsFinite, FS_AddElement
  <2>3. /\ hfree' = SubSeq(hfree, 1, Len(hfree) - 1)  /\ hfree \in Seq(Nat \ {0})
        /\ UNCHANGED <<hmade, hclosed>>
    BY <1>2 DEF AcquireHandle, AcquireLeaving, HttpTypeOK
  <2>4. Len(hfree') = Len(hfree) - 1 /\ Len(hfree) \in Nat
    BY <1>2, <2>3, FrontLength
  <2>5. ~hclosed => hmade = (Len(hfree) - 1) + (Cardinality(Using) + 1)
    BY <2>4, UsingIsFinite
  <2>6. hmade' = hmade /\ hclosed' = hclosed
    BY <2>3
  <2>7. ~hclosed => hmade' = Len(hfree') + Cardinality(Using')
    BY <2>2, <2>4, <2>5, <2>6
  <2>8. QED BY <2>6, <2>7
<1>3. ASSUME NEW c \in Callers, ReleaseHandle(c) PROVE Counted'
  <2>1. Using' = Using \ {c} /\ c \in Using
    BY <1>3 DEF ReleaseHandle, ReleaseWith, Using, HttpTypeOK, HttpShape, At
  <2>2. Cardinality(Using') = Cardinality(Using) - 1
    BY <2>1, UsingIsFinite, FS_RemoveElement
  <2>3. Len(hfree') = Len(hfree) + 1 /\ Len(hfree) \in Nat /\ UNCHANGED <<hmade, hclosed>>
    BY <1>3 DEF ReleaseHandle, ReleaseWith, HttpTypeOK
  <2>4. QED BY <2>2, <2>3, UsingIsFinite
<1>4. ASSUME NEW c \in Callers, GrowOne(c, TRUE) PROVE Counted'
  <2>1. Len(hfree') = Len(hfree) + 1 /\ Len(hfree) \in Nat
    BY <1>4 DEF GrowOne, HttpTypeOK
  <2>2. Using' = Using /\ hmade' = hmade + 1 /\ hclosed' = hclosed
    BY <1>4 DEF GrowOne, Using
  <2>3. QED BY <2>1, <2>2, UsingIsFinite
<1>5. CASE CloseClient
  BY <1>5 DEF CloseClient
<1>6. ASSUME NEW c \in Callers, CallStep(c) PROVE Counted'
  BY <1>6, <1>1, <1>2, <1>3, <1>4
     DEF CallStep, LookForHandle, GrowBegin, GrowEnd, AcquireHandle, AcquireLeaving,
         NotifyOne, Judge, JudgeWithin, GrowOne, Perform
<1>7. QED BY <1>1, <1>5, <1>6 DEF HNext

(***************************************************************************)
(* When nobody grows the pool, poolSize_ is the number of free handles and *)
(* of those in use: the destructor's wait is for what there is.            *)
(***************************************************************************)
THEOREM NoHandleIsLost == HSpec => []HandlesAreCounted
<1>1. HInit => Counted
  <2>1. HInit => Using = {}
    BY DEF HInit, Using
  <2>2. QED BY <2>1, FS_EmptySet, SMTT(60) DEF HInit, Counted
<1>2. HSpec => []Counted
  BY <1>1, CountedStep, HttpInvariance, PTL DEF HSpec
<1>3. HttpInv /\ Counted => HandlesAreCounted
  BY DEF HttpInv, HttpShape, Counted, HandlesAreCounted
<1>4. QED BY HttpInvariance, <1>2, <1>3, PTL

-----------------------------------------------------------------------------
(***************************************************************************)
(* No lost wake-up.  FreeIsNoticed is inductive: a handle becomes free     *)
(* together with a promise to notify, a notification turns a waiting       *)
(* thread into one that looks, and one that looks takes a handle.          *)
(***************************************************************************)
Noting == {c \in Callers : hnote[c]}
Woken  == {c \in Callers : hpc[c] = "woken"}

LEMMA CountsAreFinite ==
  /\ IsFiniteSet(Noting) /\ Cardinality(Noting) \in Nat
  /\ IsFiniteSet(Woken) /\ Cardinality(Woken) \in Nat
  BY FS_Subset, FS_CardinalityType DEF Noting, Woken

Noticed == (\E c \in Callers : hpc[c] = "waiting") =>
              Len(hfree) <= Cardinality(Noting) + Cardinality(Woken)

LEMMA FreeIsNoticedIsNoticed == FreeIsNoticed <=> Noticed
  BY DEF FreeIsNoticed, Noticed, Noting, Woken

\* A thread puts a handle into the queue and has yet to notify.
LEMMA PutIsNoticed ==
  ASSUME HttpTypeOK, Noticed, NEW c \in Callers, ~hnote[c], hpc[c] # "waiting",
         Len(hfree') = Len(hfree) + 1, hnote' = [hnote EXCEPT ![c] = TRUE],
         Woken' = Woken, \A d \in Callers : hpc'[d] = "waiting" => hpc[d] = "waiting"
  PROVE  Noticed'
<1>1. Noting' = Noting \union {c} /\ c \notin Noting
  BY DEF HttpTypeOK, Noting
<1>2. Cardinality(Noting') = Cardinality(Noting) + 1
  BY <1>1, CountsAreFinite, FS_AddElement
<1>3. Len(hfree) \in Nat
  BY DEF HttpTypeOK
<1>4. QED BY <1>2, <1>3, CountsAreFinite DEF Noticed

LEMMA NoticedStep == HttpInv /\ Noticed /\ [HNext]_hvars => Noticed'
<1> SUFFICES ASSUME HttpTypeOK, HttpShape, Noticed, [HNext]_hvars PROVE Noticed'
    BY DEF HttpInv
<1> USE DEF At, Goto
<1>0. Len(hfree) \in Nat /\ hpc \in [Callers -> {hpc[c] : c \in Callers}] /\ hnote \in [Callers -> BOOLEAN]
  BY DEF HttpTypeOK
<1>1. ASSUME UNCHANGED <<hfree, hnote>>, Woken' = Woken,
             \A d \in Callers : hpc'[d] = "waiting" => hpc[d] = "waiting"
      PROVE  Noticed'
  BY <1>1 DEF Noticed, Noting
<1>2. ASSUME NEW c \in Callers, LookForHandle(c) \/ GrowBegin(c) \/ GrowEnd(c) \/ Judge(c)
      PROVE  Noticed'
  <2>1. UNCHANGED <<hfree, hnote>> /\ hpc[c] \notin {"woken", "waiting"}
    BY <1>2 DEF LookForHandle, GrowBegin, GrowEnd, Judge, JudgeWithin
  <2>2. \E pc \in {"grow", "acquire", "growing", "ok", "attempt", "failed"} :
          hpc' = [hpc EXCEPT ![c] = pc]
    BY <1>2 DEF LookForHandle, GrowBegin, GrowEnd, Judge, JudgeWithin
  <2>3. Woken' = Woken /\ \A d \in Callers : hpc'[d] = "waiting" => hpc[d] = "waiting"
    BY <1>0, <2>1, <2>2 DEF Woken
  <2>4. QED BY <1>1, <2>1, <2>3
<1>3. ASSUME NEW c \in Callers, NEW kind \in Kinds, Perform(c, kind) PROVE Noticed'
  <2>1. UNCHANGED <<hfree, hnote>> /\ hpc[c] = "perform" /\ hpc' = [hpc EXCEPT ![c] = "release"]
    BY <1>3 DEF Perform
  <2>2. Woken' = Woken /\ \A d \in Callers : hpc'[d] = "waiting" => hpc[d] = "waiting"
    BY <1>0, <2>1 DEF Woken
  <2>3. QED BY <1>1, <2>1, <2>2
<1>4. ASSUME NEW c \in Callers, AcquireHandle(c) PROVE Noticed'
  <2>1. CASE hfree = << >>
    <3>1. Len(hfree') = 0
      BY <1>4, <2>1 DEF AcquireHandle, AcquireLeaving
    <3>2. Cardinality(Noting)' \in Nat /\ Cardinality(Woken)' \in Nat
      BY FS_Subset, FS_CardinalityType DEF Noting, Woken
    <3>3. QED BY <3>1, <3>2 DEF Noticed
  <2>2. CASE hfree # << >>
    <3>1. /\ hpc' = [hpc EXCEPT ![c] = "perform"]  /\ hnote' = hnote
          /\ hpc[c] \in {"acquire", "woken"}
          /\ hfree' = SubSeq(hfree, 1, Len(hfree) - 1)
      BY <1>4, <2>2 DEF AcquireHandle, AcquireLeaving
    <3>2. Len(hfree') = Len(hfree) - 1
      BY <2>2, <3>1, FrontLength DEF HttpTypeOK
    <3>3. Woken' = Woken \ {c} /\ \A d \in Callers : hpc'[d] = "waiting" => hpc[d] = "waiting"
      BY <1>0, <3>1 DEF Woken
    <3>4. Cardinality(Woken') >= Cardinality(Woken) - 1 /\ Cardinality(Woken') \in Nat
      <4>1. Cardinality(Woken \ {c}) = IF c \in Woken THEN Cardinality(Woken) - 1
                                                      ELSE Cardinality(Woken)
        BY CountsAreFinite, FS_RemoveElement
      <4>2. Cardinality(Woken \ {c}) \in Nat
        BY CountsAreFinite, FS_RemoveElement, FS_CardinalityType
      <4>3. QED BY <3>3, <4>1, <4>2, CountsAreFinite
    <3>5. Noting' = Noting
      BY <3>1 DEF Noting
    <3>6. QED BY <1>0, <3>2, <3>3, <3>4, <3>5, CountsAreFinite DEF Noticed
  <2>3. QED BY <2>1, <2>2
<1>5. ASSUME NEW c \in Callers, NotifyOne(c) PROVE Noticed'
  <2>1. hfree' = hfree /\ Noting' = Noting \ {c} /\ c \in Noting
    BY <1>0, <1>5 DEF NotifyOne, Noting
  <2>2. Cardinality(Noting') = Cardinality(Noting) - 1
    BY <2>1, CountsAreFinite, FS_RemoveElement
  <2>3. CASE hpc' = hpc
    <3>1. ~ \E d \in Callers : hpc'[d] = "waiting"
      <4>1. CASE {w \in Callers : hpc[w] = "waiting"} = {}
        BY <2>3, <4>1
      <4>2. CASE {w \in Callers : hpc[w] = "waiting"} # {}
        <5>1. PICK w \in Callers : hpc[w] = "waiting" /\ hpc' = [hpc EXCEPT ![w] = "woken"]
          BY <1>5, <4>2 DEF NotifyOne
        <5>2. QED BY <1>0, <2>3, <5>1
      <4>3. QED BY <4>1, <4>2
    <3>2. QED BY <3>1 DEF Noticed
  <2>4. CASE hpc' # hpc
    <3>1. PICK w \in Callers : hpc[w] = "waiting" /\ hpc' = [hpc EXCEPT ![w] = "woken"]
      BY <1>5, <2>4 DEF NotifyOne
    <3>2. Woken' = Woken \union {w} /\ w \notin Woken
      BY <1>0, <3>1 DEF Woken
    <3>3. Cardinality(Woken') = Cardinality(Woken) + 1
      BY <3>2, CountsAreFinite, FS_AddElement
    <3>4. QED BY <1>0, <2>1, <2>2, <3>1, <3>3, CountsAreFinite DEF Noticed
  <2>5. QED BY <2>3, <2>4
<1>6. ASSUME NEW c \in Callers, ReleaseHandle(c) PROVE Noticed'
  <2>1. /\ ~hnote[c]  /\ hpc[c] = "release"  /\ hpc' = [hpc EXCEPT ![c] = "judge"]
        /\ hfree' = Append(hfree, hhandle[c])  /\ hnote' = [hnote EXCEPT ![c] = TRUE]
    BY <1>6 DEF ReleaseHandle, ReleaseWith
  <2>2. Woken' = Woken /\ \A d \in Callers : hpc'[d] = "waiting" => hpc[d] = "waiting"
    BY <1>0, <2>1 DEF Woken
  <2>3. Len(hfree') = Len(hfree) + 1
    BY <2>1 DEF HttpTypeOK
  <2>4. QED BY <2>1, <2>2, <2>3, PutIsNoticed
<1>7. ASSUME NEW c \in Callers, NEW made \in BOOLEAN, GrowOne(c, made) PROVE Noticed'
  <2>1. ~hnote[c] /\ hpc[c] = "growing" /\ hpc' = hpc
    BY <1>7 DEF GrowOne
  <2>2. Woken' = Woken
    BY <2>1 DEF Woken
  <2>3. CASE made
    <3>1. Len(hfree') = Len(hfree) + 1 /\ hnote' = [hnote EXCEPT ![c] = TRUE]
      BY <1>7, <2>3 DEF GrowOne, HttpTypeOK
    <3>2. QED BY <2>1, <2>2, <3>1, PutIsNoticed
  <2>4. CASE ~made
    BY <1>1, <1>7, <2>1, <2>2, <2>4 DEF GrowOne
  <2>5. QED BY <2>3, <2>4
<1>8. CASE CloseClient
  BY <1>8 DEF CloseClient, Noticed
<1>9. CASE UNCHANGED hvars
  BY <1>1, <1>9 DEF Woken
<1>10. QED
  <2> HIDE DEF At, Goto, Kinds
  <2> QED
    BY <1>2, <1>3, <1>4, <1>5, <1>6, <1>7, <1>8, <1>9 DEF HNext, CallStep

(***************************************************************************)
(* While threads wait for a handle, each free one has somebody who will    *)
(* give it to them, or who looks for it.                                   *)
(***************************************************************************)
THEOREM NoWakeUpIsLost == HSpec => []FreeIsNoticed
<1>1. HInit => Noticed
  BY DEF HInit, Noticed
<1>2. HSpec => []Noticed
  BY <1>1, NoticedStep, HttpInvariance, PTL DEF HSpec
<1>3. QED BY <1>2, FreeIsNoticedIsNoticed, PTL

(***************************************************************************)
(* All that the pool of handles promises to the threads that share it.     *)
(***************************************************************************)
THEOREM HandlesStayKept == HSpec => []HandlesAreKept
<1>1. HandleIsOwned /\ PoolIsBounded /\ HandlesAreCounted /\ FreeIsNoticed => HandlesAreKept
  BY DEF HandlesAreKept
<1>2. QED BY HandlesAreOwned, PoolStaysBounded, NoHandleIsLost, NoWakeUpIsLost, <1>1, PTL

-----------------------------------------------------------------------------
(***************************************************************************)
(* Refinement.  The requests executed are no more than the attempts that   *)
(* have been sent, and a thread that saw a 2xx has had one executed.       *)
(***************************************************************************)
Tried ==
  \A c \in Callers :
    /\ hexecuted[c] <= htry[c] + 1
    /\ hpc[c] \notin {"release", "judge", "ok", "failed"} => hexecuted[c] <= htry[c]
    /\ hanswer[c] = "ok" => hexecuted[c] > 0

LEMMA TriedStep == HttpInv /\ Tried /\ [HNext]_hvars => Tried'
<1> SUFFICES ASSUME HttpTypeOK, HttpShape, Tried, [HNext]_hvars PROVE Tried'
    BY DEF HttpInv
<1> USE DEF HttpTypeOK, Tried, At, Goto
<1>1. ASSUME NEW c \in Callers, LookForHandle(c) PROVE Tried'
  BY <1>1 DEF LookForHandle
<1>2. ASSUME NEW c \in Callers, GrowBegin(c) PROVE Tried'
  BY <1>2 DEF GrowBegin
<1>3. ASSUME NEW c \in Callers, GrowEnd(c) PROVE Tried'
  BY <1>3 DEF GrowEnd
<1>4. ASSUME NEW c \in Callers, AcquireHandle(c) PROVE Tried'
  BY <1>4 DEF AcquireHandle, AcquireLeaving
<1>5. ASSUME NEW c \in Callers, NotifyOne(c) PROVE Tried'
  BY <1>5 DEF NotifyOne
<1>6. ASSUME NEW c \in Callers, ReleaseHandle(c) PROVE Tried'
  BY <1>6 DEF ReleaseHandle, ReleaseWith
<1>7. ASSUME NEW c \in Callers, Judge(c) PROVE Tried'
  BY <1>7 DEF Judge, JudgeWithin
<1>8. ASSUME NEW c \in Callers, NEW made \in BOOLEAN, GrowOne(c, made) PROVE Tried'
  BY <1>8 DEF GrowOne
<1>9. ASSUME NEW c \in Callers, NEW kind \in Kinds, Perform(c, kind) PROVE Tried'
  BY <1>9, SMTT(60) DEF Perform
<1>10. CASE CloseClient
  BY <1>10 DEF CloseClient
<1>11. CASE UNCHANGED hvars
  BY <1>11
<1>12. QED
  <2> HIDE DEF HttpTypeOK, Tried, At, Goto, Kinds
  <2> QED
    BY <1>1, <1>2, <1>3, <1>4, <1>5, <1>6, <1>7, <1>8, <1>9, <1>10, <1>11 DEF HNext, CallStep

phaseBar == [c \in Callers |-> IF hpc[c] \in {"ok", "failed"} THEN hpc[c] ELSE "calling"]

LEMMA CallStepRefines ==
  ASSUME HttpTypeOK, Tried, [HNext]_hvars
  PROVE  Call!CallNext \/ UNCHANGED <<phaseBar, hexecuted>>
<1> USE DEF HttpTypeOK, At, Goto
<1>1. ASSUME NEW c \in Callers, LookForHandle(c) PROVE UNCHANGED <<phaseBar, hexecuted>>
  BY <1>1 DEF LookForHandle, phaseBar
<1>2. ASSUME NEW c \in Callers, GrowBegin(c) PROVE UNCHANGED <<phaseBar, hexecuted>>
  BY <1>2 DEF GrowBegin, phaseBar
<1>3. ASSUME NEW c \in Callers, GrowEnd(c) PROVE UNCHANGED <<phaseBar, hexecuted>>
  BY <1>3 DEF GrowEnd, phaseBar
<1>4. ASSUME NEW c \in Callers, AcquireHandle(c) PROVE UNCHANGED <<phaseBar, hexecuted>>
  BY <1>4 DEF AcquireHandle, AcquireLeaving, phaseBar
<1>5. ASSUME NEW c \in Callers, NotifyOne(c) PROVE UNCHANGED <<phaseBar, hexecuted>>
  BY <1>5 DEF NotifyOne, phaseBar
<1>6. ASSUME NEW c \in Callers, ReleaseHandle(c) PROVE UNCHANGED <<phaseBar, hexecuted>>
  BY <1>6 DEF ReleaseHandle, ReleaseWith, phaseBar
<1>7. ASSUME NEW c \in Callers, Judge(c) PROVE Call!CallNext \/ UNCHANGED <<phaseBar, hexecuted>>
  <2>1. hexecuted' = hexecuted /\ phaseBar[c] = "calling"
    BY <1>7 DEF Judge, JudgeWithin, phaseBar
  <2>2. CASE hpc' = [hpc EXCEPT ![c] = "ok"]
    <3>1. phaseBar' = [phaseBar EXCEPT ![c] = "ok"]
      BY <2>2 DEF phaseBar
    <3>2. hexecuted[c] > 0
      BY <1>7, <2>2 DEF Judge, JudgeWithin, Tried
    <3>3. Call!Succeed(c)
      BY <2>1, <3>1, <3>2 DEF Call!Succeed, phaseBar
    <3>4. QED BY <3>3 DEF Call!CallNext
  <2>3. CASE hpc' = [hpc EXCEPT ![c] = "failed"]
    <3>1. phaseBar' = [phaseBar EXCEPT ![c] = "failed"]
      BY <2>3 DEF phaseBar
    <3>2. Call!Fail(c)
      BY <2>1, <3>1 DEF Call!Fail, phaseBar
    <3>3. QED BY <3>2 DEF Call!CallNext
  <2>4. CASE hpc' = [hpc EXCEPT ![c] = "attempt"]
    <3>1. phaseBar' = phaseBar
      BY <1>7, <2>4 DEF Judge, JudgeWithin, phaseBar
    <3>2. QED BY <2>1, <3>1
  <2>5. QED BY <1>7, <2>2, <2>3, <2>4 DEF Judge, JudgeWithin
<1>8. ASSUME NEW c \in Callers, NEW made \in BOOLEAN, GrowOne(c, made)
      PROVE  UNCHANGED <<phaseBar, hexecuted>>
  BY <1>8 DEF GrowOne, phaseBar
<1>9. ASSUME NEW c \in Callers, NEW kind \in Kinds, Perform(c, kind)
      PROVE  Call!CallNext \/ UNCHANGED <<phaseBar, hexecuted>>
  <2>1. phaseBar' = phaseBar /\ phaseBar[c] = "calling"
    BY <1>9 DEF Perform, phaseBar
  <2>2. CASE kind \in Executes
    <3>1. hexecuted' = [hexecuted EXCEPT ![c] = @ + 1]
      BY <1>9, <2>2 DEF Perform
    <3>2. hexecuted[c] < MaxRetries + 1
      <4>1. hpc[c] = "perform" /\ htry[c] \in 0..MaxRetries /\ hexecuted[c] \in Nat
        BY <1>9 DEF Perform
      <4>2. hexecuted[c] <= htry[c]
        BY <4>1 DEF Tried
      <4>3. QED BY <4>1, <4>2
    <3>3. Call!Execute(c)
      BY <2>1, <3>1, <3>2 DEF Call!Execute, phaseBar
    <3>4. QED BY <3>3 DEF Call!CallNext
  <2>3. CASE kind \notin Executes
    BY <1>9, <2>1, <2>3 DEF Perform
  <2>4. QED BY <2>2, <2>3
<1>10. ASSUME CloseClient PROVE UNCHANGED <<phaseBar, hexecuted>>
  BY <1>10 DEF CloseClient, phaseBar
<1>11. ASSUME UNCHANGED hvars PROVE UNCHANGED <<phaseBar, hexecuted>>
  BY <1>11 DEF phaseBar
<1>12. QED
  <2> HIDE DEF HttpTypeOK, At, Goto, Kinds
  <2> QED
    BY <1>1, <1>2, <1>3, <1>4, <1>5, <1>6, <1>7, <1>8, <1>9, <1>10, <1>11 DEF HNext, CallStep

(***************************************************************************)
(* Client::AttemptRequest implements RemoteCall: a request is executed at  *)
(* most once per attempt, a success was executed, nothing is executed      *)
(* after the return.                                                       *)
(***************************************************************************)
THEOREM CallIsImplemented == HSpec => ImplementsCall
<1>1. HInit => Tried
  BY DEF HInit, Tried
<1>2. HSpec => []Tried
  BY <1>1, TriedStep, HttpInvariance, PTL DEF HSpec
<1>3. HInit => Call!CallInit
  BY DEF HInit, Call!CallInit
<1>4. HttpInv /\ Tried /\ [HNext]_hvars => [Call!CallNext]_<<phaseBar, hexecuted>>
  BY CallStepRefines DEF HttpInv
<1>5. HttpInv /\ Tried /\ [HNext]_hvars =>
        [Call!CallNext]_<<[c \in Callers |-> IF hpc[c] \in {"ok", "failed"} THEN hpc[c] ELSE "calling"],
                         hexecuted>>
  BY <1>4 DEF phaseBar
<1>6. QED BY HttpInvariance, <1>2, <1>3, <1>5, PTL DEF HSpec, ImplementsCall, Call!CallSpec
=============================================================================
