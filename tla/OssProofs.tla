----------------------------- MODULE OssProofs -----------------------------
(***************************************************************************)
(* TLAPS proofs about an upload and a download with their attempts and     *)
(* threads, for any number of parts, threads, attempts, failures, rewrites *)
(* of the file and replacements of the object.                             *)
(***************************************************************************)
EXTENDS OssProperties, FiniteSetTheorems, TLAPS

USE UploadAssumption DEF uvars, cvars, rvars, tvars, svars, fvars, histvars, Idle, Gone

\* The bounds that the guards keep.
UploadBounds ==
  /\ uloss \in 0..ULosses  /\ urewritten \in 0..URewrites  /\ ufile.ver = urewritten
  /\ uleft <= ucfg.net  /\ (upc = "loop" /\ uleft = 0 => ucfg.net = 0)

\* Which steps belong to a file of one part, and which to one of several, for
\* which there is a thread.
UploadKind ==
  /\ upc = "put" => ucfg.parts = 1
  /\ upc \in {"load", "prepare", "list"} => ucfg.threads # 0
  /\ upc \in {"load", "prepare", "list", "run", "complete"} \/ urecord.state = "whole" => ucfg.parts = UParts

Begun == {i \in Ids : i \in uopen \/ ustored[i] # {}}
Fresh == IF upc \in {"put", "load", "prepare"} THEN 1 ELSE 0

(***************************************************************************)
(* The server numbers uploads as they are begun; each attempt begins one,  *)
(* and one more only if a request was executed twice.  The upload that is  *)
(* worked on is open.                                                      *)
(***************************************************************************)
UploadIds ==
  /\ \E n \in Nat : Begun = 1..n /\ n + Fresh <= ucfg.net - uleft + uloss
  /\ urecord.state = "whole" => urecord.id \in Ids
  /\ upc \in {"list", "run", "complete"} => uid \in Ids
  /\ upc = "list" /\ ~uknown => uid \in uopen
  /\ upc \in {"run", "complete"} => uid \in uopen

\* No part is forgotten unless its outcome is a failure, and none is with two
\* threads; the threads do not leave while there is a part to do.
PartsCovered ==
  /\ PartInOnePlace
  /\ upc = "run" => utodo = {} \/ \E t \in 1..UThreads : uat[t] # Gone
  /\ upc \in {"run", "complete"} => ulist \subseteq ustored[uid]
  /\ upc = "run" /\ ~ubad =>
       \A n \in 1..UParts : n \in utodo \/ (\E t \in 1..UThreads : uat[t] = n) \/ \E p \in ulist : p.no = n
  /\ upc = "complete" => \A n \in 1..UParts : \E p \in ulist : p.no = n

Current(P) == \A p \in P : p.ver = ufile.ver

(***************************************************************************)
(* Unless the file was written under way, what is stored under the id that *)
(* is worked on is of the present file, and so is what is stored under the *)
(* id of the record, if the record is of the file's mtime.                 *)
(***************************************************************************)
PartsCurrent ==
  /\ urecord.mtime <= ufile.mtime /\ uasked <= ufile.mtime
  /\ upc = "load" /\ ~umixed => uasked = ufile.mtime
  /\ upc \in {"list", "run", "complete"} /\ ~umixed => Current(ustored[uid])
  /\ urecord.state = "whole" /\ urecord.mtime = ufile.mtime /\ ~umixed => Current(ustored[urecord.id])

Whence == (uresult = "true" => upc = "done") /\ StoredIsLocal

UploadInv ==
  UploadTypeOK /\ UploadBounds /\ UploadKind /\ UploadIds /\ PartsCovered /\ PartsCurrent /\ Whence

-----------------------------------------------------------------------------
LEMMA AttemptsIsMost == Attempts \in Nat /\ \A k \in UNetRetries : k <= Attempts
<1>1. \E n \in UNetRetries : \A k \in UNetRetries : k <= n
  OBVIOUS
<1>2. Attempts \in UNetRetries /\ \A k \in UNetRetries : k <= Attempts
  BY <1>1 DEF Attempts
<1>3. QED BY <1>2

\* The ids that Prepare gives out are new, in a row, and within Ids.
LEMMA NextIds ==
  ASSUME UploadTypeOK, UploadBounds, UploadIds, upc = "prepare"
  PROVE  \E n \in Nat :
           /\ Begun = 1..n /\ Cardinality(Begun) = n
           /\ n + 1 <= ucfg.net - uleft + uloss
           /\ n + 1 \in Ids /\ (uloss < ULosses => n + 2 \in Ids)
<1>1. PICK n \in Nat : Begun = 1..n /\ n + 1 <= ucfg.net - uleft + uloss
  BY DEF UploadIds, Fresh
<1>2. Cardinality(1..n) = n
  BY FS_Interval
<1>3. ucfg.net <= Attempts /\ ucfg.net \in Nat /\ uleft \in Nat /\ uloss \in Nat /\ uloss <= ULosses
  <2>1. ucfg.net \in UNetRetries /\ uleft \in Nat
    BY DEF UploadTypeOK
  <2>2. uloss \in 0..ULosses
    BY DEF UploadBounds
  <2>3. ucfg.net <= Attempts /\ ucfg.net \in Nat
    BY <2>1, AttemptsIsMost
  <2>4. uloss \in Nat /\ uloss <= ULosses
    BY <2>2
  <2>5. QED BY <2>1, <2>3, <2>4
<1>4. n + 1 <= Attempts + ULosses /\ (uloss < ULosses => n + 2 <= Attempts + ULosses)
  BY <1>1, <1>3, AttemptsIsMost
<1>5. QED BY <1>1, <1>2, <1>4, AttemptsIsMost DEF Ids

LEMMA AmountIsNat ==
  ASSUME NEW happened \in BOOLEAN
  PROVE  Amount(happened) \in {0, 1} /\ (Amount(happened) = 1 <=> happened)
BY DEF Amount

\* What prepare() costs: a request that did not end well and a record that was not
\* written whole count as one failure each.
LEMMA PrepareLoses ==
  ASSUME UploadBounds, NEW o \in Outcomes, NEW w \in {"whole", "cut", "none"}, Prepare(o, w)
  PROVE  /\ uloss \in Nat  /\ uloss' \in 0..ULosses  /\ uloss <= uloss'
         /\ o # "ok" => uloss < ULosses /\ uloss + 1 <= uloss'
<1>1. /\ uloss' = uloss + Amount(o # "ok") + Amount(w # "whole")
      /\ uloss' <= ULosses
  BY DEF Prepare, PrepareWith
<1>2. uloss \in Nat /\ ULosses \in Nat
  BY DEF UploadBounds
<1>3. QED BY <1>1, <1>2 DEF Amount

LEMMA UploadInitial == UInit => UploadInv
<1> SUFFICES ASSUME UInit PROVE UploadInv
    OBVIOUS
<1> USE DEF UInit
<1>1. UploadTypeOK
  <2>1. NoRecord \in [state : {"none", "whole", "cut"}, id : {0} \union Ids, mtime : Nat]
    BY DEF NoRecord
  <2>2. uat \in [1..UThreads -> Gone..UParts] /\ ustored \in [Ids -> SUBSET Parts]
    OBVIOUS
  <2>3. ufile \in [ver : 0..URewrites, mtime : Nat] /\ uleft \in Nat
    OBVIOUS
  <2>4. QED BY <2>1, <2>2, <2>3 DEF UploadTypeOK
<1>2. UploadBounds
  <2>1. uloss \in 0..ULosses /\ urewritten \in 0..URewrites
    OBVIOUS
  <2>2. ufile.ver = urewritten
    OBVIOUS
  <2>3. ucfg.net \in Nat /\ uleft = ucfg.net
    OBVIOUS
  <2> HIDE DEF UInit
  <2>4. QED BY <2>1, <2>2, <2>3 DEF UploadBounds
<1>3. UploadKind
  BY DEF UploadKind, NoRecord
<1>4. UploadIds
  <2>1. Begun = {}
    BY DEF Begun
  <2>2. Begun = 1..0 /\ 0 + Fresh <= ucfg.net - uleft + uloss
    BY <2>1 DEF Fresh
  <2>3. QED BY <2>2 DEF UploadIds, NoRecord
<1>5. PartsCovered /\ PartsCurrent /\ Whence
  BY DEF PartsCovered, PartInOnePlace, PartsCurrent, Whence, StoredIsLocal, NoRecord
<1>6. QED BY <1>1, <1>2, <1>3, <1>4, <1>5 DEF UploadInv

(***************************************************************************)
(* The types are kept.                                                     *)
(***************************************************************************)
LEMMA UploadTypeStep ==
  UploadTypeOK /\ UploadBounds /\ UploadIds /\ [UNext]_uvars => UploadTypeOK'
<1> SUFFICES ASSUME UploadTypeOK, UploadBounds, UploadIds, [UNext]_uvars PROVE UploadTypeOK'
    OBVIOUS
<1> USE DEF UploadTypeOK
<1>0. NoRecord \in [state : {"none", "whole", "cut"}, id : {0} \union Ids, mtime : Nat]
  BY DEF NoRecord
<1>1. CASE UploadNothing
  BY <1>1 DEF UploadNothing
<1>2. CASE UploadAttempt
  <2>1. ucfg' \in [net : UNetRetries, threads : 0..UThreads, there : BOOLEAN, parts : {1, UParts}]
    <3>1. CASE ucfg' = ucfg
      BY <3>1
    <3>2. CASE ucfg' = [ucfg EXCEPT !.threads = 1]
      <4>1. 1 \in 0..UThreads
        OBVIOUS
      <4>2. QED BY <3>2, <4>1
    <3>3. QED BY <1>2, <3>1, <3>2 DEF UploadAttempt
  <2>2. uleft' \in Nat
    BY <1>2 DEF UploadAttempt
  <2>5. uasked' \in Nat
    BY <1>2 DEF UploadAttempt
  <2>6. uknown' = FALSE /\ uid' = 0
    BY <1>2 DEF UploadAttempt
  <2>3. upc' \in {"failed", "put", "load"}
    BY <1>2 DEF UploadAttempt
  <2>4. QED BY <1>2, <2>1, <2>2, <2>3, <2>5, <2>6 DEF UploadAttempt
<1>3. CASE LoadRecord
  <2>1. upc' \in {"prepare", "list"} /\ urecord' \in {urecord, NoRecord} /\ uid' \in {uid, urecord.id}
    BY <1>3 DEF LoadRecord, LoadRecordIf
  <2>2. uknown' \in BOOLEAN
    BY <1>3 DEF LoadRecord, LoadRecordIf
  <2>3. uwaste' \in Nat /\ UNCHANGED <<cvars, tvars, svars, fvars, umixed, uunheard>>
    BY <1>3 DEF LoadRecord, LoadRecordIf
  <2>4. QED BY <1>0, <2>1, <2>2, <2>3, SMTT(60)
<1>4. CASE JoinThreads
  BY <1>4 DEF JoinThreads
<1>14. CASE OverlookRecord
  <2>1. /\ upc' = "prepare" /\ uwaste' \in Nat
        /\ UNCHANGED <<cvars, rvars, tvars, svars, fvars, umixed, uunheard>>
    BY <1>14 DEF OverlookRecord
  <2>2. QED BY <2>1, SMTT(60)
<1>5. CASE UploadFailed
  BY <1>5 DEF UploadFailed, UploadFailedAt
<1>6. ASSUME NEW o \in Outcomes, UploadPut(o) PROVE UploadTypeOK'
  <2>1. Now({1}) \subseteq Parts
    BY DEF Now, Parts
  <2>2. QED BY <1>6, <2>1 DEF UploadPut
<1>7. ASSUME NEW o \in Outcomes, ListParts(o) PROVE UploadTypeOK'
  <2>1. (IF uknown THEN ustored[uid] ELSE {}) \subseteq Parts
    BY <1>7 DEF ListParts, ListPartsThen, UploadIds
  <2>2. uat' \in [1..UThreads -> Gone..UParts]
    BY <1>7 DEF ListParts, ListPartsThen
  <2>3. ulist' \subseteq Parts /\ utodo' \subseteq 1..UParts
    BY <1>7, <2>1 DEF ListParts, ListPartsThen
  <2>4. upc' \in {"run", "failed"} /\ ubad' \in BOOLEAN
    BY <1>7 DEF ListParts, ListPartsThen
  <2>5. UNCHANGED <<cvars, rvars, svars, fvars, umixed, uunheard, uwaste>>
    BY <1>7 DEF ListParts, ListPartsThen
  <2>6. QED BY <2>2, <2>3, <2>4, <2>5, SMTT(60)
<1>8. ASSUME NEW o \in Outcomes, Complete(o) PROVE UploadTypeOK'
  BY <1>0, <1>8 DEF Complete
<1>9. ASSUME NEW o \in Outcomes, NEW w \in {"whole", "cut", "none"}, Prepare(o, w) PROVE UploadTypeOK'
  <2>0. upc = "prepare"
    BY <1>9 DEF Prepare, PrepareWith
  <2>1. PICK n \in Nat : /\ Begun = 1..n /\ Cardinality(Begun) = n
                         /\ n + 1 \in Ids /\ (uloss < ULosses => n + 2 \in Ids)
    BY <2>0, NextIds
  <2>2. o # "ok" => uloss < ULosses
    BY <1>9, PrepareLoses
  <2> DEFINE new == CASE o = "lost" -> {} [] o = "twice" -> {n + 1, n + 2} [] OTHER -> {n + 1}
             id == IF o = "twice" THEN n + 2 ELSE n + 1
  <2>3. new \subseteq Ids /\ id \in Ids
    BY <2>1, <2>2
  <2>4. /\ uopen' = uopen \union new
        /\ uid' = IF Heard(o) THEN id ELSE uid
        /\ urecord' = IF Heard(o) /\ w # "none" THEN [state |-> w, id |-> id, mtime |-> uasked] ELSE urecord
    BY <1>9, <2>1 DEF Prepare, PrepareWith, Begun
  <2>5. uopen' \subseteq Ids /\ uid' \in {0} \union Ids
    BY <2>3, <2>4
  <2>6. urecord' \in [state : {"none", "whole", "cut"}, id : {0} \union Ids, mtime : Nat]
    BY <2>3, <2>4
  <2>7. upc' \in {"list", "failed"} /\ UNCHANGED <<cvars, uknown, tvars, ustored, uobject, fvars, uunheard>>
    BY <1>9 DEF Prepare, PrepareWith
  <2>8. umixed' \in BOOLEAN /\ uwaste' \in Nat
    <3>1. umixed' \in BOOLEAN
      BY <1>9, Zenon DEF Prepare, PrepareWith
    <3>2. uwaste' = uwaste + Amount(o \in {"unheard", "twice"}) + Amount(w = "none")
      BY <1>9 DEF Prepare, PrepareWith
    <3>3. QED BY <3>1, <3>2 DEF Amount
  <2>9. QED BY <2>5, <2>6, <2>7, <2>8
<1>10. ASSUME NEW t \in 1..UThreads, NEW o \in Outcomes, SendPart(t, o) PROVE UploadTypeOK'
  <2>1. uat[t] \in 1..UParts
    BY <1>10 DEF SendPart
  <2>2. Now({uat[t]}) \subseteq Parts
    BY <2>1 DEF Now, Parts
  <2>3. ustored' \in [Ids -> SUBSET Parts] /\ ulist' \subseteq Parts
    BY <1>10, <2>2 DEF SendPart
  <2>4. uat' \in [1..UThreads -> Gone..UParts] /\ ubad' \in BOOLEAN
    BY <1>10 DEF SendPart
  <2>5. UNCHANGED <<upc, cvars, rvars, utodo, uopen, uobject, fvars, histvars>>
    BY <1>10 DEF SendPart
  <2>6. QED BY <2>3, <2>4, <2>5, SMTT(30)
<1>11. ASSUME NEW t \in 1..UThreads, TakePart(t) PROVE UploadTypeOK'
  <2>1. utodo' \subseteq 1..UParts
    BY <1>11 DEF TakePart
  <2>2. uat' \in [1..UThreads -> Gone..UParts]
    <3>1. CASE uat' = [uat EXCEPT ![t] = Gone]
      BY <3>1
    <3>2. ASSUME NEW p \in utodo, uat' = [uat EXCEPT ![t] = p] PROVE uat' \in [1..UThreads -> Gone..UParts]
      <4>1. p \in Gone..UParts
        OBVIOUS
      <4>2. QED BY <3>2, <4>1
    <3>3. QED BY <1>11, <3>1, <3>2 DEF TakePart
  <2>3. UNCHANGED <<upc, cvars, rvars, ulist, ubad, svars, fvars, histvars>>
    BY <1>11 DEF TakePart
  <2>4. QED BY <2>1, <2>2, <2>3, SMTT(30)
<1>12. ASSUME NEW late \in BOOLEAN, Rewrite(late) PROVE UploadTypeOK'
  <2>1. ufile' \in [ver : 0..URewrites, mtime : Nat]
    <3>1. ufile.ver + 1 \in 0..URewrites
      BY <1>12 DEF Rewrite, UploadBounds
    <3>2. QED BY <1>12, <3>1, SMTT(60) DEF Rewrite
  <2>2. umixed' \in BOOLEAN /\ UNCHANGED <<upc, cvars, rvars, tvars, svars, uunheard, uwaste>>
    BY <1>12 DEF Rewrite
  <2>3. QED BY <2>1, <2>2, SMTT(60)
<1>13. CASE UNCHANGED uvars
  BY <1>13
<1>15. QED
  <2> HIDE DEF UploadTypeOK
  <2> QED
    BY <1>1, <1>2, <1>3, <1>4, <1>14, <1>5, <1>6, <1>7, <1>8, <1>9, <1>10, <1>11, <1>12, <1>13
       DEF UNext, UploadRun

LEMMA UploadBoundsStep == UploadTypeOK /\ UploadBounds /\ [UNext]_uvars => UploadBounds'
<1> SUFFICES ASSUME UploadTypeOK, UploadBounds, [UNext]_uvars PROVE UploadBounds'
    OBVIOUS
<1>t. /\ ucfg \in [net : UNetRetries, threads : 0..UThreads, there : BOOLEAN, parts : {1, UParts}]
      /\ uleft \in Nat
  BY DEF UploadTypeOK
<1> USE DEF UploadBounds
<1>1. CASE UploadNothing \/ JoinThreads \/ OverlookRecord
  BY <1>1 DEF UploadNothing, JoinThreads, OverlookRecord
<1>2. CASE UploadAttempt
  <2>1. ucfg'.net = ucfg.net /\ uleft' = uleft - 1 /\ upc' # "loop"
    BY <1>t, <1>2 DEF UploadAttempt
  <2>2. QED BY <1>t, <1>2, <2>1 DEF UploadAttempt
<1>3. CASE LoadRecord
  BY <1>3 DEF LoadRecord, LoadRecordIf
<1>4. CASE UploadFailed
  BY <1>t, <1>4 DEF UploadFailed, UploadFailedAt
<1>5. ASSUME NEW o \in Outcomes, UploadPut(o) PROVE UploadBounds'
  BY <1>5 DEF UploadPut, Ends
<1>6. ASSUME NEW o \in Outcomes, ListParts(o) PROVE UploadBounds'
  BY <1>6 DEF ListParts, ListPartsThen, Ends
<1>7. ASSUME NEW o \in Outcomes, Complete(o) PROVE UploadBounds'
  BY <1>7 DEF Complete, Ends
<1>8. ASSUME NEW o \in Outcomes, NEW w \in {"whole", "cut", "none"}, Prepare(o, w) PROVE UploadBounds'
  <2>1. uloss' \in 0..ULosses
    BY <1>8, PrepareLoses
  <2>2. upc' # "loop" /\ UNCHANGED <<cvars, fvars>>
    BY <1>8 DEF Prepare, PrepareWith
  <2>3. QED BY <2>1, <2>2
<1>9. ASSUME NEW t \in 1..UThreads, TakePart(t) PROVE UploadBounds'
  BY <1>9 DEF TakePart
<1>10. ASSUME NEW t \in 1..UThreads, NEW o \in Outcomes, SendPart(t, o) PROVE UploadBounds'
  BY <1>10 DEF SendPart, Ends
<1>11. ASSUME NEW late \in BOOLEAN, Rewrite(late) PROVE UploadBounds'
  BY <1>11 DEF Rewrite
<1>12. CASE UNCHANGED uvars
  BY <1>12
<1>13. QED
  <2> HIDE DEF UploadBounds
  <2> QED
    BY <1>1, <1>2, <1>3, <1>4, <1>5, <1>6, <1>7, <1>8, <1>9, <1>10, <1>11, <1>12 DEF UNext, UploadRun

LEMMA UploadKindStep == UploadTypeOK /\ UploadKind /\ [UNext]_uvars => UploadKind'
<1> SUFFICES ASSUME UploadTypeOK, UploadKind, [UNext]_uvars PROVE UploadKind'
    OBVIOUS
<1>0. NoRecord.state = "none"
  BY DEF NoRecord
<1>1. CASE UploadNothing \/ LoadRecord \/ OverlookRecord \/ JoinThreads \/ UploadFailed
  BY <1>0, <1>1 DEF UploadKind, UploadNothing, LoadRecord, LoadRecordIf, OverlookRecord,
                    JoinThreads, UploadFailed, UploadFailedAt
<1>2. CASE UploadAttempt
  BY <1>2 DEF UploadTypeOK, UploadKind, UploadAttempt
<1>3. ASSUME NEW o \in Outcomes,
             UploadPut(o) \/ ListParts(o) \/ Complete(o) \/ \E w \in {"whole", "cut", "none"} : Prepare(o, w)
      PROVE  UploadKind'
  BY <1>0, <1>3 DEF UploadKind, UploadPut, ListParts, ListPartsThen, Complete, Prepare, PrepareWith
<1>4. ASSUME NEW t \in 1..UThreads, TakePart(t) \/ \E o \in Outcomes : SendPart(t, o)
      PROVE  UploadKind'
  BY <1>4 DEF UploadKind, TakePart, SendPart
<1>5. ASSUME NEW late \in BOOLEAN, Rewrite(late) PROVE UploadKind'
  BY <1>5 DEF UploadKind, Rewrite
<1>6. CASE UNCHANGED uvars
  BY <1>6 DEF UploadKind
<1>7. QED BY <1>1, <1>2, <1>3, <1>4, <1>5, <1>6 DEF UNext, UploadRun

(***************************************************************************)
(* The ids are given out in a row.                                         *)
(***************************************************************************)
LEMMA UploadIdsStep ==
  ASSUME UploadTypeOK, UploadBounds, UploadIds, PartsCovered, [UNext]_uvars
  PROVE  UploadIds'
<1>t. /\ ucfg.net \in Nat /\ uleft \in Nat /\ uloss \in Nat /\ uloss <= ULosses
      /\ uid \in {0} \union Ids /\ uopen \subseteq Ids /\ ustored \in [Ids -> SUBSET Parts]
      /\ uat \in [1..UThreads -> Gone..UParts]
  <2>1. ucfg.net \in UNetRetries
    BY DEF UploadTypeOK
  <2>2. uloss \in 0..ULosses
    BY DEF UploadBounds
  <2>3. ucfg.net \in Nat /\ uloss \in Nat /\ uloss <= ULosses
    <3>1. ucfg.net \in Nat
      BY <2>1
    <3>2. uloss \in Nat /\ uloss <= ULosses
      BY <2>2
    <3>3. QED BY <3>1, <3>2
  <2>4. /\ uleft \in Nat /\ uid \in {0} \union Ids /\ uopen \subseteq Ids
        /\ ustored \in [Ids -> SUBSET Parts] /\ uat \in [1..UThreads -> Gone..UParts]
    BY DEF UploadTypeOK
  <2>5. QED BY <2>3, <2>4
<1>n. PICK n \in Nat : Begun = 1..n /\ n + Fresh <= ucfg.net - uleft + uloss
  BY DEF UploadIds
<1>f. Fresh \in {0, 1}
  BY DEF Fresh
<1>r. urecord.state = "whole" => urecord.id \in Ids
  BY DEF UploadIds
<1>0. NoRecord.state = "none"
  BY DEF NoRecord
\* What is left to show when the uploads on the server stay the same.
<1>s. ASSUME Begun' = Begun, n + Fresh' <= ucfg'.net - uleft' + uloss'
      PROVE  \E m \in Nat : Begun' = 1..m /\ m + Fresh' <= ucfg'.net - uleft' + uloss'
  BY <1>n, <1>s
<1>1. CASE UploadNothing \/ UploadFailed
  <2>1. Begun' = Begun /\ Fresh = 0 /\ Fresh' = 0 /\ UNCHANGED <<uleft, ucfg, uloss, urecord, uid, uopen, uknown>>
    BY <1>1 DEF UploadNothing, UploadFailed, UploadFailedAt, Begun, Fresh
  <2>2. upc' \in {"done", "loop"}
    BY <1>1 DEF UploadNothing, UploadFailed, UploadFailedAt
  <2>3. QED BY <1>n, <1>r, <1>s, <2>1, <2>2 DEF UploadIds
<1>2. CASE UploadAttempt
  <2>1. Begun' = Begun /\ Fresh = 0 /\ Fresh' \in {0, 1}
    BY <1>2 DEF UploadAttempt, Begun, Fresh
  <2>2. ucfg'.net = ucfg.net /\ uleft' = uleft - 1 /\ uloss' = uloss
    BY <1>2 DEF UploadAttempt, UploadTypeOK
  <2>3. n + Fresh' <= ucfg'.net - uleft' + uloss'
    BY <1>t, <1>n, <2>1, <2>2, SMTT(60)
  <2>4. upc' \in {"failed", "put", "load"} /\ urecord' = urecord
    BY <1>2 DEF UploadAttempt
  <2>5. QED BY <1>r, <1>s, <2>1, <2>3, <2>4 DEF UploadIds
<1>3. CASE LoadRecord
  <2>1. Begun' = Begun /\ Fresh = 1 /\ UNCHANGED <<uleft, ucfg, uloss>>
    BY <1>3 DEF LoadRecord, LoadRecordIf, Begun, Fresh
  <2>2. n + Fresh' <= ucfg'.net - uleft' + uloss'
    <3>1. Fresh' \in {0, 1}
      BY DEF Fresh
    <3>2. QED BY <1>t, <1>n, <2>1, <3>1, SMTT(60)
  <2>3. urecord' \in {urecord, NoRecord} /\ upc' \in {"list", "prepare"}
    BY <1>3 DEF LoadRecord, LoadRecordIf
  <2>4. upc' = "list" => urecord.state = "whole" /\ uid' = urecord.id /\ uknown' = TRUE
    BY <1>3 DEF LoadRecord, LoadRecordIf
  <2>5. QED BY <1>0, <1>r, <1>s, <2>1, <2>2, <2>3, <2>4 DEF UploadIds
<1>12. CASE OverlookRecord
  <2>1. /\ Begun' = Begun /\ Fresh = 1 /\ Fresh' = 1 /\ upc' = "prepare"
        /\ UNCHANGED <<uleft, ucfg, urecord>> /\ uloss' = uloss + 1
    BY <1>12 DEF OverlookRecord, Begun, Fresh
  <2>2. n + Fresh' <= ucfg'.net - uleft' + uloss'
    BY <1>t, <1>n, <2>1, SMTT(60)
  <2>3. QED BY <1>r, <1>s, <2>1, <2>2 DEF UploadIds
<1>4. CASE JoinThreads
  <2>1. Begun' = Begun /\ Fresh = 0 /\ Fresh' = 0 /\ UNCHANGED <<uleft, ucfg, uloss, urecord, uid, uopen, uknown>>
    BY <1>4 DEF JoinThreads, Begun, Fresh
  <2>2. upc = "run" /\ upc' \in {"failed", "complete"}
    BY <1>4 DEF JoinThreads
  <2>3. QED BY <1>n, <1>s, <2>1, <2>2 DEF UploadIds
<1>5. ASSUME NEW o \in Outcomes, UploadPut(o) PROVE UploadIds'
  <2>1. Begun' = Begun /\ Fresh = 1 /\ Fresh' = 0 /\ UNCHANGED <<uleft, ucfg, urecord>>
    BY <1>5 DEF UploadPut, Begun, Fresh
  <2>2. uloss' \in {uloss, uloss + 1} /\ upc' \in {"done", "failed"}
    BY <1>5 DEF UploadPut, Ends
  <2>3. n + Fresh' <= ucfg'.net - uleft' + uloss'
    BY <1>t, <1>n, <2>1, <2>2, SMTT(60)
  <2>4. QED BY <1>r, <1>s, <2>1, <2>2, <2>3 DEF UploadIds
<1>6. ASSUME NEW o \in Outcomes, ListParts(o) PROVE UploadIds'
  <2>1. Begun' = Begun /\ Fresh = 0 /\ Fresh' = 0 /\ UNCHANGED <<uleft, ucfg, urecord, uid, uopen>>
    BY <1>6 DEF ListParts, ListPartsThen, Begun, Fresh
  <2>2. uloss' \in {uloss, uloss + 1} /\ upc' \in {"run", "failed"}
    BY <1>6 DEF ListParts, ListPartsThen, Ends
  <2>3. n + Fresh' <= ucfg'.net - uleft' + uloss'
    BY <1>t, <1>n, <2>1, <2>2, SMTT(60)
  <2>4. upc' = "run" => uid \in uopen
    BY <1>6 DEF ListParts, ListPartsThen, UploadIds
  <2>5. QED BY <1>t, <1>r, <1>s, <2>1, <2>2, <2>3, <2>4 DEF UploadIds
<1>7. ASSUME NEW o \in Outcomes, Complete(o) PROVE UploadIds'
  <2>1. /\ upc = "complete" /\ Fresh = 0 /\ Fresh' = 0 /\ UNCHANGED <<uleft, ucfg, ustored>>
        /\ uopen' \in {uopen, uopen \ {uid}} /\ urecord' \in {urecord, NoRecord}
    BY <1>7 DEF Complete, Fresh
  <2>2. ustored[uid] # {}
    <3>1. 1 \in 1..UParts
      OBVIOUS
    <3>2. PICK p \in ulist : p.no = 1
      BY <2>1, <3>1 DEF PartsCovered
    <3>3. QED BY <2>1, <3>2 DEF PartsCovered
  <2>3. Begun' = Begun
    BY <2>1, <2>2 DEF Begun
  <2>4. uloss' \in {uloss, uloss + 1} /\ upc' \in {"done", "failed"}
    BY <1>7 DEF Complete, Ends
  <2>5. n + Fresh' <= ucfg'.net - uleft' + uloss'
    BY <1>t, <1>n, <2>1, <2>4, SMTT(60)
  <2>6. QED BY <1>0, <1>r, <1>s, <2>1, <2>3, <2>4, <2>5 DEF UploadIds
<1>8. ASSUME NEW o \in Outcomes, NEW w \in {"whole", "cut", "none"}, Prepare(o, w) PROVE UploadIds'
  <2>0. upc = "prepare" /\ Fresh = 1 /\ Fresh' = 0
    BY <1>8 DEF Prepare, PrepareWith, Fresh
  <2>1. PICK m \in Nat : /\ Begun = 1..m /\ Cardinality(Begun) = m
                         /\ m + 1 <= ucfg.net - uleft + uloss
                         /\ m + 1 \in Ids /\ (uloss < ULosses => m + 2 \in Ids)
    BY <2>0, NextIds
  <2>2. o # "ok" => uloss < ULosses /\ uloss + 1 <= uloss'
    BY <1>8, PrepareLoses
  <2>3. uloss' \in Nat /\ uloss <= uloss'
    BY <1>8, PrepareLoses
  <2> DEFINE new == CASE o = "lost" -> {} [] o = "twice" -> {m + 1, m + 2} [] OTHER -> {m + 1}
             id == IF o = "twice" THEN m + 2 ELSE m + 1
             last == CASE o = "lost" -> m [] o = "twice" -> m + 2 [] OTHER -> m + 1
  <2>4. /\ uopen' = uopen \union new /\ ustored' = ustored /\ UNCHANGED <<ucfg, uleft>>
        /\ uid' = IF Heard(o) THEN id ELSE uid
        /\ urecord' = IF Heard(o) /\ w # "none" THEN [state |-> w, id |-> id, mtime |-> uasked] ELSE urecord
        /\ upc' = IF Heard(o) THEN "list" ELSE "failed"
    BY <1>8, <2>1 DEF Prepare, PrepareWith, Begun
  <2>5. new \subseteq Ids /\ id \in Ids /\ (Heard(o) => id \in new)
    BY <2>1, <2>2 DEF Heard
  <2>6. Begun' = Begun \union new
    BY <2>4, <2>5 DEF Begun
  <2>7. 1..m \union new = 1..last /\ last \in Nat
    OBVIOUS
  <2>8. last + Fresh' <= ucfg'.net - uleft' + uloss'
    <3>1. last <= m + 2 /\ (o = "ok" => last = m + 1) /\ last \in Nat
      BY <2>1
    <3>2. uloss' \in Nat /\ uloss <= uloss' /\ (o # "ok" => uloss + 1 <= uloss')
      BY <1>t, <2>2, <2>3
    <3>3. Fresh' = 0 /\ ucfg'.net = ucfg.net /\ uleft' = uleft
      BY <2>0, <2>4
    <3> HIDE DEF last
    <3>4. CASE o = "ok"
      BY <1>t, <2>1, <3>1, <3>2, <3>3, <3>4, SMTT(60)
    <3>5. CASE o # "ok"
      BY <1>t, <2>1, <3>1, <3>2, <3>3, <3>5, SMTT(60)
    <3>6. QED BY <3>4, <3>5
  <2> HIDE DEF new, last, id
  <2>9. \E k \in Nat : Begun' = 1..k /\ k + Fresh' <= ucfg'.net - uleft' + uloss'
    BY <2>1, <2>6, <2>7, <2>8
  <2>10. urecord'.state = "whole" => urecord'.id \in Ids
    BY <1>r, <2>4, <2>5
  <2>11. upc' = "list" => uid' \in Ids /\ uid' \in uopen'
    BY <2>4, <2>5
  <2>12. upc' \in {"list", "failed"}
    BY <2>4
  <2>13. QED BY <2>9, <2>10, <2>11, <2>12 DEF UploadIds
<1>9. ASSUME NEW t \in 1..UThreads, TakePart(t) PROVE UploadIds'
  <2>1. Begun' = Begun /\ Fresh = 0 /\ Fresh' = 0 /\ UNCHANGED <<upc, uleft, ucfg, uloss, urecord, uid, uopen, uknown>>
    BY <1>9 DEF TakePart, Begun, Fresh
  <2>2. QED BY <1>n, <1>s, <2>1 DEF UploadIds
<1>10. ASSUME NEW t \in 1..UThreads, NEW o \in Outcomes, SendPart(t, o) PROVE UploadIds'
  <2>1. /\ upc = "run" /\ Fresh = 0 /\ Fresh' = 0
        /\ UNCHANGED <<upc, uleft, ucfg, urecord, uid, uopen, uknown>>
        /\ uloss' \in {uloss, uloss + 1}
    BY <1>10 DEF SendPart, Ends, Fresh
  <2>2. \A i \in Ids : i # uid => ustored'[i] = ustored[i]
    BY <1>10, <1>t DEF SendPart
  <2>3. uid \in Ids /\ uid \in uopen
    BY <2>1 DEF UploadIds
  <2>4. Begun' = Begun
    BY <2>1, <2>2, <2>3 DEF Begun
  <2>5. n + Fresh' <= ucfg'.net - uleft' + uloss'
    BY <1>t, <1>n, <2>1, SMTT(60)
  <2>6. QED BY <1>r, <1>s, <2>1, <2>3, <2>4, <2>5 DEF UploadIds
<1>11. CASE UNCHANGED uvars \/ \E late \in BOOLEAN : Rewrite(late)
  <2>1. Begun' = Begun /\ Fresh' = Fresh /\ UNCHANGED <<upc, uleft, ucfg, uloss, urecord, uid, uopen, uknown>>
    BY <1>11 DEF Rewrite, Begun, Fresh
  <2>2. QED BY <1>n, <1>s, <2>1 DEF UploadIds
<1>13. QED
  BY <1>1, <1>2, <1>3, <1>4, <1>5, <1>6, <1>7, <1>8, <1>9, <1>10, <1>11, <1>12 DEF UNext, UploadRun

(***************************************************************************)
(* Each part is to do, with one thread, or sent.                           *)
(***************************************************************************)
LEMMA PartsCoveredStep ==
  ASSUME UploadTypeOK, UploadKind, UploadIds, PartsCovered, [UNext]_uvars
  PROVE  PartsCovered'
<1>t. /\ ucfg.threads \in 0..UThreads /\ ustored \in [Ids -> SUBSET Parts]
      /\ uat \in [1..UThreads -> Gone..UParts]
      /\ utodo \subseteq 1..UParts /\ ulist \subseteq Parts
  BY DEF UploadTypeOK
<1> USE DEF PartsCovered, PartInOnePlace
<1>1. CASE UploadNothing \/ UploadAttempt \/ LoadRecord \/ OverlookRecord \/ UploadFailed
  <2>1. upc' \notin {"run", "complete"}
    BY <1>1 DEF UploadNothing, UploadAttempt, LoadRecord, LoadRecordIf, OverlookRecord, UploadFailed, UploadFailedAt
  <2>2. QED BY <2>1
<1>2. ASSUME NEW o \in Outcomes, UploadPut(o) \/ Complete(o) \/ \E w \in {"whole", "cut", "none"} : Prepare(o, w)
      PROVE  PartsCovered'
  <2>1. upc' \notin {"run", "complete"}
    BY <1>2 DEF UploadPut, Complete, Prepare, PrepareWith
  <2>2. QED BY <2>1
<1>3. CASE JoinThreads
  <2>1. UNCHANGED <<uid, utodo, uat, ulist, ubad, ustored>> /\ upc = "run" /\ upc' # "run"
    BY <1>3 DEF JoinThreads
  <2>2. ASSUME upc' = "complete" PROVE \A n \in 1..UParts : \E p \in ulist : p.no = n
    <3>1. ~ubad /\ \A t \in 1..UThreads : uat[t] = -1
      BY <1>3, <2>2 DEF JoinThreads
    <3>2. utodo = {}
      BY <2>1, <3>1
    <3>3. \A n \in 1..UParts : n # -1
      OBVIOUS
    <3>4. QED BY <2>1, <3>1, <3>2, <3>3
  <2>3. QED BY <2>1, <2>2
<1>4. ASSUME NEW o \in Outcomes, ListParts(o) PROVE PartsCovered'
  <2>1. UNCHANGED <<uid, ustored>> /\ upc' \in {"run", "failed"} /\ upc = "list"
    BY <1>4 DEF ListParts, ListPartsThen
  <2>2. ASSUME upc' = "run" PROVE PartsCovered'
    <3>1. /\ utodo' = (1..UParts) \ {p.no : p \in ulist'}
          /\ ulist' \subseteq ustored[uid] /\ ulist' \subseteq Parts
          /\ uat' = [t \in 1..UThreads |-> IF t <= ucfg.threads THEN Idle ELSE Gone]
      <4>1. uid \in Ids
        BY <2>1 DEF UploadIds
      <4>2. /\ ulist' = IF uknown THEN ustored[uid] ELSE {}
            /\ utodo' = (1..UParts) \ {p.no : p \in ulist' \intersect Parts}
            /\ uat' = [t \in 1..UThreads |-> IF t <= ucfg.threads THEN Idle ELSE Gone]
        BY <1>4, <2>2 DEF ListParts, ListPartsThen
      <4>3. ulist' \subseteq ustored[uid] /\ ulist' \subseteq Parts
        BY <1>t, <4>1, <4>2
      <4>4. ulist' \intersect Parts = ulist'
        BY <4>3
      <4>5. QED BY <4>2, <4>3, <4>4
    <3>2. \A t \in 1..UThreads : ~(uat'[t] > 0)
      BY <3>1
    <3>3. 1 \in 1..UThreads /\ uat'[1] # Gone
      BY <1>t, <2>1, <3>1 DEF UploadKind
    <3>4. \A n \in 1..UParts : n \in utodo' \/ \E p \in ulist' : p.no = n
      BY <3>1
    <3>5. \A p \in ulist' : p.no \notin utodo'
      BY <3>1
    <3>6. QED BY <2>1, <2>2, <3>1, <3>2, <3>3, <3>4, <3>5
  <2>3. QED BY <2>1, <2>2
<1>5. ASSUME NEW t \in 1..UThreads, TakePart(t) PROVE PartsCovered'
  <2>1. upc = "run" /\ UNCHANGED <<upc, uid, ulist, ubad, ustored>> /\ uat[t] = 0
    BY <1>5 DEF TakePart
  <2>2. CASE utodo = {} /\ uat' = [uat EXCEPT ![t] = Gone] /\ UNCHANGED utodo
    <3>1. \A s \in 1..UThreads : uat'[s] > 0 => uat[s] = uat'[s]
      BY <1>t, <2>2
    <3>2. \A s \in 1..UThreads : uat[s] > 0 => uat'[s] = uat[s]
      BY <1>t, <2>1, <2>2
    <3>3. QED BY <2>1, <2>2, <3>1, <3>2
  <2>3. ASSUME NEW p \in utodo, uat' = [uat EXCEPT ![t] = p], utodo' = utodo \ {p}
        PROVE  PartsCovered'
    <3>1. uat'[t] = p /\ \A s \in (1..UThreads) \ {t} : uat'[s] = uat[s]
      BY <1>t, <2>3
    <3>2. p \in 1..UParts /\ p # Gone
      BY <1>t
    <3>3. (PartInOnePlace)'
      BY <2>1, <2>3, <3>1, <3>2
    <3>4. \A n \in 1..UParts : (n \in utodo \/ \E s \in 1..UThreads : uat[s] = n)
                                 => (n \in utodo' \/ \E s \in 1..UThreads : uat'[s] = n)
      BY <2>1, <2>3, <3>1
    <3>5. QED BY <2>1, <3>1, <3>2, <3>3, <3>4
  <2>4. QED BY <1>5, <2>2, <2>3 DEF TakePart
<1>6. ASSUME NEW t \in 1..UThreads, NEW o \in Outcomes, SendPart(t, o) PROVE PartsCovered'
  <2>1. /\ upc = "run" /\ UNCHANGED <<upc, uid, utodo>> /\ uid \in Ids
        /\ uat[t] \in 1..UParts /\ uat' = [uat EXCEPT ![t] = 0]
    BY <1>t, <1>6 DEF SendPart, UploadIds
  <2>2. uat'[t] = 0 /\ \A s \in (1..UThreads) \ {t} : uat'[s] = uat[s]
    BY <1>t, <2>1
  <2> DEFINE sent == [no |-> uat[t], ver |-> ufile.ver]
  <2>0. Now({uat[t]}) = {sent}
    BY DEF Now
  <2>3. /\ ulist' = IF Heard(o) THEN ulist \union {sent} ELSE ulist
        /\ ubad' = (ubad \/ ~Heard(o))
        /\ ustored' = IF o = "lost" THEN ustored
                      ELSE [ustored EXCEPT ![uid] = (@ \ {p \in ustored[uid] : p.no = uat[t]}) \union {sent}]
    <3> HIDE DEF sent
    <3>1. ubad' = (ubad \/ ~Heard(o))
      BY <1>6 DEF SendPart
    <3>2. ulist' = IF Heard(o) THEN ulist \union {sent} ELSE ulist
      BY <1>6, <2>0 DEF SendPart
    <3>3. ustored' = IF o = "lost" THEN ustored
                     ELSE [ustored EXCEPT ![uid] = (@ \ {p \in ustored[uid] : p.no = uat[t]}) \union {sent}]
      BY <1>6, <2>0 DEF SendPart
    <3>4. QED BY <3>1, <3>2, <3>3
  <2>4. sent.no = uat[t]
    OBVIOUS
  <2>5. \A p \in ulist : p.no # uat[t]
    BY <2>1
  <2>6. Heard(o) => o # "lost"
    BY DEF Heard
  <2> HIDE DEF sent
  <2>7. ulist' \subseteq ustored'[uid]
    <3>1. CASE o = "lost"
      BY <2>1, <2>3, <2>6, <3>1
    <3>2. CASE o # "lost"
      <4>1. ustored'[uid] = (ustored[uid] \ {p \in ustored[uid] : p.no = uat[t]}) \union {sent}
        BY <1>t, <2>1, <2>3, <3>2
      <4>2. QED BY <2>1, <2>3, <2>5, <4>1
    <3>3. QED BY <3>1, <3>2
  <2>8. \A p \in ulist' : p \in ulist \/ (p.no = uat[t] /\ Heard(o))
    BY <2>3, <2>4
  <2>9. (PartInOnePlace)'
    BY <2>1, <2>2, <2>8
  <2>10. utodo' = {} \/ \E s \in 1..UThreads : uat'[s] # Gone
    BY <2>2
  <2>11. ASSUME ~ubad', NEW n \in 1..UParts
         PROVE  n \in utodo' \/ (\E s \in 1..UThreads : uat'[s] = n) \/ \E p \in ulist' : p.no = n
    <3>1. Heard(o) /\ ~ubad /\ ulist' = ulist \union {sent}
      BY <2>3, <2>11
    <3>2. CASE n = uat[t]
      BY <2>4, <3>1, <3>2
    <3>3. CASE n # uat[t]
      BY <2>1, <2>2, <3>1, <3>3
    <3>4. QED BY <3>2, <3>3
  <2>12. QED BY <2>1, <2>7, <2>9, <2>10, <2>11
<1>7. ASSUME NEW late \in BOOLEAN, Rewrite(late) PROVE PartsCovered'
  BY <1>7 DEF Rewrite
<1>8. CASE UNCHANGED uvars
  BY <1>8
<1>9. QED
  <2> HIDE DEF PartsCovered, PartInOnePlace
  <2> QED BY <1>1, <1>2, <1>3, <1>4, <1>5, <1>6, <1>7, <1>8 DEF UNext, UploadRun

(***************************************************************************)
(* What is stored is of the present file, or the file was written.         *)
(***************************************************************************)
LEMMA PartsCurrentStep ==
  ASSUME UploadTypeOK, UploadBounds, UploadKind, UploadIds, PartsCurrent, [UNext]_uvars
  PROVE  PartsCurrent'
<1>t. /\ ustored \in [Ids -> SUBSET Parts] /\ uasked \in Nat
      /\ ufile.mtime \in Nat /\ ufile.ver \in 0..URewrites /\ urecord.mtime \in Nat
  BY DEF UploadTypeOK
<1>0. NoRecord.state = "none" /\ NoRecord.mtime = 0
  BY DEF NoRecord
<1> USE DEF PartsCurrent, Current
<1>1. CASE UploadNothing \/ UploadFailed
  BY <1>1 DEF UploadNothing, UploadFailed, UploadFailedAt
<1>2. CASE UploadAttempt
  BY <1>t, <1>2 DEF UploadAttempt
<1>3. CASE LoadRecord
  <2>1. CASE urecord.state = "whole" /\ urecord.mtime = uasked
    BY <1>3, <2>1 DEF LoadRecord, LoadRecordIf
  <2>2. CASE ~(urecord.state = "whole" /\ urecord.mtime = uasked)
    <3>1. upc' = "prepare" /\ urecord' = NoRecord /\ UNCHANGED <<uasked, ufile, ustored, umixed>>
      BY <1>3, <2>2 DEF LoadRecord, LoadRecordIf
    <3>2. QED BY <1>t, <1>0, <3>1
  <2>3. QED BY <2>1, <2>2
<1>4. CASE JoinThreads \/ OverlookRecord
  BY <1>4 DEF JoinThreads, OverlookRecord
<1>5. ASSUME NEW o \in Outcomes, UploadPut(o) PROVE PartsCurrent'
  <2>1. urecord.state # "whole"
    BY <1>5 DEF UploadPut, UploadKind
  <2>2. upc' \in {"done", "failed"} /\ UNCHANGED <<urecord, uasked, ufile, ustored>>
    BY <1>5 DEF UploadPut
  <2>3. QED BY <2>1, <2>2
<1>6. ASSUME NEW o \in Outcomes, NEW w \in {"whole", "cut", "none"}, Prepare(o, w) PROVE PartsCurrent'
  <2>0. upc = "prepare"
    BY <1>6 DEF Prepare, PrepareWith
  <2>1. PICK m \in Nat : /\ Begun = 1..m /\ Cardinality(Begun) = m
                         /\ m + 1 \in Ids /\ (uloss < ULosses => m + 2 \in Ids)
    BY <2>0, NextIds
  <2>2. o # "ok" => uloss < ULosses
    BY <1>6, PrepareLoses
  <2> DEFINE id == IF o = "twice" THEN m + 2 ELSE m + 1
  <2>3. /\ UNCHANGED <<uasked, ufile, ustored>>
        /\ upc' = IF Heard(o) THEN "list" ELSE "failed"
    BY <1>6 DEF Prepare, PrepareWith
  <2>4. /\ uid' = IF Heard(o) THEN id ELSE uid
        /\ urecord' = IF Heard(o) /\ w # "none" THEN [state |-> w, id |-> id, mtime |-> uasked] ELSE urecord
    BY <1>6, <2>1 DEF Prepare, PrepareWith, Begun
  <2>5. id \in Ids /\ id \notin Begun
    BY <2>1, <2>2
  <2>6. ustored[id] = {}
    BY <2>5 DEF Begun
  <2> HIDE DEF id
  <2>7. CASE Heard(o)
    <3>1. uid' = id /\ upc' = "list"
      BY <2>3, <2>4, <2>7
    <3>2. CASE w # "none"
      <4>1. urecord'.mtime = uasked /\ urecord'.id = id
        BY <2>4, <2>7, <3>2
      <4>2. QED BY <1>t, <2>3, <2>6, <3>1, <4>1
    <3>3. CASE w = "none" /\ urecord = NoRecord
      BY <1>t, <1>0, <2>3, <2>4, <2>6, <3>1, <3>3
    <3>4. CASE w = "none" /\ urecord # NoRecord
      <4>1. umixed' <=> umixed
        BY <1>6, <3>4, Zenon DEF Prepare, PrepareWith, UploadTypeOK
      <4>2. QED BY <1>t, <2>3, <2>4, <2>6, <3>1, <3>4, <4>1
    <3>5. QED BY <3>2, <3>3, <3>4
  <2>8. CASE ~Heard(o)
    <3>1. umixed' <=> umixed
      BY <1>6, <2>8, Zenon DEF Prepare, PrepareWith, UploadTypeOK
    <3>2. QED BY <2>3, <2>4, <2>8, <3>1
  <2>9. QED BY <2>7, <2>8
<1>7. ASSUME NEW o \in Outcomes, ListParts(o) PROVE PartsCurrent'
  <2>1. /\ upc = "list" /\ upc' \in {"run", "failed"}
        /\ UNCHANGED <<urecord, uid, uasked, ufile, ustored, umixed>>
    BY <1>7 DEF ListParts, ListPartsThen
  <2>2. QED BY <2>1
<1>8. ASSUME NEW o \in Outcomes, Complete(o) PROVE PartsCurrent'
  <2>1. /\ upc' \in {"done", "failed"} /\ urecord' \in {urecord, NoRecord}
        /\ UNCHANGED <<uasked, ufile, ustored, umixed>>
    BY <1>8 DEF Complete
  <2>2. QED BY <1>t, <1>0, <2>1
<1>9. ASSUME NEW t \in 1..UThreads, TakePart(t) PROVE PartsCurrent'
  BY <1>9 DEF TakePart
<1>10. ASSUME NEW t \in 1..UThreads, NEW o \in Outcomes, SendPart(t, o) PROVE PartsCurrent'
  <2>1. /\ upc = "run" /\ uid \in Ids
        /\ UNCHANGED <<upc, urecord, uid, uasked, ufile, umixed>>
    BY <1>10 DEF SendPart, UploadIds
  <2>2. \A p \in Now({uat[t]}) : p.ver = ufile.ver
    BY DEF Now
  <2>3. ustored' = ustored \/ \E old : ustored' = [ustored EXCEPT ![uid] = (@ \ old) \union Now({uat[t]})]
    BY <1>10 DEF SendPart
  <2>4. \A i \in Ids : i # uid => ustored'[i] = ustored[i]
    BY <1>t, <2>1, <2>3
  <2>5. \A p \in ustored'[uid] : p \in ustored[uid] \/ p.ver = ufile.ver
    BY <1>t, <2>1, <2>2, <2>3
  <2>6. urecord.state = "whole" => urecord.id \in Ids
    BY DEF UploadIds
  <2>7. QED BY <2>1, <2>4, <2>5, <2>6
<1>11. ASSUME NEW late \in BOOLEAN, Rewrite(late) PROVE PartsCurrent'
  <2>1. UNCHANGED <<upc, urecord, uid, uasked, ustored>>
    BY <1>11 DEF Rewrite
  <2>2. ufile'.mtime = IF late THEN ufile.mtime + 1 ELSE ufile.mtime
    BY <1>11 DEF Rewrite
  <2>3. ~umixed' => late /\ upc = "loop"
    BY <1>11 DEF Rewrite
  <2>4. QED BY <1>t, <2>1, <2>2, <2>3
<1>12. CASE UNCHANGED uvars
  BY <1>12
<1>13. QED
  <2> HIDE DEF PartsCurrent, Current
  <2> QED BY <1>1, <1>2, <1>3, <1>4, <1>5, <1>6, <1>7, <1>8, <1>9, <1>10, <1>11, <1>12
         DEF UNext, UploadRun

(***************************************************************************)
(* What upload() returns.                                                  *)
(***************************************************************************)
LEMMA WhenceStep ==
  ASSUME UploadTypeOK, UploadBounds, UploadIds, UploadKind, PartsCovered, PartsCurrent, Whence,
         [UNext]_uvars
  PROVE  Whence'
<1>t. /\ ustored \in [Ids -> SUBSET Parts] /\ ulist \subseteq Parts
      /\ ufile.ver \in 0..URewrites
  BY DEF UploadTypeOK
<1> USE DEF Whence, StoredIsLocal
<1>0. ASSUME uresult' = uresult, upc # "done" PROVE Whence'
  BY <1>0
<1>1. CASE UploadNothing
  BY <1>1 DEF UploadNothing, UploadBounds
<1>2. CASE UploadAttempt \/ LoadRecord \/ OverlookRecord \/ JoinThreads
  BY <1>0, <1>2 DEF UploadAttempt, LoadRecord, LoadRecordIf, OverlookRecord, JoinThreads
<1>3. CASE UploadFailed
  BY <1>3 DEF UploadFailed, UploadFailedAt
<1>4. ASSUME NEW o \in Outcomes, UploadPut(o) PROVE Whence'
  <2>1. CASE Heard(o)
    <3>1. /\ upc' = "done" /\ UNCHANGED <<ucfg, ufile>> /\ ucfg.parts = 1
          /\ uobject' = Now({1})
      BY <1>4, <2>1 DEF UploadPut, UploadKind, Heard
    <3>2. 1..1 = {1}
      OBVIOUS
    <3>3. Now({1}) = {[no |-> p, ver |-> ufile.ver] : p \in 1..ucfg.parts}
      BY <3>1, <3>2 DEF Now
    <3>4. QED BY <3>1, <3>3
  <2>2. CASE ~Heard(o)
    BY <1>0, <1>4, <2>2 DEF UploadPut
  <2>3. QED BY <2>1, <2>2
<1>5. ASSUME NEW o \in Outcomes, ListParts(o) \/ \E w \in {"whole", "cut", "none"} : Prepare(o, w)
      PROVE  Whence'
  BY <1>0, <1>5 DEF ListParts, ListPartsThen, Prepare, PrepareWith
<1>6. ASSUME NEW o \in Outcomes, Complete(o) PROVE Whence'
  <2>1. CASE o = "ok" /\ ~umixed
    <3>1. /\ upc = "complete" /\ upc' = "done" /\ UNCHANGED <<ucfg, ufile, umixed>>
          /\ uobject' = ulist
      BY <1>6, <2>1 DEF Complete
    <3>2. uid \in Ids /\ ucfg.parts = UParts
      BY <3>1 DEF UploadIds, UploadKind
    <3>3. \A p \in ulist : p.ver = ufile.ver
      BY <2>1, <3>1 DEF PartsCovered, PartsCurrent, Current
    <3>4. \A p \in ulist : p.no \in 1..UParts /\ p = [no |-> p.no, ver |-> ufile.ver]
      BY <1>t, <3>3 DEF Parts
    <3>5. \A n \in 1..UParts : [no |-> n, ver |-> ufile.ver] \in ulist
      BY <3>1, <3>4 DEF PartsCovered
    <3>6. ulist = {[no |-> n, ver |-> ufile.ver] : n \in 1..UParts}
      BY <3>4, <3>5
    <3>7. QED BY <3>1, <3>2, <3>6
  <2>2. CASE o = "ok" /\ umixed
    BY <1>6, <2>2 DEF Complete
  <2>3. CASE o # "ok"
    BY <1>0, <1>6, <2>3 DEF Complete
  <2>4. QED BY <2>1, <2>2, <2>3
<1>7. ASSUME NEW t \in 1..UThreads, TakePart(t) \/ \E o \in Outcomes : SendPart(t, o) PROVE Whence'
  BY <1>0, <1>7 DEF TakePart, SendPart
<1>8. ASSUME NEW late \in BOOLEAN, Rewrite(late) PROVE Whence'
  BY <1>0, <1>8 DEF Rewrite
<1>9. CASE UNCHANGED uvars
  BY <1>9
<1>10. QED
  <2> HIDE DEF Whence, StoredIsLocal
  <2> QED BY <1>1, <1>2, <1>3, <1>4, <1>5, <1>6, <1>7, <1>8, <1>9 DEF UNext, UploadRun

-----------------------------------------------------------------------------
\* The invariant holds in every state of an upload.
THEOREM UploadInvariance == USpec => []UploadInv
<1>1. UInit => UploadInv
  BY UploadInitial
<1>2. UploadInv /\ [UNext]_uvars => UploadInv'
  BY UploadTypeStep, UploadBoundsStep, UploadKindStep, UploadIdsStep, PartsCoveredStep,
     PartsCurrentStep, WhenceStep DEF UploadInv
<1>3. QED BY <1>1, <1>2, PTL DEF USpec

(***************************************************************************)
(* upload() returns true only when the object is the file, part for part,  *)
(* for any number of parts, threads, attempts and failures.                *)
(***************************************************************************)
THEOREM UploadsAreStored == USpec => []StoredIsLocal
<1>1. UploadInv => StoredIsLocal
  BY DEF UploadInv, Whence
<1>2. QED BY <1>1, UploadInvariance, PTL

-----------------------------------------------------------------------------
(***************************************************************************)
(* The record names the upload that is worked on, unless uwaste counts a   *)
(* record that was not there; while no answer of a completion was lost,    *)
(* what the record names is open, and what is worked on.  Of the other     *)
(* uploads no more are open than uwaste counts.                            *)
(***************************************************************************)
RecordNames ==
  /\ urecord.state = "none" => urecord = NoRecord
  /\ upc \in {"list", "run", "complete"} /\ uwaste = 0 => urecord.state # "none" /\ urecord.id = uid
  /\ ~uunheard /\ urecord.state = "whole" => urecord.id \in uopen
  /\ ~uunheard /\ upc = "list" => uid \in uopen
  /\ urewritten = 0 => ufile.mtime = 0
  /\ upc \notin {"loop", "done"} \/ uunheard => ucfg.net > 0
  /\ upc = "prepare" => Cardinality(uopen) <= uwaste
  /\ upc \in {"list", "run", "complete"} => Cardinality(uopen \ {uid}) <= uwaste
  /\ OpenUploadsAreNamed

\* Is the present attempt, if any, already paid for by a failure?
Paid == upc \in {"loop", "failed"} \/ (upc = "run" /\ ubad)

\* Every attempt has a failure of its own, unless an answer was lost.
FailuresPaid ==
  /\ uresult # "none" => upc = "done"
  /\ ucfg.there /\ ~uunheard /\ upc # "done" =>
       uloss + (IF Paid THEN 0 ELSE 1) >= ucfg.net - uleft
  /\ FailureHasCause

(***************************************************************************)
(* After an unheard completion the record names an upload that is not open *)
(* any more, and each attempt ends when it asks for its parts.             *)
(***************************************************************************)
UnheardStays ==
  uunheard /\ ucfg.parts # 1 /\ urewritten = 0 /\ uwaste = 0 =>
    /\ uresult # "true"  /\ upc \in {"loop", "load", "list", "failed", "done"}
    /\ urecord.state # "none"  /\ urecord.id \notin uopen
    /\ upc = "list" => uknown

\* What the server has of the upload is not to do.
StoredNotTodo ==
  /\ upc = "list" /\ ~uknown => ustored[uid] = {}
  /\ upc = "run" => \A p \in ustored[uid] : p.no \notin utodo

\* The types in the form the steps below need them.
LEMMA UploadFacts ==
  ASSUME UploadTypeOK, UploadBounds
  PROVE  /\ ucfg.net \in Nat  /\ uleft \in Nat  /\ uloss \in Nat  /\ uwaste \in Nat
         /\ uopen \subseteq Ids  /\ ustored \in [Ids -> SUBSET Parts]
         /\ uat \in [1..UThreads -> Gone..UParts]
         /\ urecord = [state |-> urecord.state, id |-> urecord.id, mtime |-> urecord.mtime]
         /\ urecord.mtime \in Nat  /\ ufile.mtime \in Nat  /\ uasked \in Nat
<1>1. ucfg.net \in UNetRetries /\ uloss \in 0..ULosses
  BY DEF UploadTypeOK, UploadBounds
<1>2. ucfg.net \in Nat /\ uloss \in Nat
  <2>1. ucfg.net \in Nat
    BY <1>1
  <2>2. uloss \in Nat
    BY <1>1
  <2>3. QED BY <2>1, <2>2
<1>3. /\ uopen \subseteq Ids  /\ ustored \in [Ids -> SUBSET Parts]
      /\ uat \in [1..UThreads -> Gone..UParts] /\ uleft \in Nat /\ uwaste \in Nat
      /\ urecord = [state |-> urecord.state, id |-> urecord.id, mtime |-> urecord.mtime]
      /\ urecord.mtime \in Nat  /\ ufile.mtime \in Nat  /\ uasked \in Nat
  BY DEF UploadTypeOK
<1>4. QED BY <1>2, <1>3

LEMMA UploadSets == ASSUME UploadTypeOK PROVE IsFiniteSet(uopen) /\ 0 \notin uopen /\ 0 \notin Ids
<1>1. Attempts + ULosses \in Nat
  BY AttemptsIsMost
<1>2. IsFiniteSet(Ids)
  BY <1>1, FS_Interval DEF Ids
<1>3. uopen \subseteq Ids /\ 0 \notin Ids
  BY <1>1 DEF UploadTypeOK, Ids
<1>4. QED BY <1>2, <1>3, FS_Subset

(***************************************************************************)
(* InitiateMultipartUpload begins a new upload, which the record names if  *)
(* the answer is heard and the file can be opened, and one more when it    *)
(* was executed unheard.                                                   *)
(***************************************************************************)
LEMMA PrepareFacts ==
  ASSUME UploadTypeOK, UploadBounds, UploadIds, NEW o \in Outcomes, NEW w \in {"whole", "cut", "none"}, Prepare(o, w)
  PROVE  /\ upc = "prepare"  /\ UNCHANGED <<cvars, uknown, tvars, ustored, uobject, fvars, uunheard>>
         /\ uwaste' = uwaste + Amount(o \in {"unheard", "twice"}) + Amount(w = "none")
         /\ \E id \in Ids, extra \in SUBSET Ids :
              /\ id \notin Begun  /\ uopen' = uopen \union extra \union (IF Heard(o) THEN {id} ELSE {})
              /\ IF o \in {"unheard", "twice"} THEN \E e \in Ids : extra = {e} ELSE extra = {}
              /\ IF Heard(o)
                   THEN /\ uid' = id  /\ upc' = "list"
                        /\ urecord' = (IF w = "none" THEN urecord ELSE [state |-> w, id |-> id, mtime |-> uasked])
                   ELSE UNCHANGED <<uid, urecord>> /\ upc' = "failed"
<1>0. /\ upc = "prepare"  /\ UNCHANGED <<cvars, uknown, tvars, ustored, uobject, fvars, uunheard>>
      /\ uwaste' = uwaste + Amount(o \in {"unheard", "twice"}) + Amount(w = "none")
  BY DEF Prepare, PrepareWith
<1>1. PICK m \in Nat : /\ Begun = 1..m /\ Cardinality(Begun) = m
                       /\ m + 1 \in Ids /\ (uloss < ULosses => m + 2 \in Ids)
  BY <1>0, NextIds
<1>2. o # "ok" => uloss < ULosses
  BY PrepareLoses
<1> DEFINE id == IF o = "twice" THEN m + 2 ELSE m + 1
           extra == IF o \in {"unheard", "twice"} THEN {m + 1} ELSE {}
           new == CASE o = "lost" -> {} [] o = "twice" -> {m + 1, m + 2} [] OTHER -> {m + 1}
<1>4. /\ uopen' = uopen \union new
      /\ uid' = IF Heard(o) THEN id ELSE uid
      /\ urecord' = IF Heard(o) /\ w # "none" THEN [state |-> w, id |-> id, mtime |-> uasked] ELSE urecord
      /\ upc' = IF Heard(o) THEN "list" ELSE "failed"
  BY <1>1 DEF Prepare, PrepareWith, Begun
<1>5. new = extra \union (IF Heard(o) THEN {id} ELSE {})
  <2>1. CASE o = "lost"
    BY <2>1 DEF Heard
  <2>2. CASE o = "twice"
    BY <2>2 DEF Heard
  <2>3. CASE o = "ok"
    BY <2>3 DEF Heard
  <2>4. CASE o = "unheard"
    BY <2>4 DEF Heard
  <2>5. QED BY <2>1, <2>2, <2>3, <2>4 DEF Outcomes
<1>6. id \notin Begun
  BY <1>1
<1>7. o = "twice" => id \in Ids
  BY <1>1, <1>2
<1>8. id \in Ids /\ extra \in SUBSET Ids
  BY <1>1, <1>7
<1>9. IF o \in {"unheard", "twice"} THEN \E e \in Ids : extra = {e} ELSE extra = {}
  BY <1>1
<1> HIDE DEF id, extra, new
<1>10. QED BY <1>0, <1>4, <1>5, <1>6, <1>8, <1>9

\* Of some uploads, or of some and one more, how many there are.
LEMMA FewerUploads ==
  ASSUME NEW S, NEW T, IsFiniteSet(S), T \subseteq S
  PROVE  /\ Cardinality(S) \in Nat  /\ Cardinality(T) \in Nat  /\ Cardinality(T) <= Cardinality(S)
BY FS_Subset, FS_CardinalityType

LEMMA OneMoreUpload ==
  ASSUME NEW S, NEW e, IsFiniteSet(S)
  PROVE  /\ IsFiniteSet(S \union {e})  /\ Cardinality(S) \in Nat  /\ Cardinality(S \union {e}) \in Nat
         /\ Cardinality(S \union {e}) <= Cardinality(S) + 1
<1>1. IsFiniteSet(S \union {e})
  BY FS_AddElement
<1>2. Cardinality(S) \in Nat /\ Cardinality(S \union {e}) \in Nat
  BY <1>1, FS_CardinalityType
<1>3. Cardinality(S \union {e}) = Cardinality(S) \/ Cardinality(S \union {e}) = Cardinality(S) + 1
  BY FS_AddElement
<1>4. QED BY <1>1, <1>2, <1>3

(***************************************************************************)
(* Retries open no upload but the one the record names, and those that     *)
(* uwaste counts.                                                          *)
(***************************************************************************)
LEMMA RecordNamesStep ==
  ASSUME UploadTypeOK, UploadBounds, UploadIds, PartsCurrent, RecordNames, [UNext]_uvars
  PROVE  RecordNames'
<1>t. /\ ucfg.net \in Nat /\ uleft \in Nat /\ uwaste \in Nat
      /\ IsFiniteSet(uopen) /\ 0 \notin uopen /\ 0 \notin Ids /\ uopen \subseteq Ids
      /\ urecord = [state |-> urecord.state, id |-> urecord.id, mtime |-> urecord.mtime]
  BY UploadFacts, UploadSets
<1>0. NoRecord.state = "none" /\ NoRecord.id = 0
  BY DEF NoRecord
<1>c. Cardinality(uopen \ {urecord.id}) \in Nat /\ Cardinality(uopen \ {urecord.id}) <= uwaste
  BY <1>t, FewerUploads DEF RecordNames, OpenUploadsAreNamed
\* The record is left for good: what it names is one upload more to be counted.
<1>g. Cardinality(uopen) \in Nat /\ Cardinality(uopen) <= uwaste + Amount(urecord # NoRecord)
  <2>1. CASE urecord = NoRecord
    <3>1. uopen \ {urecord.id} = uopen
      BY <1>0, <1>t, <2>1
    <3>2. QED BY <1>c, <1>t, <2>1, <3>1 DEF Amount
  <2>2. CASE urecord # NoRecord
    <3>1. uopen \subseteq (uopen \ {urecord.id}) \union {urecord.id} /\ IsFiniteSet(uopen \ {urecord.id})
      BY <1>t, FS_Subset
    <3> DEFINE rest == uopen \ {urecord.id}
               both == rest \union {urecord.id}
    <3>2. /\ IsFiniteSet(both)  /\ Cardinality(both) \in Nat
          /\ Cardinality(both) <= Cardinality(rest) + 1
      BY <3>1, OneMoreUpload
    <3>3. uopen \subseteq both
      BY <3>1
    <3> HIDE DEF both
    <3>4. Cardinality(uopen) <= Cardinality(both) /\ Cardinality(uopen) \in Nat
      BY <3>2, <3>3, FewerUploads
    <3>5. QED BY <1>c, <1>t, <2>2, <3>2, <3>4 DEF Amount
  <2>3. QED BY <2>1, <2>2
<1>1. CASE UploadNothing \/ JoinThreads \/ UploadFailed \/ UNCHANGED uvars
  BY <1>1 DEF UploadNothing, JoinThreads, UploadFailed, UploadFailedAt, RecordNames, OpenUploadsAreNamed
<1>2. CASE UploadAttempt
  <2>1. ucfg.net > 0 /\ ucfg'.net = ucfg.net
    BY <1>2, <1>t DEF UploadAttempt, UploadBounds, UploadTypeOK
  <2>2. /\ UNCHANGED <<urecord, uopen, uunheard, uwaste, ufile, urewritten>>
        /\ upc = "loop" /\ upc' \in {"failed", "put", "load"}
    BY <1>2 DEF UploadAttempt
  <2>3. QED BY <2>1, <2>2 DEF RecordNames, OpenUploadsAreNamed
<1>3. CASE LoadRecord
  <2> DEFINE valid == urecord.state = "whole" /\ urecord.mtime = uasked
  <2>1. /\ upc = "load" /\ UNCHANGED <<uopen, uunheard, ufile, urewritten, ucfg>>
        /\ valid => uid' = urecord.id /\ urecord' = urecord /\ upc' = "list" /\ uwaste' = uwaste
        /\ ~valid => urecord' = NoRecord /\ upc' = "prepare"
        /\ uwaste' = IF ~valid /\ urecord # NoRecord THEN uwaste + 1 ELSE uwaste
    BY <1>3 DEF LoadRecord, LoadRecordIf
  <2>2. CASE valid
    BY <2>1, <2>2 DEF RecordNames, OpenUploadsAreNamed
  <2>3. CASE ~valid
    <3>1. Cardinality(uopen') <= uwaste'
      BY <1>g, <1>t, <2>1, <2>3 DEF Amount
    <3>2. uopen' \ {urecord'.id} = uopen'
      BY <1>0, <1>t, <2>1, <2>3
    <3>3. OpenUploadsAreNamed'
      BY <3>1, <3>2 DEF OpenUploadsAreNamed
    <3>4. QED BY <1>0, <2>1, <2>3, <3>1, <3>3 DEF RecordNames
  <2>4. QED BY <2>2, <2>3
<1>4. CASE OverlookRecord
  <2>1. /\ upc = "load"  /\ upc' = "prepare"  /\ uwaste' = uwaste + 1
        /\ UNCHANGED <<ucfg, urecord, uopen, uunheard, ufile, urewritten>>
    BY <1>4 DEF OverlookRecord
  <2>2. Cardinality(uopen') <= uwaste'
    BY <1>g, <1>t, <2>1 DEF Amount
  <2>3. OpenUploadsAreNamed'
    BY <1>c, <1>t, <2>1 DEF OpenUploadsAreNamed
  <2>4. QED BY <2>1, <2>2, <2>3 DEF RecordNames
<1>5. ASSUME NEW o \in Outcomes, UploadPut(o) PROVE RecordNames'
  <2>1. /\ upc = "put" /\ UNCHANGED <<ucfg, urecord, uopen, ufile, urewritten, uwaste>>
        /\ upc' \in {"done", "failed"} /\ (uunheard => uunheard')
    BY <1>5 DEF UploadPut
  <2>2. QED BY <2>1 DEF RecordNames, OpenUploadsAreNamed
<1>6. ASSUME NEW o \in Outcomes, ListParts(o) PROVE RecordNames'
  <2>1. /\ upc = "list" /\ UNCHANGED <<ucfg, urecord, uid, uopen, ufile, urewritten, uwaste, uunheard>>
        /\ upc' \in {"run", "failed"}
    BY <1>6 DEF ListParts, ListPartsThen
  <2>2. QED BY <2>1 DEF RecordNames, OpenUploadsAreNamed
<1>7. ASSUME NEW o \in Outcomes, Complete(o) PROVE RecordNames'
  <2>1. /\ upc = "complete" /\ UNCHANGED <<ucfg, ufile, urewritten, uwaste>>
        /\ upc' \in {"done", "failed"} /\ (uunheard => uunheard')
        /\ o = "ok" => urecord' = NoRecord /\ uopen' = uopen \ {uid} /\ upc' = "done"
        /\ o # "ok" => urecord' = urecord
        /\ o = "lost" => uopen' = uopen
        /\ o = "unheard" => uopen' = uopen \ {uid} /\ uunheard'
        /\ o \in {"ok", "lost", "unheard"}
    BY <1>7 DEF Complete, Outcomes
  <2>2. OpenUploadsAreNamed'
    <3>1. CASE o = "ok"
      <4>1. uopen' \ {urecord'.id} = uopen \ {uid}
        BY <1>0, <1>t, <2>1, <3>1
      <4>2. QED BY <2>1, <4>1 DEF RecordNames, OpenUploadsAreNamed
    <3>2. CASE o # "ok"
      <4>1. uopen' \ {urecord'.id} \subseteq uopen \ {urecord.id} /\ IsFiniteSet(uopen \ {urecord.id})
        BY <1>t, <2>1, <3>2, FS_Subset
      <4>2. /\ Cardinality(uopen' \ {urecord'.id}) \in Nat
            /\ Cardinality(uopen' \ {urecord'.id}) <= Cardinality(uopen \ {urecord.id})
        BY <4>1, FewerUploads
      <4>3. QED BY <1>c, <1>t, <2>1, <4>2 DEF OpenUploadsAreNamed
    <3>3. QED BY <3>1, <3>2
  <2>3. QED BY <1>0, <2>1, <2>2 DEF RecordNames
<1>8. ASSUME NEW o \in Outcomes, NEW w \in {"whole", "cut", "none"}, Prepare(o, w) PROVE RecordNames'
  <2>1. /\ upc = "prepare"  /\ UNCHANGED <<cvars, fvars, uunheard>>
        /\ uwaste' = uwaste + Amount(o \in {"unheard", "twice"}) + Amount(w = "none")
    BY <1>8, PrepareFacts
  <2>2. PICK id \in Ids, extra \in SUBSET Ids :
          /\ id \notin Begun  /\ uopen' = uopen \union extra \union (IF Heard(o) THEN {id} ELSE {})
          /\ IF o \in {"unheard", "twice"} THEN \E e \in Ids : extra = {e} ELSE extra = {}
          /\ IF Heard(o)
               THEN /\ uid' = id  /\ upc' = "list"
                    /\ urecord' = (IF w = "none" THEN urecord ELSE [state |-> w, id |-> id, mtime |-> uasked])
               ELSE UNCHANGED <<uid, urecord>> /\ upc' = "failed"
    BY <1>8, PrepareFacts
  <2>3. Cardinality(uopen) <= uwaste /\ ucfg.net > 0
    BY <2>1 DEF RecordNames
  \* An initiation that was not heard costs one upload.
  <2>4. /\ IsFiniteSet(uopen \union extra)  /\ Cardinality(uopen \union extra) \in Nat
        /\ Cardinality(uopen \union extra) <= uwaste + Amount(o \in {"unheard", "twice"})
    <3>1. CASE o \in {"unheard", "twice"}
      <4>1. PICK e \in Ids : extra = {e}
        BY <2>2, <3>1
      <4>2. /\ IsFiniteSet(uopen \union extra)  /\ Cardinality(uopen \union extra) \in Nat
            /\ Cardinality(uopen \union extra) <= Cardinality(uopen) + 1
        BY <1>t, <4>1, OneMoreUpload
      <4>3. QED BY <1>t, <1>g, <2>3, <3>1, <4>2 DEF Amount
    <3>2. CASE o \notin {"unheard", "twice"}
      <4>1. uopen \union extra = uopen
        BY <2>2, <3>2
      <4>2. IsFiniteSet(uopen) /\ Cardinality(uopen) \in Nat
        BY <1>t, FewerUploads
      <4>3. Amount(o \in {"unheard", "twice"}) = 0
        BY <3>2 DEF Amount
      <4>4. QED BY <1>t, <2>3, <4>1, <4>2, <4>3
    <3>3. QED BY <3>1, <3>2
  <2>5. uwaste' \in Nat /\ Cardinality(uopen \union extra) + Amount(w = "none") <= uwaste'
    BY <1>t, <2>1, <2>4 DEF Amount
  <2>6. OpenUploadsAreNamed'
    <3>1. CASE w = "none"
      <4>1. uopen' \ {urecord'.id} \subseteq (uopen \union extra) \union {id}
        BY <2>2
      <4> DEFINE most == (uopen \union extra) \union {id}
      <4>2. /\ IsFiniteSet(most)  /\ Cardinality(most) \in Nat
            /\ Cardinality(most) <= Cardinality(uopen \union extra) + 1
        BY <2>4, OneMoreUpload
      <4> HIDE DEF most
      <4>3. /\ Cardinality(uopen' \ {urecord'.id}) \in Nat
            /\ Cardinality(uopen' \ {urecord'.id}) <= Cardinality(most)
        BY <4>1, <4>2, FewerUploads DEF most
      <4>4. QED BY <2>4, <2>5, <3>1, <4>2, <4>3 DEF OpenUploadsAreNamed, Amount
    <3>2. CASE w # "none"
      <4>1. uopen' \ {urecord'.id} \subseteq uopen \union extra
        BY <2>2, <3>2
      <4>2. QED BY <2>4, <2>5, <3>2, <4>1, FewerUploads DEF OpenUploadsAreNamed, Amount
    <3>3. QED BY <3>1, <3>2
  <2>7. CASE Heard(o)
    <3>1. uid' = id /\ upc' = "list" /\ uid' \in uopen'
      BY <2>2, <2>7
    <3>2. uopen' \ {uid'} \subseteq uopen \union extra
      BY <2>2, <2>7
    <3>3. Cardinality(uopen' \ {uid'}) <= uwaste'
      BY <2>4, <2>5, <3>2, FewerUploads DEF Amount
    <3>4. CASE w = "none"
      <4>1. urecord' = urecord /\ uwaste' # 0
        BY <1>t, <2>1, <2>2, <2>7, <3>4 DEF Amount
      <4>2. ~uunheard' /\ urecord'.state = "whole" => urecord'.id \in uopen'
        BY <2>1, <2>2, <4>1 DEF RecordNames
      <4>3. QED BY <2>1, <2>3, <2>6, <3>1, <3>3, <4>1, <4>2 DEF RecordNames
    <3>5. CASE w # "none"
      <4>1. urecord'.id = uid' /\ urecord'.state = w
        BY <2>2, <2>7, <3>5
      <4>2. QED BY <2>1, <2>3, <2>6, <3>1, <3>3, <3>5, <4>1 DEF RecordNames
    <3>6. QED BY <3>4, <3>5
  <2>8. CASE ~Heard(o)
    <3>1. upc' = "failed" /\ urecord' = urecord /\ uopen \subseteq uopen'
      BY <2>2, <2>8
    <3>2. QED BY <2>1, <2>3, <2>6, <3>1 DEF RecordNames
  <2>9. QED BY <2>7, <2>8
<1>9. ASSUME NEW t \in 1..UThreads, TakePart(t) PROVE RecordNames'
  BY <1>9 DEF TakePart, RecordNames, OpenUploadsAreNamed
<1>10. ASSUME NEW t \in 1..UThreads, NEW o \in Outcomes, SendPart(t, o) PROVE RecordNames'
  BY <1>10 DEF SendPart, RecordNames, OpenUploadsAreNamed
<1>11. ASSUME NEW late \in BOOLEAN, Rewrite(late) PROVE RecordNames'
  <2>1. UNCHANGED <<upc, cvars, rvars, uopen, uunheard, uwaste>> /\ urewritten' = urewritten + 1
    BY <1>11 DEF Rewrite
  <2>2. urewritten' # 0
    BY <2>1 DEF UploadBounds
  <2>3. QED BY <2>1, <2>2 DEF RecordNames, OpenUploadsAreNamed
<1>12. QED
  BY <1>1, <1>2, <1>3, <1>4, <1>5, <1>6, <1>7, <1>8, <1>9, <1>10, <1>11 DEF UNext, UploadRun

(***************************************************************************)
(* An attempt fails of a request, or of a record that could not be         *)
(* written, of its own.                                                    *)
(***************************************************************************)
LEMMA FailuresPaidStep ==
  ASSUME UploadTypeOK, UploadBounds, UploadIds, RecordNames, FailuresPaid, [UNext]_uvars
  PROVE  FailuresPaid'
<1>t. /\ ucfg.net \in Nat /\ uleft \in Nat /\ uloss \in Nat /\ uleft <= ucfg.net
      /\ ucfg \in [net : UNetRetries, threads : 0..UThreads, there : BOOLEAN, parts : {1, UParts}]
  BY UploadFacts DEF UploadBounds, UploadTypeOK
<1>d. upc # "done" => uresult = "none"
  BY DEF FailuresPaid
<1>f. upc # "done" /\ ucfg.there /\ ~uunheard => uloss + (IF Paid THEN 0 ELSE 1) >= ucfg.net - uleft
  BY DEF FailuresPaid
<1>n. uresult' # "false" => FailureHasCause'
  BY DEF FailureHasCause
<1>1. CASE UploadNothing
  BY <1>1 DEF UploadNothing, FailuresPaid, FailureHasCause
<1>2. CASE UploadAttempt
  <2>1. /\ upc = "loop" /\ uleft' = uleft - 1 /\ UNCHANGED <<uloss, uunheard, uresult>>
        /\ ucfg'.net = ucfg.net /\ ucfg'.there = ucfg.there
        /\ ~ucfg.there <=> upc' = "failed"
        /\ upc' \in {"failed", "put", "load"}
    BY <1>2, <1>t DEF UploadAttempt
  <2>2. Paid /\ (ucfg.there => ~Paid')
    BY <2>1 DEF Paid
  <2>3. QED BY <1>t, <1>d, <1>f, <1>n, <2>1, <2>2 DEF FailuresPaid
<1>3. CASE LoadRecord \/ OverlookRecord
  <2>1. /\ upc = "load" /\ upc' \in {"list", "prepare"} /\ UNCHANGED <<cvars, uunheard>>
        /\ uloss' \in {uloss, uloss + 1}
    BY <1>3 DEF LoadRecord, LoadRecordIf, OverlookRecord
  <2>2. ~Paid /\ ~Paid'
    BY <2>1 DEF Paid
  <2>3. QED BY <1>t, <1>d, <1>f, <1>n, <2>1, <2>2 DEF FailuresPaid
<1>4. CASE JoinThreads
  <2>1. upc = "run" /\ upc' = (IF ubad THEN "failed" ELSE "complete") /\ UNCHANGED <<cvars, uloss, uunheard>>
    BY <1>4 DEF JoinThreads
  <2>2. Paid' <=> Paid
    BY <2>1 DEF Paid
  <2>3. QED BY <1>d, <1>f, <1>n, <2>1, <2>2 DEF FailuresPaid
<1>5. CASE UploadFailed
  <2>1. /\ upc = "failed" /\ upc' = (IF uleft = 0 THEN "done" ELSE "loop")
        /\ uresult' = (IF uleft = 0 THEN "false" ELSE uresult)
        /\ UNCHANGED <<ucfg, uleft, uloss, uunheard>>
    BY <1>5 DEF UploadFailed, UploadFailedAt
  <2>2. Paid
    BY <2>1 DEF Paid
  <2>3. CASE uleft = 0
    <3>1. ucfg.there /\ ~uunheard => uloss >= ucfg.net
      BY <1>t, <1>f, <2>1, <2>2, <2>3
    <3>2. FailureHasCause'
      BY <2>1, <3>1 DEF FailureHasCause
    <3>3. QED BY <2>1, <2>3, <3>2 DEF FailuresPaid
  <2>4. CASE uleft # 0
    <3>1. Paid'
      BY <2>1, <2>4 DEF Paid
    <3>2. QED BY <1>d, <1>f, <1>n, <2>1, <2>2, <2>4, <3>1 DEF FailuresPaid
  <2>5. QED BY <2>3, <2>4
<1>6. ASSUME NEW o \in Outcomes, UploadPut(o) PROVE FailuresPaid'
  <2>1. /\ upc = "put" /\ UNCHANGED <<ucfg, uleft>>
        /\ upc' = (IF Heard(o) THEN "done" ELSE "failed")
        /\ uresult' = (IF Heard(o) THEN "true" ELSE uresult)
        /\ uloss' = (IF o = "ok" THEN uloss ELSE uloss + 1)
    BY <1>6 DEF UploadPut, Ends
  <2>2. uunheard => uunheard'
    BY <1>6, Zenon DEF UploadPut
  <2>3. CASE Heard(o)
    BY <1>n, <2>1, <2>3 DEF FailuresPaid
  <2>4. CASE ~Heard(o)
    <3>1. uloss' = uloss + 1 /\ upc' = "failed" /\ uresult' = "none" /\ ~Paid /\ Paid'
      BY <1>d, <2>1, <2>4 DEF Heard, Paid
    <3>2. QED BY <1>t, <1>f, <1>n, <2>1, <2>2, <3>1 DEF FailuresPaid
  <2>5. QED BY <2>3, <2>4
<1>7. ASSUME NEW o \in Outcomes, ListParts(o) PROVE FailuresPaid'
  <2>1. /\ upc = "list" /\ UNCHANGED <<cvars, uunheard>> /\ ubad' = FALSE
        /\ uloss' = uloss \/ uloss' = uloss + 1
        /\ o # "ok" => uloss' = uloss + 1
        /\ upc' = IF o = "ok" /\ (uknown => uid \in uopen) THEN "run" ELSE "failed"
    BY <1>7 DEF ListParts, ListPartsThen, Ends
  <2>2. ~Paid
    BY <2>1 DEF Paid
  <2>3. CASE uunheard
    BY <1>d, <1>n, <2>1, <2>3 DEF FailuresPaid
  <2>4. CASE ~uunheard /\ o = "ok"
    <3>1. upc' = "run" /\ ~Paid'
      BY <2>1, <2>4 DEF RecordNames, Paid
    <3>2. QED BY <1>t, <1>d, <1>f, <1>n, <2>1, <2>2, <2>4, <3>1 DEF FailuresPaid
  <2>5. CASE ~uunheard /\ o # "ok"
    <3>1. upc' = "failed" /\ Paid'
      BY <2>1, <2>5 DEF Paid
    <3>2. QED BY <1>t, <1>d, <1>f, <1>n, <2>1, <2>2, <2>5, <3>1 DEF FailuresPaid
  <2>6. QED BY <2>3, <2>4, <2>5
<1>8. ASSUME NEW o \in Outcomes, Complete(o) PROVE FailuresPaid'
  <2>1. /\ upc = "complete" /\ UNCHANGED <<ucfg, uleft>>
        /\ upc' = (IF o = "ok" THEN "done" ELSE "failed")
        /\ uresult' = (IF o = "ok" THEN "true" ELSE uresult)
        /\ uloss' = (IF o = "ok" THEN uloss ELSE uloss + 1)
    BY <1>8 DEF Complete, Ends
  <2>2. uunheard => uunheard'
    BY <1>8, Zenon DEF Complete
  <2>3. CASE o = "ok"
    BY <1>n, <2>1, <2>3 DEF FailuresPaid
  <2>4. CASE o # "ok"
    <3>1. uloss' = uloss + 1 /\ upc' = "failed" /\ uresult' = "none" /\ ~Paid /\ Paid'
      BY <1>d, <2>1, <2>4 DEF Paid
    <3>2. QED BY <1>t, <1>f, <1>n, <2>1, <2>2, <3>1 DEF FailuresPaid
  <2>5. QED BY <2>3, <2>4
<1>9. ASSUME NEW o \in Outcomes, NEW w \in {"whole", "cut", "none"}, Prepare(o, w) PROVE FailuresPaid'
  <2>1. /\ upc = "prepare"  /\ UNCHANGED <<cvars, uunheard>>
        /\ uloss' \in Nat  /\ uloss <= uloss'  /\ (o # "ok" => uloss + 1 <= uloss')
    BY <1>9, PrepareFacts, PrepareLoses
  <2>2. upc' = IF Heard(o) THEN "list" ELSE "failed"
    BY <1>9 DEF Prepare, PrepareWith
  <2>3. ~Paid /\ (Paid' <=> ~Heard(o))
    BY <2>1, <2>2 DEF Paid
  <2>4. ~Heard(o) => uloss + 1 <= uloss'
    BY <2>1 DEF Heard
  <2>5. QED BY <1>t, <1>d, <1>f, <1>n, <2>1, <2>2, <2>3, <2>4 DEF FailuresPaid
<1>10. ASSUME NEW t \in 1..UThreads, TakePart(t) PROVE FailuresPaid'
  <2>1. upc = "run" /\ UNCHANGED <<upc, cvars, ubad, uloss, uunheard>>
    BY <1>10 DEF TakePart
  <2>2. Paid' <=> Paid
    BY <2>1 DEF Paid
  <2>3. QED BY <1>d, <1>f, <1>n, <2>1, <2>2 DEF FailuresPaid
<1>11. ASSUME NEW t \in 1..UThreads, NEW o \in Outcomes, SendPart(t, o) PROVE FailuresPaid'
  <2>1. /\ upc = "run" /\ UNCHANGED <<upc, cvars, uunheard>>
        /\ uloss' = (IF o = "ok" THEN uloss ELSE uloss + 1)
    BY <1>11 DEF SendPart, Ends
  <2>2. CASE Heard(o)
    <3>1. ubad' <=> ubad
      BY <1>11, <2>2, Zenon DEF SendPart, UploadTypeOK
    <3>2. Paid' <=> Paid
      BY <2>1, <3>1 DEF Paid
    <3>3. QED BY <1>t, <1>d, <1>f, <1>n, <2>1, <3>2 DEF FailuresPaid
  <2>3. CASE ~Heard(o)
    <3>1. uloss' = uloss + 1
      BY <2>1, <2>3 DEF Heard
    <3>2. QED BY <1>t, <1>d, <1>f, <1>n, <2>1, <3>1 DEF FailuresPaid
  <2>4. QED BY <2>2, <2>3
<1>12. ASSUME NEW late \in BOOLEAN, Rewrite(late) PROVE FailuresPaid'
  <2>1. upc # "done" /\ UNCHANGED <<upc, cvars, ubad, uloss, uunheard>>
    BY <1>12 DEF Rewrite
  <2>2. Paid' <=> Paid
    BY <2>1 DEF Paid
  <2>3. QED BY <1>d, <1>f, <1>n, <2>1, <2>2 DEF FailuresPaid
<1>13. CASE UNCHANGED uvars
  BY <1>13 DEF FailuresPaid, FailureHasCause, Paid
<1>14. QED
  BY <1>1, <1>2, <1>3, <1>4, <1>5, <1>6, <1>7, <1>8, <1>9, <1>10, <1>11, <1>12, <1>13 DEF UNext, UploadRun

(***************************************************************************)
(* After an unheard completion no attempt gets further than its list.      *)
(***************************************************************************)
LEMMA UnheardStaysStep ==
  ASSUME UploadTypeOK, UploadBounds, UploadKind, UploadIds, PartsCurrent, RecordNames, FailuresPaid,
         UnheardStays, [UNext]_uvars
  PROVE  UnheardStays'
<1>t. /\ ucfg.net \in Nat /\ uleft \in Nat /\ uwaste \in Nat /\ urewritten \in Nat
      /\ urecord.mtime \in Nat  /\ ufile.mtime \in Nat  /\ uasked \in Nat
  BY UploadFacts DEF UploadBounds
<1> DEFINE pending == uunheard /\ ucfg.parts # 1 /\ urewritten = 0 /\ uwaste = 0
\* From an unheard answer on, before a step as well as after it.
<1>p. ASSUME pending
      PROVE  /\ uresult # "true"  /\ upc \in {"loop", "load", "list", "failed", "done"}
             /\ urecord.state # "none"  /\ urecord.id \notin uopen  /\ (upc = "list" => uknown)
  BY <1>p DEF UnheardStays
<1>1. CASE UploadNothing
  <2>1. upc = "loop" /\ uleft = 0 /\ UNCHANGED <<uunheard, ucfg, urewritten, uwaste>>
    BY <1>1 DEF UploadNothing
  <2>2. ~uunheard
    BY <1>t, <2>1 DEF RecordNames, UploadBounds
  <2>3. QED BY <2>1, <2>2 DEF UnheardStays
<1>2. CASE UploadAttempt
  <2>1. /\ UNCHANGED <<uunheard, urewritten, uwaste, urecord, uopen, uresult>>
        /\ upc' = IF ~ucfg.there THEN "failed" ELSE IF ucfg.parts = 1 THEN "put" ELSE "load"
    BY <1>2 DEF UploadAttempt
  <2>2. ucfg'.parts = ucfg.parts
    BY <1>2 DEF UploadAttempt, UploadTypeOK
  <2>3. QED BY <1>p, <2>1, <2>2 DEF UnheardStays
<1>3. CASE LoadRecord
  <2>1. /\ upc = "load" /\ UNCHANGED <<uunheard, ucfg, urewritten, uopen, uresult>>
        /\ LET valid == urecord.state = "whole" /\ urecord.mtime = uasked IN
             /\ valid => upc' = "list" /\ uknown' /\ urecord' = urecord /\ uwaste' = uwaste
             /\ ~valid /\ urecord # NoRecord => uwaste' = uwaste + 1
             /\ ~valid /\ urecord = NoRecord => uwaste' = uwaste
    BY <1>3 DEF LoadRecord, LoadRecordIf
  <2>2. CASE urecord = NoRecord
    <3>1. urecord.state = "none"
      BY <2>2 DEF NoRecord
    <3>2. QED BY <1>p, <2>1, <2>2, <3>1 DEF UnheardStays
  <2>3. CASE urecord # NoRecord
    <3>1. CASE urecord.state = "whole" /\ urecord.mtime = uasked
      BY <1>p, <2>1, <3>1 DEF UnheardStays
    <3>2. CASE ~(urecord.state = "whole" /\ urecord.mtime = uasked)
      <4>1. uwaste' # 0
        BY <1>t, <2>1, <2>3, <3>2
      <4>2. QED BY <4>1 DEF UnheardStays
    <3>3. QED BY <3>1, <3>2
  <2>4. QED BY <2>2, <2>3
<1>4. CASE JoinThreads \/ OverlookRecord
  <2>1. CASE JoinThreads
    BY <2>1, <1>p DEF JoinThreads, UnheardStays
  <2>2. CASE OverlookRecord
    <3>1. uwaste' # 0
      BY <1>t, <2>2 DEF OverlookRecord
    <3>2. QED BY <3>1 DEF UnheardStays
  <2>3. QED BY <1>4, <2>1, <2>2
<1>5. CASE UploadFailed
  BY <1>5, <1>p DEF UploadFailed, UploadFailedAt, UnheardStays
<1>6. ASSUME NEW o \in Outcomes, UploadPut(o) PROVE UnheardStays'
  BY <1>6 DEF UploadPut, UploadKind, UnheardStays
<1>7. ASSUME NEW o \in Outcomes, ListParts(o) PROVE UnheardStays'
  <2>1. /\ upc = "list" /\ UNCHANGED <<cvars, urecord, uopen, uunheard, urewritten, uwaste>>
        /\ upc' = IF o = "ok" /\ (uknown => uid \in uopen) THEN "run" ELSE "failed"
    BY <1>7 DEF ListParts, ListPartsThen
  <2>2. uwaste = 0 => urecord.id = uid
    BY <2>1 DEF RecordNames
  <2>3. pending => upc' = "failed"
    BY <1>p, <2>1, <2>2
  <2>4. QED BY <1>p, <2>1, <2>3 DEF UnheardStays
<1>8. ASSUME NEW o \in Outcomes, Complete(o) PROVE UnheardStays'
  <2>1. upc = "complete" /\ UNCHANGED <<ucfg, urewritten, uwaste>>
    BY <1>8 DEF Complete
  <2>2. uresult = "none" /\ (uwaste = 0 => urecord.state # "none" /\ urecord.id = uid)
    BY <2>1 DEF FailuresPaid, RecordNames
  <2>3. CASE o = "unheard"
    <3>1. uopen' = uopen \ {uid} /\ urecord' = urecord /\ uresult' = uresult /\ upc' = "failed"
      BY <1>8, <2>3 DEF Complete
    <3>2. QED BY <2>1, <2>2, <3>1 DEF UnheardStays
  <2>4. CASE o # "unheard"
    <3>1. ~pending
      BY <1>p, <2>1
    <3>2. uunheard' <=> uunheard
      BY <1>8, <2>4, Zenon DEF Complete, UploadTypeOK
    <3>3. QED BY <2>1, <3>1, <3>2 DEF UnheardStays
  <2>5. QED BY <2>3, <2>4
<1>9. ASSUME NEW o \in Outcomes, NEW w \in {"whole", "cut", "none"}, Prepare(o, w) PROVE UnheardStays'
  <2>1. /\ upc = "prepare"  /\ UNCHANGED <<cvars, fvars, uunheard>>
        /\ uwaste' = uwaste + Amount(o \in {"unheard", "twice"}) + Amount(w = "none")
    BY <1>9, PrepareFacts
  <2>2. ~pending
    BY <1>p, <2>1
  <2>3. uwaste' = 0 => uwaste = 0
    BY <1>t, <2>1 DEF Amount
  <2>4. QED BY <2>1, <2>2, <2>3 DEF UnheardStays
<1>10. ASSUME NEW t \in 1..UThreads, TakePart(t) \/ \E o \in Outcomes : SendPart(t, o) PROVE UnheardStays'
  <2>1. upc = "run" /\ UNCHANGED <<uunheard, ucfg, urewritten, uwaste>>
    BY <1>10 DEF TakePart, SendPart
  <2>2. ~pending
    BY <1>p, <2>1
  <2>3. QED BY <2>1, <2>2 DEF UnheardStays
<1>11. ASSUME NEW late \in BOOLEAN, Rewrite(late) PROVE UnheardStays'
  <2>1. urewritten' # 0
    BY <1>11, <1>t DEF Rewrite
  <2>2. QED BY <2>1 DEF UnheardStays
<1>12. CASE UNCHANGED uvars
  BY <1>12 DEF UnheardStays
<1>13. QED
  BY <1>1, <1>2, <1>3, <1>4, <1>5, <1>6, <1>7, <1>8, <1>9, <1>10, <1>11, <1>12 DEF UNext, UploadRun

(***************************************************************************)
(* What the server has of the upload is not sent again.                    *)
(***************************************************************************)
LEMMA StoredNotTodoStep ==
  ASSUME UploadTypeOK, UploadBounds, UploadIds, PartsCovered, StoredNotTodo, [UNext]_uvars
  PROVE  StoredNotTodo'
<1>t. /\ ustored \in [Ids -> SUBSET Parts] /\ uat \in [1..UThreads -> Gone..UParts]
  BY UploadFacts
<1>1. CASE upc' \notin {"list", "run"}
  BY <1>1 DEF StoredNotTodo
<1>2. CASE LoadRecord
  <2>1. upc' = "list" => uknown'
    BY <1>2 DEF LoadRecord, LoadRecordIf
  <2>2. upc' \in {"list", "prepare"}
    BY <1>2 DEF LoadRecord, LoadRecordIf
  <2>3. QED BY <2>1, <2>2 DEF StoredNotTodo
<1>3. ASSUME NEW o \in Outcomes, ListParts(o) PROVE StoredNotTodo'
  <2>1. upc = "list" /\ upc' \in {"run", "failed"} /\ UNCHANGED <<uid, ustored>>
    BY <1>3 DEF ListParts, ListPartsThen
  <2>2. CASE upc' = "run"
    <3>1. ustored[uid] = IF uknown THEN ustored[uid] ELSE {}
      BY <2>1 DEF StoredNotTodo
    <3>2. ustored[uid] \subseteq Parts
      BY <1>t, <2>1 DEF UploadIds
    <3>3. utodo' = (1..UParts) \ {p.no : p \in (IF uknown THEN ustored[uid] ELSE {}) \intersect Parts}
      BY <1>3, <2>2 DEF ListParts, ListPartsThen
    <3>4. \A p \in ustored[uid] : p.no \notin utodo'
      BY <3>1, <3>2, <3>3
    <3>5. QED BY <2>1, <2>2, <3>4 DEF StoredNotTodo
  <2>3. QED BY <2>1, <2>2 DEF StoredNotTodo
<1>4. ASSUME NEW o \in Outcomes, NEW w \in {"whole", "cut", "none"}, Prepare(o, w) PROVE StoredNotTodo'
  <2>1. PICK id \in Ids, extra \in SUBSET Ids :
          /\ id \notin Begun  /\ uopen' = uopen \union extra \union (IF Heard(o) THEN {id} ELSE {})
          /\ IF o \in {"unheard", "twice"} THEN \E e \in Ids : extra = {e} ELSE extra = {}
          /\ IF Heard(o)
               THEN /\ uid' = id  /\ upc' = "list"
                    /\ urecord' = (IF w = "none" THEN urecord ELSE [state |-> w, id |-> id, mtime |-> uasked])
               ELSE UNCHANGED <<uid, urecord>> /\ upc' = "failed"
    BY <1>4, PrepareFacts
  <2>2. ustored' = ustored /\ ustored[id] = {}
    BY <1>4, <2>1, PrepareFacts DEF Begun
  <2>3. QED BY <2>1, <2>2 DEF StoredNotTodo
<1>5. ASSUME NEW t \in 1..UThreads, TakePart(t) PROVE StoredNotTodo'
  <2>1. upc = "run" /\ UNCHANGED <<upc, uid, ustored>> /\ utodo' \subseteq utodo
    BY <1>5 DEF TakePart
  <2>2. QED BY <2>1 DEF StoredNotTodo
<1>6. ASSUME NEW t \in 1..UThreads, NEW o \in Outcomes, SendPart(t, o) PROVE StoredNotTodo'
  <2>1. upc = "run" /\ uat[t] > 0 /\ UNCHANGED <<upc, uid, utodo>> /\ uid \in Ids
    BY <1>6 DEF SendPart, UploadIds
  <2>2. uat[t] \notin utodo
    BY <2>1 DEF PartsCovered, PartInOnePlace
  <2>3. \A p \in ustored'[uid] : p \in ustored[uid] \/ p = [no |-> uat[t], ver |-> ufile.ver]
    BY <1>6, <1>t, <2>1 DEF SendPart, Now
  <2>4. \A p \in ustored[uid] : p.no \notin utodo
    BY <2>1 DEF StoredNotTodo
  <2>5. \A p \in ustored'[uid] : p.no \notin utodo
    BY <2>2, <2>3, <2>4
  <2>6. QED BY <2>1, <2>5 DEF StoredNotTodo
<1>7. ASSUME NEW late \in BOOLEAN, Rewrite(late) \/ UNCHANGED uvars PROVE StoredNotTodo'
  <2>1. UNCHANGED <<upc, uid, uknown, ustored, utodo>>
    BY <1>7 DEF Rewrite
  <2>2. QED BY <2>1 DEF StoredNotTodo
<1>8. QED
  <2>1. CASE UploadNothing \/ UploadAttempt \/ OverlookRecord \/ JoinThreads \/ UploadFailed
    BY <1>1, <2>1 DEF UploadNothing, UploadAttempt, OverlookRecord, JoinThreads, UploadFailed, UploadFailedAt
  <2>2. ASSUME NEW o \in Outcomes, UploadPut(o) \/ Complete(o) PROVE StoredNotTodo'
    BY <1>1, <2>2 DEF UploadPut, Complete
  <2>3. QED BY <1>2, <1>3, <1>4, <1>5, <1>6, <1>7, <2>1, <2>2 DEF UNext, UploadRun

ResumeInv == RecordNames /\ FailuresPaid /\ UnheardStays /\ StoredNotTodo

LEMMA ResumeInitial == UInit => ResumeInv
<1> SUFFICES ASSUME UInit PROVE ResumeInv
    OBVIOUS
<1>t. UploadTypeOK /\ ucfg.net \in Nat
  BY UploadInitial, UploadFacts DEF UploadInv
<1>1. RecordNames
  <2>1. uopen \ {urecord.id} = {} /\ Cardinality({}) = 0
    BY FS_EmptySet DEF UInit
  <2>2. OpenUploadsAreNamed
    BY <2>1 DEF UInit, OpenUploadsAreNamed
  <2>3. QED BY <2>2 DEF UInit, RecordNames, NoRecord
<1>2. FailuresPaid
  BY <1>t DEF UInit, FailuresPaid, FailureHasCause, Paid
<1>3. UnheardStays /\ StoredNotTodo
  BY DEF UInit, UnheardStays, StoredNotTodo
<1>4. QED BY <1>1, <1>2, <1>3 DEF ResumeInv

\* What resumed uploads rely on holds in every state of an upload.
THEOREM ResumeInvariance == USpec => []ResumeInv
<1>1. UInit => ResumeInv
  BY ResumeInitial
<1>2. UploadInv /\ ResumeInv /\ [UNext]_uvars => ResumeInv'
  BY RecordNamesStep, FailuresPaidStep, UnheardStaysStep, StoredNotTodoStep DEF UploadInv, ResumeInv
<1>3. QED BY <1>1, <1>2, UploadInvariance, PTL DEF USpec

\* A part that the server has under the id is not taken up (TakePart).
LEMMA ResumedSkipsStored == USpec => ResumeSkipsStored
<1> DEFINE Skips == \A t \in 1..UThreads :
                      uat[t] = Idle /\ uat'[t] > 0 => \A p \in ustored[uid] : p.no # uat'[t]
<1>1. UploadInv /\ ResumeInv /\ [UNext]_uvars => Skips
  <2> SUFFICES ASSUME UploadInv, ResumeInv, [UNext]_uvars,
                      NEW t \in 1..UThreads, uat[t] = Idle, uat'[t] > 0,
                      NEW p \in ustored[uid]
               PROVE  p.no # uat'[t]
      OBVIOUS
  <2>t. StoredNotTodo /\ uat \in [1..UThreads -> Gone..UParts]
    BY DEF UploadInv, UploadTypeOK, ResumeInv
  <2>1. PICK u \in 1..UThreads : TakePart(u)
    <3>1. ASSUME NEW o \in Outcomes, ListParts(o) PROVE FALSE
      <4>1. uat'[t] \in {Idle, Gone}
        BY <3>1 DEF ListParts, ListPartsThen
      <4>2. QED BY <4>1
    <3>2. ASSUME NEW u \in 1..UThreads, NEW o \in Outcomes, SendPart(u, o) PROVE FALSE
      <4>1. uat' = [uat EXCEPT ![u] = Idle]
        BY <3>2 DEF SendPart
      <4>2. uat'[t] = Idle
        BY <2>t, <4>1
      <4>3. QED BY <4>2
    <3>3. CASE uat' = uat
      BY <3>3
    <3>4. uat' = uat \/ (\E o \in Outcomes : ListParts(o))
          \/ \E u \in 1..UThreads : TakePart(u) \/ \E o \in Outcomes : SendPart(u, o)
      BY DEF UNext, UploadRun, UploadNothing, UploadAttempt, LoadRecord, LoadRecordIf, OverlookRecord,
             JoinThreads, UploadFailed, UploadFailedAt, UploadPut, Complete, Prepare, PrepareWith, Rewrite
    <3>5. QED BY <3>1, <3>2, <3>3, <3>4
  <2>2. upc = "run" /\ uat'[t] \in utodo
    <3>1. upc = "run" /\ (uat' = [uat EXCEPT ![u] = Gone] \/ \E n \in utodo : uat' = [uat EXCEPT ![u] = n])
      BY <2>1 DEF TakePart
    <3>2. CASE uat' = [uat EXCEPT ![u] = Gone]
      BY <2>t, <3>2
    <3>3. ASSUME NEW n \in utodo, uat' = [uat EXCEPT ![u] = n] PROVE uat'[t] \in utodo
      BY <2>t, <3>3
    <3>4. QED BY <3>1, <3>2, <3>3
  <2>3. QED BY <2>t, <2>2 DEF StoredNotTodo
<1>2. QED
  BY <1>1, UploadInvariance, ResumeInvariance, PTL DEF USpec, ResumeSkipsStored

-----------------------------------------------------------------------------
HIDE UploadAssumption DEF uvars, cvars, rvars, tvars, svars, fvars, histvars, Idle, Gone
USE DownloadAssumption DEF dvars, dmem, ddisk, dserver, dhistory, DIdle, DGone, None, Hole, Torn

\* The numbers of some parts.
Nos(P) == {r.no : r \in P}

(***************************************************************************)
(* Versions only grow, and so do sizes unless the object ever shrank; what *)
(* the record and the list say is of versions that there were.             *)
(***************************************************************************)
DownloadBounds ==
  /\ dloss \in 0..DLosses  /\ dleft <= dnet
  /\ \A r \in drecord.parts \union dlist : r.ver <= dver
  /\ dfirst # None => dfirst <= dver
  /\ ~dshrunk => \A u, v \in 0..dver : u <= v => dsizes[u] <= dsizes[v]
  /\ drecord.state = "none" => drecord = EmptyRecord
  /\ dresult # "none" => dpc = "done"
  /\ dpc = "name" => drecord = EmptyRecord /\ (dleft = 0 => dnet = 0)
  /\ dpc = "loop" => dleft > 0

\* Unless the object shrank, an object of one part has no record.
DownloadSizes ==
  /\ dpc \in {"load", "list", "run", "rename"} =>
       /\ dsize > 1
       /\ dshrunk \/ dsize <= dsizes[dver]
  /\ ~dshrunk /\ drecord.state # "none" => dsizes[dver] > 1 /\ dpc # "single"

(***************************************************************************)
(* While the threads run, a part is in one place: still to do, with one    *)
(* thread, or listed, as all parts of a record are that was read or        *)
(* replaced.  None is forgotten unless its outcome is a failure, and a     *)
(* part that failed is nowhere.                                            *)
(***************************************************************************)
RangesCovered ==
  /\ dpc \in {"list", "run"} /\ drecord.state = "whole" /\ ~dstale => drecord.parts \subseteq dlist
  /\ dpc = "list" => (dknown \/ dlist = {}) /\ ~dbad /\ dfirst = None
  /\ dpc = "load" => ~dbad /\ dfirst = None
  /\ dpc = "run" =>
       /\ dtodo \subseteq 1..dsize  /\ dtodo \intersect Nos(dlist) = {}
       /\ \A t \in 1..DThreads : dat[t] > 0 =>
            /\ dat[t] \notin dtodo  /\ dat[t] \notin Nos(dlist)  /\ dat[t] <= dsize
            /\ \A s \in 1..DThreads \ {t} : dat[s] # dat[t]
       /\ dtodo = {} \/ \E t \in 1..DThreads : dat[t] # DGone
       /\ ~dbad => \A p \in 1..dsize : p \in Nos(dlist) \/ p \in dtodo \/ \E t \in 1..DThreads : dat[t] = p
       /\ dbad => /\ dfirst # None
                  /\ \E p \in 1..dsize : p \notin Nos(dlist) \union dtodo /\ \A t \in 1..DThreads : dat[t] # p

(***************************************************************************)
(* Unless the object shrank: what is listed is written, nothing is written *)
(* beyond the size asked for, and the object the checksum is compared with *)
(* is no smaller.                                                          *)
(***************************************************************************)
RangesWritten ==
  /\ RecordedIsWritten
  /\ ~dshrunk =>
     /\ dpc \in {"list", "run", "rename"} /\ ~dstale => \A r \in dlist : dtemp[r.no] = r.ver
     /\ \A p \in 1..MostParts : dtemp[p] # Hole =>
          /\ p <= dsizes[dver]
          /\ dpc \in {"load", "list", "run", "rename"} => p <= dsize
     /\ dpc \in {"run", "rename"} /\ dfirst # None => dsize <= dsizes[dfirst]
  /\ dpc = "rename" =>
       /\ dfirst # None
       /\ dlist = {[no |-> p, ver |-> dfirst] : p \in 1..dsizes[dfirst]}

(***************************************************************************)
(* As long as the object is not replaced and no rename failed, the record  *)
(* is of its size and lacks a part.                                        *)
(***************************************************************************)
Lacks(P) == \E p \in 1..dsizes[0] : p \notin Nos(P)

RecordLacks ==
  dver = 0 /\ ~dunnamed =>
    /\ drecord.state = "whole" =>
         /\ drecord.size = dsizes[0]  /\ \A r \in drecord.parts : r.no <= dsizes[0]
         /\ dpc \in {"loop", "single", "load", "failed"} => Lacks(drecord.parts)
         /\ dpc \in {"list", "run"} => drecord.parts \subseteq dlist \/ Lacks(drecord.parts)
    /\ dpc \in {"load", "list", "run", "rename"} => dsize = dsizes[0]
    /\ dpc \in {"list", "run"} => \A r \in dlist : r.no <= dsizes[0]
    /\ dpc = "list" \/ (dpc = "run" /\ dfirst = None) => Lacks(dlist)
    /\ dpc # "crashed"

(***************************************************************************)
(* The failures and twice the replacements, less the attempts begun.       *)
(***************************************************************************)
Spare == dloss + 2 * dver - (dnet - dleft)

Pure(P) == \A r \in P : r.ver = dver /\ r.no <= dsizes[dver]
PureRecord == drecord.state = "whole" => Pure(drecord.parts)
FullRecord == /\ drecord.state = "whole"  /\ drecord.size = dsizes[dver]
              /\ 1..dsizes[dver] \subseteq Nos(drecord.parts)

PureRun == /\ Pure(dlist)  /\ PureRecord  /\ dfirst \in {None, dver}
           /\ (Spare = -1 => ~dbad)
FullRun == FullRecord /\ dfirst = None /\ 1..dsize \subseteq Nos(dlist)
MixedRun == /\ Spare = 0  /\ ~dbad  /\ drecord.state = "whole"  /\ drecord.size = dsize
            /\ dfirst # None => drecord.parts = dlist

AttemptsPaid ==
  /\ dpc \in {"name", "loop", "failed"} => Spare >= 0
  /\ dpc \in {"loop", "failed"} /\ Spare = 0 => PureRecord \/ FullRecord \/ dsizes[dver] = 1
  /\ dpc \in {"single", "load", "list", "run", "rename"} => Spare >= -1
  /\ dpc = "single" /\ Spare = -1 => PureRecord \/ FullRecord \/ dsizes[dver] = 1
  /\ dpc \in {"load", "list", "run"} /\ Spare <= 0 => dsize = dsizes[dver]
  /\ dpc = "load" /\ Spare = -1 => PureRecord \/ FullRecord
  /\ dpc \in {"list", "run"} /\ Spare <= 0 => PureRun \/ FullRun \/ MixedRun
  /\ dpc = "rename" /\ Spare = -1 => PureRecord
  /\ MissHasCause

DownloadInv ==
  /\ DownloadTypeOK  /\ DownloadBounds  /\ DownloadSizes  /\ RangesCovered
  /\ RangesWritten  /\ FileIsObject  /\ RecordLacks  /\ AttemptsPaid

-----------------------------------------------------------------------------
LEMMA SizesAreBounded == MostParts \in DSizes /\ \A n \in DSizes : n \in Nat /\ n > 0 /\ n <= MostParts
<1>1. \E n \in DSizes : \A k \in DSizes : k <= n
  OBVIOUS
<1>2. MostParts \in DSizes /\ \A k \in DSizes : k <= MostParts
  BY <1>1 DEF MostParts
<1>3. QED BY <1>2

\* The types in the form the steps below need them.
LEMMA DownloadFacts ==
  ASSUME DownloadTypeOK
  PROVE  /\ MostParts \in Nat  /\ dnet \in Nat  /\ dleft \in Nat
         /\ dver \in Nat  /\ dver <= DReplaces  /\ dsizes \in [0..DReplaces -> DSizes]
         /\ \A v \in 0..DReplaces : dsizes[v] \in DSizes /\ dsizes[v] \in Nat /\ dsizes[v] > 0 /\ dsizes[v] <= MostParts
         /\ dsize \in Nat  /\ dsize <= MostParts
         /\ \A r \in dlist \union drecord.parts :
              /\ r.no \in 1..MostParts  /\ r.ver \in 0..DReplaces  /\ r = [no |-> r.no, ver |-> r.ver]
         /\ \A t \in 1..DThreads : dat[t] \in DGone..MostParts
         /\ dfirst = None \/ dfirst \in 0..DReplaces
         /\ drecord = [state |-> drecord.state, size |-> drecord.size, parts |-> drecord.parts]
         /\ drecord.size \in Nat
<1> USE DEF DownloadTypeOK
<1>1. MostParts \in Nat /\ dnet \in Nat /\ dleft \in Nat
  <2>1. dnet \in DNetRetries /\ dleft \in Nat
    OBVIOUS
  <2> HIDE DEF DownloadTypeOK
  <2>2. QED BY <2>1, SizesAreBounded
<1>2. dver \in Nat /\ dver <= DReplaces /\ dsizes \in [0..DReplaces -> DSizes]
  BY DEF Versions
<1>3. \A v \in 0..DReplaces : dsizes[v] \in DSizes /\ dsizes[v] \in Nat /\ dsizes[v] > 0 /\ dsizes[v] <= MostParts
  BY <1>2, SizesAreBounded
<1>4. dsize \in Nat /\ dsize <= MostParts
  BY SizesAreBounded
<1>5. drecord.parts \subseteq Ranges /\ dlist \subseteq Ranges
  OBVIOUS
<1>6. \A r \in dlist \union drecord.parts :
              /\ r.no \in 1..MostParts  /\ r.ver \in 0..DReplaces  /\ r = [no |-> r.no, ver |-> r.ver]
  BY <1>5 DEF Ranges, Versions
<1>7. \A t \in 1..DThreads : dat[t] \in DGone..MostParts
  OBVIOUS
<1>8. dfirst = None \/ dfirst \in 0..DReplaces
  BY DEF Versions
<1>9. drecord = [state |-> drecord.state, size |-> drecord.size, parts |-> drecord.parts]
  OBVIOUS
<1>10. drecord.size \in {0} \union DSizes
  OBVIOUS
<1> HIDE DEF DownloadTypeOK
<1>11. QED BY <1>1, <1>2, <1>3, <1>4, <1>6, <1>7, <1>8, <1>9, <1>10, SizesAreBounded

LEMMA DownloadTypeInitial == DInit => DownloadTypeOK
<1> SUFFICES ASSUME DInit PROVE DownloadTypeOK
    OBVIOUS
<1> USE DEF DInit
<1>1. EmptyRecord \in [state : {"none", "whole", "cut"}, size : {0} \union DSizes, parts : SUBSET Ranges]
  BY DEF EmptyRecord
<1>2. NoFile \in [1..MostParts -> Contents]
  BY DEF NoFile, Contents
<1>3. dnet \in DNetRetries /\ dleft \in Nat
  OBVIOUS
<1>4. dver \in Versions /\ dsizes \in [Versions -> DSizes]
  BY DEF Versions
<1>5. dat \in [1..DThreads -> DGone..MostParts]
  BY SizesAreBounded
<1>6. QED BY <1>1, <1>2, <1>3, <1>4, <1>5 DEF DownloadTypeOK

(***************************************************************************)
(* The types are kept.                                                     *)
(***************************************************************************)
LEMMA DownloadTypeStep == DownloadTypeOK /\ [DNext]_dvars => DownloadTypeOK'
<1> SUFFICES ASSUME DownloadTypeOK, [DNext]_dvars PROVE DownloadTypeOK'
    OBVIOUS
<1> USE DEF DownloadTypeOK
<1>0. /\ EmptyRecord \in [state : {"none", "whole", "cut"}, size : {0} \union DSizes, parts : SUBSET Ranges]
      /\ NoFile \in [1..MostParts -> Contents]
      /\ \A v \in Versions : Whole(v) \in [1..MostParts -> Contents]
      /\ dsizes[dver] \in DSizes /\ MostParts \in Nat
  <2>1. \A v \in Versions : Whole(v) \in [1..MostParts -> Contents]
    BY DEF Whole, Contents
  <2>2. QED BY <2>1, SizesAreBounded DEF EmptyRecord, NoFile, Contents
<1>1. CASE DownloadNothing
  BY <1>1 DEF DownloadNothing
<1>2. CASE ListLeft
  <2>1. dtodo' \subseteq 1..MostParts
    BY <1>2, DownloadFacts, SMTT(60) DEF ListLeft
  <2>2. dat' \in [1..DThreads -> DGone..MostParts]
    BY <1>0, <1>2 DEF ListLeft
  <2>3. /\ dpc' = "run"
        /\ UNCHANGED <<dnet, dleft, dresult, dknown, dsize, dlist, dbad, dfirst, drecord, dtemp, dfile,
                       dver, dsizes, dshrunk, dunnamed, dstale>>
    BY <1>2, Zenon DEF ListLeft
  <2>4. QED BY <2>1, <2>2, <2>3
<1>3. CASE CheckSum
  BY <1>3 DEF CheckSum, JoinRanges
<1>4. CASE DownloadFailed
  BY <1>4 DEF DownloadFailed
<1>5. ASSUME NEW ok \in BOOLEAN, AskName(ok) PROVE DownloadTypeOK'
  <2>1. dleft' \in Nat
    BY <1>5 DEF AskName
  <2>2. QED BY <1>5, <2>1 DEF AskName
<1>6. ASSUME NEW ok \in BOOLEAN, DownloadAttempt(ok) PROVE DownloadTypeOK'
  <2>1. dleft' \in Nat /\ dsize' \in {0} \union DSizes
    BY <1>0, <1>6 DEF DownloadAttempt
  <2>2. QED BY <1>6, <2>1 DEF DownloadAttempt
<1>7. ASSUME NEW seen \in BOOLEAN, NEW w \in Written, LoadParts(seen, w) PROVE DownloadTypeOK'
  <2>1. drecord' \in [state : {"none", "whole", "cut"}, size : {0} \union DSizes, parts : SUBSET Ranges]
    BY <1>7 DEF LoadParts, Written
  <2>2. dlist' \subseteq Ranges
    BY <1>7 DEF LoadParts
  <2>3. /\ dstale' \in BOOLEAN /\ dpc' = "list" /\ dknown' \in BOOLEAN
        /\ UNCHANGED <<dnet, dleft, dresult, dsize, dtodo, dat, dbad, dfirst, dtemp, dfile, dserver, dunnamed>>
    BY <1>7 DEF LoadParts
  <2>4. QED BY <2>1, <2>2, <2>3
<1>8. ASSUME NEW ok \in BOOLEAN, NoOutcome(ok) PROVE DownloadTypeOK'
  BY <1>8 DEF NoOutcome
<1>9. ASSUME NEW ok \in BOOLEAN, RenameTemp(ok) PROVE DownloadTypeOK'
  BY <1>0, <1>9 DEF RenameTemp
<1>10. ASSUME NEW ok \in BOOLEAN, NEW torn \in BOOLEAN, GetWhole(ok, torn) PROVE DownloadTypeOK'
  <2>1. [NoFile EXCEPT ![1] = Torn] \in [1..MostParts -> Contents]
    BY <1>0 DEF Contents
  <2>2. QED BY <1>0, <1>10, <2>1 DEF GetWhole
<1>11. ASSUME NEW t \in 1..DThreads, NEW w \in Written, GetRange(t, w) PROVE DownloadTypeOK'
  <2>1. dat[t] \in 1..MostParts
    BY <1>0, <1>11 DEF GetRange
  <2> DEFINE parts == dlist \union {[no |-> dat[t], ver |-> dver]}
  <2>2. parts \subseteq Ranges
    BY <2>1 DEF Ranges
  <2>3. drecord' \in [state : {"none", "whole", "cut"}, size : {0} \union DSizes, parts : SUBSET Ranges]
    BY <1>11, <2>2 DEF GetRange, Written
  <2>4. dtemp' \in [1..MostParts -> Contents]
    BY <1>11, <2>1 DEF GetRange, Contents
  <2>5. dat' \in [1..DThreads -> DGone..MostParts] /\ dfirst' \in Versions \union {None}
    BY <1>0, <1>11 DEF GetRange
  <2>6. dlist' \subseteq Ranges
    BY <1>11, <2>2 DEF GetRange
  <2>7. QED BY <1>11, <2>3, <2>4, <2>5, <2>6 DEF GetRange
<1>12. ASSUME NEW t \in 1..DThreads, NEW torn \in BOOLEAN, GetRangeFails(t, torn) PROVE DownloadTypeOK'
  <2>1. dtemp' \in [1..MostParts -> Contents]
    BY <1>12 DEF GetRangeFails, Contents
  <2>2. dat' \in [1..DThreads -> DGone..MostParts] /\ dfirst' \in Versions \union {None}
    BY <1>0, <1>12 DEF GetRangeFails
  <2>3. QED BY <1>12, <2>1, <2>2 DEF GetRangeFails
<1>13. ASSUME NEW t \in 1..DThreads, TakeRange(t) PROVE DownloadTypeOK'
  <2>1. dtodo' \subseteq 1..MostParts
    BY <1>13 DEF TakeRange
  <2>2. dat' \in [1..DThreads -> DGone..MostParts]
    <3>1. CASE dat' = [dat EXCEPT ![t] = DGone]
      BY <1>0, <3>1
    <3>2. ASSUME NEW p \in dtodo, dat' = [dat EXCEPT ![t] = p] PROVE dat' \in [1..DThreads -> DGone..MostParts]
      <4>1. p \in DGone..MostParts
        BY <1>0
      <4>2. QED BY <3>2, <4>1
    <3>3. QED BY <1>13, <3>1, <3>2 DEF TakeRange
  <2>3. UNCHANGED <<dnet, dleft, dpc, dresult, dknown, dsize, dlist, dbad, dfirst, ddisk, dserver, dhistory>>
    BY <1>13 DEF TakeRange
  <2>4. QED BY <2>1, <2>2, <2>3, SMTT(30)
<1>14. CASE Replace
  <2>1. dver' \in Versions
    BY <1>14 DEF Replace, Versions
  <2>2. QED BY <1>14, <2>1 DEF Replace
<1>15. CASE UNCHANGED dvars
  BY <1>15
<1>16. QED
  <2> HIDE DEF DownloadTypeOK
  <2> QED
    BY <1>1, <1>2, <1>3, <1>4, <1>5, <1>6, <1>7, <1>8, <1>9, <1>10, <1>11, <1>12, <1>13, <1>14, <1>15
       DEF DNext, DownloadRun

LEMMA DownloadBoundsStep == DownloadTypeOK /\ DownloadBounds /\ [DNext]_dvars => DownloadBounds'
<1> SUFFICES ASSUME DownloadTypeOK, DownloadBounds, [DNext]_dvars PROVE DownloadBounds'
    OBVIOUS
<1>t. /\ dnet \in Nat /\ dleft \in Nat /\ dver \in Nat /\ dver <= DReplaces
      /\ \A v \in 0..DReplaces : dsizes[v] \in Nat
      /\ dfirst = None \/ dfirst \in 0..DReplaces
      /\ drecord = [state |-> drecord.state, size |-> drecord.size, parts |-> drecord.parts]
  BY DownloadFacts
<1>s. ~dshrunk => \A u, v \in 0..dver : u <= v => dsizes[u] <= dsizes[v]
  BY DEF DownloadBounds
<1>e. EmptyRecord.parts = {} /\ EmptyRecord.state = "none"
  BY DEF EmptyRecord
<1> USE DEF DownloadBounds, Spend
<1>1. CASE DownloadNothing
  BY <1>1 DEF DownloadNothing
<1>2. CASE ListLeft
  BY <1>2 DEF ListLeft
<1>3. CASE CheckSum
  BY <1>3 DEF CheckSum, JoinRanges
<1>4. CASE DownloadFailed
  BY <1>t, <1>4 DEF DownloadFailed
<1>5. ASSUME NEW ok \in BOOLEAN, AskName(ok) PROVE DownloadBounds'
  BY <1>t, <1>5 DEF AskName
<1>6. ASSUME NEW ok \in BOOLEAN, DownloadAttempt(ok) PROVE DownloadBounds'
  BY <1>t, <1>6 DEF DownloadAttempt
<1>7. ASSUME NEW seen \in BOOLEAN, NEW w \in Written, LoadParts(seen, w) PROVE DownloadBounds'
  <2>1. \A r \in drecord'.parts \union dlist' : r.ver <= dver
    BY <1>7 DEF LoadParts
  <2>2. drecord'.state = "none" => drecord' = EmptyRecord
    BY <1>7 DEF LoadParts, Written
  <2>3. dloss' \in 0..DLosses
    BY <1>7 DEF LoadParts, Cost
  <2>4. dpc' = "list" /\ UNCHANGED <<dnet, dleft, dresult, dfirst, dserver>>
    BY <1>7 DEF LoadParts
  <2>5. QED BY <1>7, <2>1, <2>2, <2>3, <2>4 DEF LoadParts
<1>8. ASSUME NEW ok \in BOOLEAN, NoOutcome(ok) PROVE DownloadBounds'
  BY <1>8 DEF NoOutcome
<1>9. ASSUME NEW ok \in BOOLEAN, RenameTemp(ok) PROVE DownloadBounds'
  BY <1>e, <1>9 DEF RenameTemp
<1>10. ASSUME NEW ok \in BOOLEAN, NEW torn \in BOOLEAN, GetWhole(ok, torn) PROVE DownloadBounds'
  BY <1>10 DEF GetWhole
<1>11. ASSUME NEW t \in 1..DThreads, NEW w \in Written, GetRange(t, w) PROVE DownloadBounds'
  <2> DEFINE parts == dlist \union {[no |-> dat[t], ver |-> dver]}
  <2>1. dlist' = parts /\ (drecord' = drecord \/ (drecord'.parts = parts /\ drecord'.state # "none"))
    BY <1>t, <1>11 DEF GetRange, Written
  <2>2. \A r \in parts : r.ver <= dver
    BY <1>t
  <2>3. \A r \in drecord'.parts \union dlist' : r.ver <= dver
    BY <2>1, <2>2
  <2>4. dloss' \in 0..DLosses /\ (dfirst' # None => dfirst' <= dver)
    BY <1>t, <1>11 DEF GetRange
  <2>5. dpc = "run" /\ UNCHANGED <<dnet, dleft, dpc, dresult, dserver>>
    BY <1>11 DEF GetRange
  <2>6. drecord'.state = "none" => drecord' = EmptyRecord
    BY <2>1
  <2>7. dleft <= dnet /\ dresult = "none"
    BY <2>5
  <2> HIDE DEF parts
  <2>8. QED BY <1>s, <2>3, <2>4, <2>5, <2>6, <2>7
<1>12. ASSUME NEW t \in 1..DThreads, NEW torn \in BOOLEAN, GetRangeFails(t, torn) PROVE DownloadBounds'
  BY <1>t, <1>12 DEF GetRangeFails
<1>13. ASSUME NEW t \in 1..DThreads, TakeRange(t) PROVE DownloadBounds'
  BY <1>13 DEF TakeRange
<1>14. CASE Replace
  <2>1. dver' = dver + 1 /\ dsizes' = dsizes /\ dver + 1 <= DReplaces
    BY <1>t, <1>14 DEF Replace
  <2>2. ~dshrunk' => \A u, v \in 0..dver + 1 : u <= v => dsizes[u] <= dsizes[v]
    <3> SUFFICES ASSUME ~dshrunk', NEW u \in 0..dver + 1, NEW v \in 0..dver + 1, u <= v
                 PROVE  dsizes[u] <= dsizes[v]
        OBVIOUS
    <3>0. dsizes[dver] \in Nat /\ dsizes[dver + 1] \in Nat
      BY <1>t, <2>1
    <3>1. ~dshrunk /\ dsizes[dver] <= dsizes[dver + 1]
      <4>1. (dsizes[dver + 1] < dsizes[dver] => dshrunk') /\ (dshrunk => dshrunk')
        BY <1>14, Zenon DEF Replace
      <4>2. QED BY <3>0, <4>1
    <3>2. CASE v <= dver
      BY <1>t, <3>1, <3>2
    <3>3. CASE v = dver + 1 /\ u <= dver
      BY <1>t, <2>1, <3>1, <3>3
    <3>4. CASE u = dver + 1 /\ v = dver + 1
      BY <1>t, <2>1, <3>4
    <3>5. QED BY <1>t, <3>2, <3>3, <3>4
  <2>3. \A r \in drecord.parts \union dlist : r.ver <= dver + 1
    <3>1. \A r \in drecord.parts \union dlist : r.ver \in Nat /\ r.ver <= dver
      BY DownloadFacts
    <3>2. QED BY <1>t, <3>1
  <2>4. dfirst # None => dfirst <= dver + 1
    BY <1>t
  <2>5. dpc # "done" /\ UNCHANGED <<dnet, dleft, dpc, dresult, dmem, ddisk, dsizes, dloss>>
    BY <1>14 DEF Replace
  <2>6. QED BY <1>t, <2>1, <2>2, <2>3, <2>4, <2>5
<1>15. CASE UNCHANGED dvars
  BY <1>15
<1>16. QED
  <2> HIDE DEF DownloadBounds
  <2> QED
    BY <1>1, <1>2, <1>3, <1>4, <1>5, <1>6, <1>7, <1>8, <1>9, <1>10, <1>11, <1>12, <1>13, <1>14, <1>15
       DEF DNext, DownloadRun

LEMMA DownloadSizesStep ==
  DownloadTypeOK /\ DownloadBounds /\ DownloadSizes /\ [DNext]_dvars => DownloadSizes'
<1> SUFFICES ASSUME DownloadTypeOK, DownloadBounds, DownloadSizes, [DNext]_dvars PROVE DownloadSizes'
    OBVIOUS
<1>t. /\ dver \in Nat /\ dver <= DReplaces /\ dsize \in Nat
      /\ \A v \in 0..DReplaces : dsizes[v] \in Nat /\ dsizes[v] > 0
      /\ drecord = [state |-> drecord.state, size |-> drecord.size, parts |-> drecord.parts]
  BY DownloadFacts
<1> USE DEF DownloadSizes
<1>1. CASE DownloadNothing
  BY <1>1 DEF DownloadNothing
<1>2. CASE ListLeft
  BY <1>2 DEF ListLeft
<1>3. CASE CheckSum
  BY <1>3 DEF CheckSum, JoinRanges
<1>4. CASE DownloadFailed
  BY <1>4 DEF DownloadFailed
<1>5. ASSUME NEW ok \in BOOLEAN, AskName(ok) PROVE DownloadSizes'
  BY <1>5 DEF AskName
<1>6. ASSUME NEW ok \in BOOLEAN, DownloadAttempt(ok) PROVE DownloadSizes'
  BY <1>t, <1>6 DEF DownloadAttempt
<1>7. ASSUME NEW seen \in BOOLEAN, NEW w \in Written, LoadParts(seen, w) PROVE DownloadSizes'
  <2>1. dpc = "load" /\ dpc' = "list" /\ UNCHANGED <<dsize, dserver>>
    BY <1>7 DEF LoadParts
  <2>2. ~dshrunk => dsizes[dver] > 1
    BY <1>t, <2>1
  <2>3. QED BY <2>1, <2>2
<1>8. ASSUME NEW ok \in BOOLEAN, NoOutcome(ok) PROVE DownloadSizes'
  BY <1>8 DEF NoOutcome
<1>9. ASSUME NEW ok \in BOOLEAN, RenameTemp(ok) PROVE DownloadSizes'
  BY <1>9 DEF RenameTemp, EmptyRecord
<1>10. ASSUME NEW ok \in BOOLEAN, NEW torn \in BOOLEAN, GetWhole(ok, torn) PROVE DownloadSizes'
  BY <1>10 DEF GetWhole
<1>11. ASSUME NEW t \in 1..DThreads, NEW w \in Written, GetRange(t, w) PROVE DownloadSizes'
  <2>1. dpc = "run" /\ dpc' = "run" /\ UNCHANGED <<dsize, dserver>>
    BY <1>11 DEF GetRange
  <2>2. ~dshrunk => dsizes[dver] > 1
    BY <1>t, <2>1
  <2>3. QED BY <2>1, <2>2
<1>12. ASSUME NEW t \in 1..DThreads, NEW torn \in BOOLEAN, GetRangeFails(t, torn) PROVE DownloadSizes'
  BY <1>12 DEF GetRangeFails
<1>13. ASSUME NEW t \in 1..DThreads, TakeRange(t) PROVE DownloadSizes'
  BY <1>13 DEF TakeRange
<1>14. CASE Replace
  <2>1. /\ dver' = dver + 1 /\ dsizes' = dsizes /\ dver + 1 <= DReplaces
        /\ UNCHANGED <<dpc, dsize, drecord>>
    BY <1>t, <1>14 DEF Replace
  <2>2. (dshrunk => dshrunk') /\ (dsizes[dver + 1] < dsizes[dver] => dshrunk')
    BY <1>14, Zenon DEF Replace
  <2>4. dsizes[dver] \in Nat /\ dsizes[dver'] \in Nat
    BY <1>t, <2>1
  <2>3. ~dshrunk' => dsizes[dver] <= dsizes[dver']
    BY <2>1, <2>2, <2>4
  <2>5. dshrunk' \/ (dpc \in {"load", "list", "run", "rename"} => dsize <= dsizes[dver'])
    BY <1>t, <2>2, <2>3, <2>4
  <2>6. ~dshrunk' /\ drecord.state # "none" => dsizes[dver'] > 1 /\ dpc # "single"
    BY <2>2, <2>3, <2>4
  <2>7. QED BY <2>1, <2>2, <2>5, <2>6
<1>15. CASE UNCHANGED dvars
  BY <1>15
<1>16. QED
  <2> HIDE DEF DownloadSizes
  <2> QED
    BY <1>1, <1>2, <1>3, <1>4, <1>5, <1>6, <1>7, <1>8, <1>9, <1>10, <1>11, <1>12, <1>13, <1>14, <1>15
       DEF DNext, DownloadRun

LEMMA NosOfMore == \A P : \A n, v : Nos(P \union {[no |-> n, ver |-> v]}) = Nos(P) \union {n}
<1> SUFFICES ASSUME NEW P, NEW n, NEW v
             PROVE  Nos(P \union {[no |-> n, ver |-> v]}) = Nos(P) \union {n}
    OBVIOUS
<1>1. [no |-> n, ver |-> v].no = n
  OBVIOUS
<1>2. \A x : x \in Nos(P \union {[no |-> n, ver |-> v]}) <=> x \in Nos(P) \union {n}
  BY <1>1, Zenon DEF Nos
<1>3. QED BY <1>2

(***************************************************************************)
(* Threads take, list and lose parts, but never the same twice.            *)
(***************************************************************************)
LEMMA RangesCoveredStep ==
  ASSUME DownloadTypeOK, RangesCovered, [DNext]_dvars
  PROVE  RangesCovered'
<1>t. /\ dsize \in Nat /\ MostParts \in Nat
      /\ \A t \in 1..DThreads : dat[t] \in DGone..MostParts
      /\ dat \in [1..DThreads -> DGone..MostParts]
      /\ drecord = [state |-> drecord.state, size |-> drecord.size, parts |-> drecord.parts]
      /\ dver \in Nat
  BY DownloadFacts DEF DownloadTypeOK
<1>b. dbad \in BOOLEAN
  BY DEF DownloadTypeOK
<1>1. CASE dpc' \notin {"load", "list", "run"}
  BY <1>1 DEF RangesCovered
<1>2. ASSUME NEW ok \in BOOLEAN, DownloadAttempt(ok) PROVE RangesCovered'
  BY <1>2 DEF DownloadAttempt, RangesCovered
<1>3. ASSUME NEW seen \in BOOLEAN, NEW w \in Written, LoadParts(seen, w) PROVE RangesCovered'
  <2>1. /\ drecord'.state = "whole" /\ ~dstale' => drecord'.parts \subseteq dlist'
        /\ dknown' \/ dlist' = {}
    BY <1>3 DEF LoadParts
  <2>2. dpc' = "list" /\ ~dbad' /\ dfirst' = None
    BY <1>3 DEF LoadParts, RangesCovered
  <2>3. QED BY <2>1, <2>2 DEF RangesCovered
<1>4. CASE ListLeft
  <2>1. dtodo' = (1..dsize) \ Nos(dlist)
    <3>1. dknown \/ dlist = {}
      BY <1>4 DEF ListLeft, RangesCovered
    <3>2. QED BY <1>4, <3>1 DEF ListLeft, Nos
  <2>2. /\ dpc' = "run" /\ UNCHANGED <<dsize, dlist, dbad, dfirst, drecord, dstale>> /\ ~dbad
        /\ drecord.state = "whole" /\ ~dstale => drecord.parts \subseteq dlist
    BY <1>4 DEF ListLeft, RangesCovered
  <2>3. \A t \in 1..DThreads : dat'[t] = 0
    BY <1>4 DEF ListLeft
  <2>4. 1 \in 1..DThreads
    OBVIOUS
  <2>5. dtodo' = {} \/ \E t \in 1..DThreads : dat'[t] # DGone
    BY <2>3, <2>4
  <2>6. \A p \in 1..dsize : p \in Nos(dlist) \/ p \in dtodo'
    BY <2>1
  <2>7. QED BY <2>1, <2>2, <2>3, <2>5, <2>6 DEF RangesCovered
<1>5. ASSUME NEW t \in 1..DThreads, TakeRange(t) PROVE RangesCovered'
  <2>0. /\ dpc = "run" /\ dat[t] = DIdle
        /\ UNCHANGED <<dpc, dsize, dlist, dbad, dfirst, drecord, dstale>>
    BY <1>5 DEF TakeRange
  <2>1. CASE dtodo = {} /\ dat' = [dat EXCEPT ![t] = DGone] /\ dtodo' = dtodo
    <3>1. \A s \in 1..DThreads : dat'[s] = dat[s] \/ (s = t /\ dat'[s] = -1)
      BY <1>t, <2>1
    <3>2. \A s \in 1..DThreads : dat'[s] > 0 => dat'[s] = dat[s]
      BY <3>1
    <3>3. \A s \in 1..DThreads \ {t} : dat'[s] = dat[s]
      BY <1>t, <2>1
    <3>4. \A s \in 1..DThreads : dat'[s] > 0 =>
            /\ dat'[s] \notin dtodo'  /\ dat'[s] \notin Nos(dlist)  /\ dat'[s] <= dsize
            /\ \A u \in 1..DThreads \ {s} : dat'[u] # dat'[s]
      <4> SUFFICES ASSUME NEW s \in 1..DThreads, dat'[s] > 0
                   PROVE  /\ dat'[s] \notin dtodo'  /\ dat'[s] \notin Nos(dlist)  /\ dat'[s] <= dsize
                          /\ \A u \in 1..DThreads \ {s} : dat'[u] # dat'[s]
          OBVIOUS
      <4>1. dat'[s] = dat[s]
        BY <3>2
      <4>2. dat[s] \notin dtodo /\ dat[s] \notin Nos(dlist) /\ dat[s] <= dsize
        BY <2>0, <4>1 DEF RangesCovered
      <4>3. \A u \in 1..DThreads \ {s} : dat'[u] # dat'[s]
        <5>1. \A u \in 1..DThreads \ {s} : dat[u] # dat[s]
          BY <2>0, <4>1 DEF RangesCovered
        <5>2. QED BY <3>1, <4>1, <5>1
      <4>4. QED BY <2>1, <4>1, <4>2, <4>3
    <3>5. ~dbad => \A p \in 1..dsize : p \in Nos(dlist) \/ p \in dtodo \/ \E s \in 1..DThreads : dat'[s] = p
      <4> SUFFICES ASSUME ~dbad, NEW p \in 1..dsize, p \notin Nos(dlist), p \notin dtodo
                   PROVE  \E s \in 1..DThreads : dat'[s] = p
          OBVIOUS
      <4>1. PICK s \in 1..DThreads : dat[s] = p
        BY <2>0 DEF RangesCovered
      <4>2. s # t
        BY <2>0, <4>1
      <4>3. QED BY <3>3, <4>1, <4>2
    <3>6. dbad => /\ dfirst # None
                  /\ \E p \in 1..dsize : p \notin Nos(dlist) \union dtodo /\ \A s \in 1..DThreads : dat'[s] # p
      <4> SUFFICES ASSUME dbad
                   PROVE  /\ dfirst # None
                          /\ \E p \in 1..dsize : p \notin Nos(dlist) \union dtodo /\ \A s \in 1..DThreads : dat'[s] # p
          OBVIOUS
      <4>1. PICK p \in 1..dsize : p \notin Nos(dlist) \union dtodo /\ \A s \in 1..DThreads : dat[s] # p
        BY <2>0 DEF RangesCovered
      <4>2. \A s \in 1..DThreads : dat'[s] # p
        BY <3>1, <4>1
      <4>3. QED BY <2>0, <4>1, <4>2 DEF RangesCovered
    <3>7. /\ drecord.state = "whole" /\ ~dstale => drecord.parts \subseteq dlist
          /\ dtodo \subseteq 1..dsize /\ dtodo \intersect Nos(dlist) = {}
      BY <2>0 DEF RangesCovered
    <3>8. QED BY <2>0, <2>1, <3>4, <3>5, <3>6, <3>7 DEF RangesCovered
  <2>2. ASSUME NEW n \in dtodo, dat' = [dat EXCEPT ![t] = n], dtodo' = dtodo \ {n} PROVE RangesCovered'
    <3>0. /\ drecord.state = "whole" /\ ~dstale => drecord.parts \subseteq dlist
          /\ dtodo \subseteq 1..dsize /\ dtodo \intersect Nos(dlist) = {}
      BY <2>0 DEF RangesCovered
    <3>1. n \in 1..dsize /\ n \notin Nos(dlist) /\ n > 0 /\ n <= dsize
      BY <1>t, <3>0
    <3>2. dat'[t] = n /\ \A s \in 1..DThreads \ {t} : dat'[s] = dat[s]
      BY <1>t, <2>2
    <3>3. \A s \in 1..DThreads : dat[s] # n
      <4> SUFFICES ASSUME NEW s \in 1..DThreads, dat[s] = n PROVE FALSE
          OBVIOUS
      <4>1. dat[s] > 0
        BY <3>1
      <4>2. QED BY <2>0, <4>1 DEF RangesCovered
    <3>4. \A s \in 1..DThreads : dat'[s] > 0 =>
            /\ dat'[s] \notin dtodo'  /\ dat'[s] \notin Nos(dlist)  /\ dat'[s] <= dsize
            /\ \A u \in 1..DThreads \ {s} : dat'[u] # dat'[s]
      <4> SUFFICES ASSUME NEW s \in 1..DThreads, dat'[s] > 0
                   PROVE  /\ dat'[s] \notin dtodo'  /\ dat'[s] \notin Nos(dlist)  /\ dat'[s] <= dsize
                          /\ \A u \in 1..DThreads \ {s} : dat'[u] # dat'[s]
          OBVIOUS
      <4>1. CASE s = t
        BY <2>2, <3>1, <3>2, <3>3, <4>1
      <4>2. CASE s # t
        <5>1. dat'[s] = dat[s] /\ dat[s] > 0
          BY <3>2, <4>2
        <5>2. /\ dat[s] \notin dtodo /\ dat[s] \notin Nos(dlist) /\ dat[s] <= dsize
              /\ \A u \in 1..DThreads \ {s} : dat[u] # dat[s]
          BY <2>0, <5>1 DEF RangesCovered
        <5>3. \A u \in 1..DThreads \ {s} : dat'[u] # dat[s]
          BY <3>2, <3>3, <5>2
        <5>4. QED BY <2>2, <5>1, <5>2, <5>3
      <4>3. QED BY <4>1, <4>2
    <3>5. ~dbad => \A p \in 1..dsize : p \in Nos(dlist) \/ p \in dtodo' \/ \E s \in 1..DThreads : dat'[s] = p
      <4> SUFFICES ASSUME ~dbad, NEW p \in 1..dsize, p \notin Nos(dlist), p \notin dtodo', p # n
                   PROVE  \E s \in 1..DThreads : dat'[s] = p
          BY <3>2
      <4>0. p \notin dtodo
        BY <2>2
      <4>1. PICK s \in 1..DThreads : dat[s] = p
        BY <2>0, <4>0 DEF RangesCovered
      <4>2. s # t
        BY <2>0, <4>1
      <4>3. QED BY <3>2, <4>1, <4>2
    <3>6. dbad => /\ dfirst # None
                  /\ \E p \in 1..dsize : p \notin Nos(dlist) \union dtodo' /\ \A s \in 1..DThreads : dat'[s] # p
      <4> SUFFICES ASSUME dbad
                   PROVE  /\ dfirst # None
                          /\ \E p \in 1..dsize : p \notin Nos(dlist) \union dtodo' /\ \A s \in 1..DThreads : dat'[s] # p
          OBVIOUS
      <4>1. PICK p \in 1..dsize : p \notin Nos(dlist) \union dtodo /\ \A s \in 1..DThreads : dat[s] # p
        BY <2>0 DEF RangesCovered
      <4>2. p # n /\ p \notin dtodo'
        BY <2>2, <4>1
      <4>3. \A s \in 1..DThreads : dat'[s] # p
        BY <3>2, <4>1, <4>2
      <4>4. QED BY <2>0, <4>1, <4>2, <4>3 DEF RangesCovered
    <3>7. dtodo' \subseteq 1..dsize /\ dtodo' \intersect Nos(dlist) = {} /\ dat'[t] # DGone
      BY <2>2, <3>0, <3>1, <3>2
    <3>8. QED BY <2>0, <3>0, <3>4, <3>5, <3>6, <3>7 DEF RangesCovered
  <2>3. QED BY <1>5, <2>1, <2>2 DEF TakeRange
<1>6. ASSUME NEW t \in 1..DThreads, NEW w \in Written, GetRange(t, w) PROVE RangesCovered'
  <2> DEFINE n == dat[t]
             parts == dlist \union {[no |-> n, ver |-> dver]}
  <2>0. /\ dpc = "run" /\ n > 0 /\ dlist' = parts /\ (drecord' = drecord \/ drecord'.parts = parts)
        /\ dat' = [dat EXCEPT ![t] = DIdle]
        /\ UNCHANGED <<dpc, dsize, dtodo, dbad, dstale>>
    BY <1>t, <1>6 DEF GetRange
  <2>1. Nos(dlist') = Nos(dlist) \union {n}
    BY <2>0, NosOfMore
  <2>2. dat'[t] = DIdle /\ \A s \in 1..DThreads \ {t} : dat'[s] = dat[s]
    BY <1>t, <2>0
  <2>3. n \notin dtodo /\ n <= dsize /\ \A s \in 1..DThreads \ {t} : dat[s] # n
    BY <2>0 DEF RangesCovered
  <2>4. \A s \in 1..DThreads : dat'[s] > 0 =>
          /\ dat'[s] \notin dtodo'  /\ dat'[s] \notin Nos(dlist')  /\ dat'[s] <= dsize
          /\ \A u \in 1..DThreads \ {s} : dat'[u] # dat'[s]
    <3> SUFFICES ASSUME NEW s \in 1..DThreads, dat'[s] > 0
                 PROVE  /\ dat'[s] \notin dtodo'  /\ dat'[s] \notin Nos(dlist')  /\ dat'[s] <= dsize
                        /\ \A u \in 1..DThreads \ {s} : dat'[u] # dat'[s]
        OBVIOUS
    <3>1. s # t /\ dat'[s] = dat[s] /\ dat[s] > 0
      BY <2>2
    <3>2. /\ dat[s] \notin dtodo /\ dat[s] \notin Nos(dlist) /\ dat[s] <= dsize
          /\ \A u \in 1..DThreads \ {s} : dat[u] # dat[s]
      BY <2>0, <3>1 DEF RangesCovered
    <3>3. dat[s] # n
      BY <2>3, <3>1
    <3>4. dat'[s] \notin dtodo' /\ dat'[s] \notin Nos(dlist') /\ dat'[s] <= dsize
      BY <2>0, <2>1, <3>1, <3>2, <3>3
    <3>5. \A u \in 1..DThreads \ {s} : dat'[u] # dat'[s]
      BY <2>2, <3>1, <3>2
    <3>6. QED BY <3>4, <3>5
  <2>5. ~dbad => \A p \in 1..dsize : p \in Nos(dlist') \/ p \in dtodo \/ \E s \in 1..DThreads : dat'[s] = p
    <3> SUFFICES ASSUME ~dbad, NEW p \in 1..dsize, p \notin Nos(dlist'), p \notin dtodo
                 PROVE  \E s \in 1..DThreads : dat'[s] = p
        OBVIOUS
    <3>1. p \notin Nos(dlist) /\ p # n
      BY <2>1
    <3>2. PICK s \in 1..DThreads : dat[s] = p
      BY <2>0, <3>1 DEF RangesCovered
    <3>3. QED BY <2>2, <3>1, <3>2
  <2>6. dbad => \E p \in 1..dsize : p \notin Nos(dlist') \union dtodo /\ \A s \in 1..DThreads : dat'[s] # p
    <3> SUFFICES ASSUME dbad
                 PROVE  \E p \in 1..dsize : p \notin Nos(dlist') \union dtodo /\ \A s \in 1..DThreads : dat'[s] # p
        OBVIOUS
    <3>1. PICK p \in 1..dsize : p \notin Nos(dlist) \union dtodo /\ \A s \in 1..DThreads : dat[s] # p
      BY <2>0 DEF RangesCovered
    <3>2. p \notin Nos(dlist') /\ \A s \in 1..DThreads : dat'[s] # p
      BY <2>1, <2>2, <3>1
    <3>3. QED BY <3>1, <3>2
  <2>7. dbad => dfirst' # None
    BY <1>t, <1>6, <2>0 DEF GetRange, RangesCovered
  <2>8. dtodo \subseteq 1..dsize /\ dtodo \intersect Nos(dlist') = {} /\ dat'[t] # DGone
    <3>1. dtodo \subseteq 1..dsize /\ dtodo \intersect Nos(dlist) = {}
      BY <2>0 DEF RangesCovered
    <3>2. QED BY <2>1, <2>2, <2>3, <3>1
  <2>r. drecord'.state = "whole" /\ ~dstale => drecord'.parts \subseteq dlist'
    BY <2>0 DEF RangesCovered
  <2> HIDE DEF n, parts
  <2>9. QED BY <2>0, <2>r, <2>4, <2>5, <2>6, <2>7, <2>8 DEF RangesCovered
<1>7. ASSUME NEW t \in 1..DThreads, NEW torn \in BOOLEAN, GetRangeFails(t, torn) PROVE RangesCovered'
  <2> DEFINE n == dat[t]
  <2>0. /\ dpc = "run" /\ n > 0 /\ dbad' /\ dfirst' # None
        /\ dat' = [dat EXCEPT ![t] = DIdle]
        /\ UNCHANGED <<dpc, dsize, dtodo, dlist, drecord, dstale>>
    BY <1>t, <1>7 DEF GetRangeFails
  <2>2. dat'[t] = DIdle /\ \A s \in 1..DThreads \ {t} : dat'[s] = dat[s]
    BY <1>t, <2>0
  <2>3. n \notin dtodo /\ n \notin Nos(dlist) /\ n \in 1..dsize /\ \A s \in 1..DThreads \ {t} : dat[s] # n
    <3>1. n \in Int /\ n > 0 /\ n <= dsize
      BY <1>t, <2>0 DEF RangesCovered
    <3>2. n \in 1..dsize
      BY <1>t, <3>1
    <3>3. QED BY <2>0, <3>2 DEF RangesCovered
  <2>4. \A s \in 1..DThreads : dat'[s] > 0 =>
          /\ dat'[s] \notin dtodo'  /\ dat'[s] \notin Nos(dlist')  /\ dat'[s] <= dsize
          /\ \A u \in 1..DThreads \ {s} : dat'[u] # dat'[s]
    <3> SUFFICES ASSUME NEW s \in 1..DThreads, dat'[s] > 0
                 PROVE  /\ dat'[s] \notin dtodo'  /\ dat'[s] \notin Nos(dlist')  /\ dat'[s] <= dsize
                        /\ \A u \in 1..DThreads \ {s} : dat'[u] # dat'[s]
        OBVIOUS
    <3>1. s # t /\ dat'[s] = dat[s] /\ dat[s] > 0
      BY <2>2
    <3>2. /\ dat[s] \notin dtodo /\ dat[s] \notin Nos(dlist) /\ dat[s] <= dsize
          /\ \A u \in 1..DThreads \ {s} : dat[u] # dat[s]
      BY <2>0, <3>1 DEF RangesCovered
    <3>4. QED BY <2>0, <2>2, <3>1, <3>2
  <2>5. \A s \in 1..DThreads : dat'[s] # n
    BY <2>0, <2>2, <2>3
  <2>6. /\ drecord.state = "whole" /\ ~dstale => drecord.parts \subseteq dlist
        /\ dtodo \subseteq 1..dsize /\ dtodo \intersect Nos(dlist) = {}
    BY <2>0 DEF RangesCovered
  <2> HIDE DEF n
  <2>7. \E p \in 1..dsize : p \notin Nos(dlist) \union dtodo /\ \A s \in 1..DThreads : dat'[s] # p
    BY <2>3, <2>5
  <2>8. dat'[t] # DGone
    BY <2>2
  <2>9. QED BY <2>0, <2>4, <2>6, <2>7, <2>8 DEF RangesCovered
<1>8. CASE Replace \/ UNCHANGED dvars
  <2>1. UNCHANGED <<dpc, dknown, dsize, dlist, dtodo, dat, dbad, dfirst, drecord, dstale>>
    BY <1>8 DEF Replace
  <2>2. QED BY <2>1 DEF RangesCovered
<1>9. QED
  <2>1. CASE DownloadNothing \/ CheckSum \/ DownloadFailed
    BY <1>1, <2>1 DEF DownloadNothing, CheckSum, JoinRanges, DownloadFailed
  <2>2. ASSUME NEW b \in BOOLEAN,
               AskName(b) \/ NoOutcome(b) \/ RenameTemp(b) \/ \E torn \in BOOLEAN : GetWhole(b, torn)
        PROVE  RangesCovered'
    BY <1>1, <2>2 DEF AskName, NoOutcome, RenameTemp, GetWhole
  <2>3. QED BY <1>2, <1>3, <1>4, <1>5, <1>6, <1>7, <1>8, <2>1, <2>2 DEF DNext, DownloadRun

(***************************************************************************)
(* What is listed stays written.                                           *)
(***************************************************************************)
LEMMA RangesWrittenStep ==
  ASSUME DownloadTypeOK, DownloadSizes, RangesCovered, RangesWritten, [DNext]_dvars
  PROVE  RangesWritten'
<1>t. /\ dver \in Nat /\ dver <= DReplaces /\ dsize \in Nat /\ MostParts \in Nat
      /\ \A v \in 0..DReplaces : dsizes[v] \in Nat
      /\ \A r \in dlist \union drecord.parts : r.no \in 1..MostParts
      /\ \A t \in 1..DThreads : dat[t] \in DGone..MostParts
      /\ dfirst = None \/ dfirst \in 0..DReplaces
      /\ drecord = [state |-> drecord.state, size |-> drecord.size, parts |-> drecord.parts]
      /\ dtemp \in [1..MostParts -> Contents]  /\ dsizes[dver] \in Nat
  BY DownloadFacts DEF DownloadTypeOK
<1>h. \A p \in 1..MostParts : NoFile[p] = Hole
  BY DEF NoFile
<1> USE DEF RangesWritten, RecordedIsWritten
<1>1. ASSUME UNCHANGED <<drecord, dtemp, dserver, dstale>>, dpc' \notin {"load", "list", "run", "rename"}
      PROVE  RangesWritten'
  BY <1>1
<1>2. ASSUME NEW ok \in BOOLEAN, DownloadAttempt(ok) PROVE RangesWritten'
  BY <1>2 DEF DownloadAttempt
<1>3. ASSUME NEW seen \in BOOLEAN, NEW w \in Written, LoadParts(seen, w) PROVE RangesWritten'
  <2>1. /\ dpc = "load" /\ dpc' = "list" /\ UNCHANGED <<dsize, dtemp, dserver>>
        /\ dlist' = {} \/ (drecord.state = "whole" /\ dlist' = drecord.parts)
        /\ drecord' = drecord \/ drecord'.parts = {}
        /\ dstale => dstale'
    BY <1>3 DEF LoadParts
  <2>2. QED BY <2>1
<1>4. CASE ListLeft
  <2>1. /\ dpc = "list" /\ dpc' = "run" /\ UNCHANGED <<dsize, dlist, dfirst, drecord, dtemp, dserver, dstale>>
        /\ dfirst = None
    BY <1>4 DEF ListLeft, RangesCovered
  <2>2. QED BY <2>1
<1>5. ASSUME NEW t \in 1..DThreads, TakeRange(t) PROVE RangesWritten'
  BY <1>5 DEF TakeRange
<1>6. ASSUME NEW t \in 1..DThreads, NEW w \in Written, GetRange(t, w) PROVE RangesWritten'
  <2> DEFINE n == dat[t]
             new == [no |-> n, ver |-> dver]
  <2>0. /\ dpc = "run" /\ dpc' = "run" /\ n > 0 /\ n <= dsizes[dver]
        /\ dlist' = dlist \union {new} /\ (drecord' = drecord \/ drecord'.parts = dlist')
        /\ dtemp' = [dtemp EXCEPT ![n] = dver]
        /\ dfirst' = dfirst \/ dfirst' = dver
        /\ UNCHANGED <<dsize, dserver, dstale>>
    BY <1>t, <1>6 DEF GetRange
  <2>1. n \in 1..MostParts /\ n <= dsize /\ n \notin Nos(dlist)
    BY <1>t, <2>0 DEF RangesCovered
  <2>2. dtemp'[n] = dver /\ \A p \in 1..MostParts : p # n => dtemp'[p] = dtemp[p]
    BY <1>t, <2>0, <2>1
  <2>3. ~dshrunk /\ ~dstale => \A r \in dlist' : dtemp'[r.no] = r.ver
    <3> SUFFICES ASSUME ~dshrunk, ~dstale, NEW r \in dlist' PROVE dtemp'[r.no] = r.ver
        OBVIOUS
    <3>1. CASE r \in dlist
      <4>1. r.no # n /\ r.no \in 1..MostParts
        BY <1>t, <2>1, <3>1 DEF Nos
      <4>2. QED BY <2>0, <2>2, <3>1, <4>1
    <3>2. CASE r = new
      BY <2>2, <3>2
    <3>3. QED BY <2>0, <3>1, <3>2
  <2>4. ~dshrunk => \A p \in 1..MostParts : dtemp'[p] # Hole => p <= dsizes[dver] /\ p <= dsize
    BY <2>0, <2>1, <2>2
  <2>5. ~dshrunk => dsize <= dsizes[dver]
    BY <2>0 DEF DownloadSizes
  <2>6. ~dshrunk /\ dfirst' # None => dsize <= dsizes[dfirst']
    BY <2>0, <2>5
  <2>r. drecord'.state = "whole" /\ ~dstale => drecord'.parts \subseteq dlist'
    BY <2>0 DEF RangesCovered
  <2> HIDE DEF n, new
  <2>7. dshrunk' = dshrunk /\ dstale' = dstale /\ dver' = dver /\ dsizes' = dsizes
    BY <2>0
  <2>8. QED BY <2>0, <2>r, <2>3, <2>4, <2>6, <2>7
<1>7. ASSUME NEW t \in 1..DThreads, NEW torn \in BOOLEAN, GetRangeFails(t, torn) PROVE RangesWritten'
  <2> DEFINE n == dat[t]
  <2>0. /\ dpc = "run" /\ dpc' = "run" /\ n > 0
        /\ dtemp' = [dtemp EXCEPT ![n] = Torn] \/ dtemp' = dtemp
        /\ dfirst' = dfirst \/ dfirst' = dver
        /\ UNCHANGED <<dsize, dlist, drecord, dserver, dstale>>
    BY <1>7 DEF GetRangeFails
  <2>1. /\ n \in 1..MostParts /\ n <= dsize /\ n \notin Nos(dlist)
        /\ drecord.state = "whole" /\ ~dstale => drecord.parts \subseteq dlist
    BY <1>t, <2>0 DEF RangesCovered
  <2>2. \A p \in 1..MostParts : p # n => dtemp'[p] = dtemp[p]
    BY <1>t, <2>0, <2>1
  <2>3. ~dshrunk /\ ~dstale => \A r \in dlist : dtemp'[r.no] = r.ver
    <3> SUFFICES ASSUME ~dshrunk, ~dstale, NEW r \in dlist PROVE dtemp'[r.no] = r.ver
        OBVIOUS
    <3>1. r.no # n /\ r.no \in 1..MostParts
      BY <1>t, <2>1 DEF Nos
    <3>2. QED BY <2>0, <2>2, <3>1
  <2>5. ~dshrunk => dsize <= dsizes[dver]
    BY <2>0 DEF DownloadSizes
  <2>6. ~dshrunk /\ dfirst' # None => dsize <= dsizes[dfirst']
    BY <2>0, <2>5
  <2>4. ~dshrunk => \A p \in 1..MostParts : dtemp'[p] # Hole => p <= dsizes[dver] /\ p <= dsize
    <3> SUFFICES ASSUME ~dshrunk, NEW p \in 1..MostParts, dtemp'[p] # Hole
                 PROVE  p <= dsizes[dver] /\ p <= dsize
        OBVIOUS
    <3>1. CASE p = n
      BY <1>t, <2>1, <2>5, <3>1
    <3>2. CASE p # n
      BY <2>0, <2>2, <3>2
    <3>3. QED BY <3>1, <3>2
  <2> HIDE DEF n
  <2>7. dshrunk' = dshrunk /\ dstale' = dstale /\ dver' = dver /\ dsizes' = dsizes
    BY <2>0
  <2>8. QED BY <2>0, <2>1, <2>3, <2>4, <2>6, <2>7
<1>8. CASE CheckSum
  <2>1. /\ dpc = "run" /\ UNCHANGED <<dsize, dlist, dfirst, drecord, dtemp, dserver, dstale>>
        /\ dpc' = "failed" \/ (dpc' = "rename" /\ ~dbad)
        /\ dbad \/ dfirst # None
        /\ dpc' = "rename" => dlist = {[no |-> p, ver |-> dfirst] : p \in 1..dsizes[dfirst]}
    BY <1>8 DEF CheckSum, JoinRanges
  <2>2. QED BY <2>1
<1>9. ASSUME NEW ok \in BOOLEAN, RenameTemp(ok) PROVE RangesWritten'
  BY <1>h, <1>9 DEF RenameTemp, EmptyRecord
<1>10. ASSUME NEW ok \in BOOLEAN, NEW torn \in BOOLEAN, GetWhole(ok, torn) PROVE RangesWritten'
  <2>1. ~dshrunk => drecord.state = "none"
    BY <1>10 DEF GetWhole, DownloadSizes
  <2>2. QED BY <1>h, <1>10, <2>1 DEF GetWhole
<1>11. CASE Replace
  <2>1. /\ dver' = dver + 1 /\ dsizes' = dsizes /\ dver + 1 <= DReplaces
        /\ UNCHANGED <<dpc, dsize, dlist, dfirst, drecord, dtemp, dstale>>
    BY <1>t, <1>11 DEF Replace
  <2>2. (dshrunk => dshrunk') /\ (dsizes[dver + 1] < dsizes[dver] => dshrunk')
    BY <1>11, Zenon DEF Replace
  <2>3. dsizes[dver'] \in Nat
    BY <1>t, <2>1
  <2>4. ~dshrunk' => ~dshrunk /\ dsizes[dver] <= dsizes[dver']
    BY <1>t, <2>1, <2>2, <2>3
  <2>5. ~dshrunk' => \A p \in 1..MostParts : dtemp[p] # Hole => p <= dsizes[dver']
    BY <1>t, <2>3, <2>4
  <2>6. QED BY <2>1, <2>4, <2>5
<1>12. CASE UNCHANGED dvars
  BY <1>12
<1>13. QED
  <2> HIDE DEF RangesWritten, RecordedIsWritten
  <2>1. CASE DownloadNothing \/ DownloadFailed
    BY <1>1, <2>1 DEF DownloadNothing, DownloadFailed
  <2>2. ASSUME NEW b \in BOOLEAN, AskName(b) \/ NoOutcome(b) PROVE RangesWritten'
    BY <1>1, <2>2 DEF AskName, NoOutcome
  <2>3. QED BY <1>2, <1>3, <1>4, <1>5, <1>6, <1>7, <1>8, <1>9, <1>10, <1>11, <1>12, <2>1, <2>2
            DEF DNext, DownloadRun

(***************************************************************************)
(* What is renamed is the object the checksum was compared with.           *)
(***************************************************************************)
LEMMA FileIsObjectStep ==
  ASSUME DownloadTypeOK, DownloadBounds, DownloadSizes, RangesWritten, FileIsObject, [DNext]_dvars
  PROVE  FileIsObject'
<1>t. /\ dver \in Nat /\ dver <= DReplaces /\ dsize \in Nat /\ MostParts \in Nat
      /\ \A v \in 0..DReplaces : dsizes[v] \in Nat /\ dsizes[v] <= MostParts
      /\ dfirst = None \/ dfirst \in 0..DReplaces
      /\ dtemp \in [1..MostParts -> Contents]
  BY DownloadFacts DEF DownloadTypeOK
<1>1. ASSUME NEW ok \in BOOLEAN, RenameTemp(ok) PROVE FileIsObject'
  <2>1. CASE ok /\ ~dshrunk /\ ~dstale
    <3>1. /\ dpc = "rename" /\ dfile' = dtemp /\ drecord' = EmptyRecord /\ UNCHANGED <<dnet, dfirst, dserver>>
      BY <1>1, <2>1 DEF RenameTemp
    <3>2. dfirst # None /\ dfirst \in 0..dver /\ dfirst \in 0..DReplaces
      BY <1>t, <3>1 DEF RangesWritten, DownloadBounds
    <3>3. dlist = {[no |-> p, ver |-> dfirst] : p \in 1..dsizes[dfirst]}
      BY <3>1 DEF RangesWritten
    <3>4. \A p \in 1..MostParts : p <= dsizes[dfirst] => dtemp[p] = dfirst
      <4> SUFFICES ASSUME NEW p \in 1..MostParts, p <= dsizes[dfirst] PROVE dtemp[p] = dfirst
          OBVIOUS
      <4>1. p \in 1..dsizes[dfirst]
        BY <1>t, <3>2
      <4>2. [no |-> p, ver |-> dfirst] \in dlist
        BY <3>3, <4>1
      <4>3. dtemp[[no |-> p, ver |-> dfirst].no] = [no |-> p, ver |-> dfirst].ver
        BY <2>1, <3>1, <4>2 DEF RangesWritten
      <4>4. QED BY <4>3
    <3>5. \A p \in 1..MostParts : ~(p <= dsizes[dfirst]) => dtemp[p] = Hole
      <4> SUFFICES ASSUME NEW p \in 1..MostParts, dtemp[p] # Hole PROVE p <= dsizes[dfirst]
          OBVIOUS
      <4>1. p <= dsize /\ dsize <= dsizes[dfirst]
        BY <2>1, <3>1, <3>2 DEF RangesWritten
      <4>2. QED BY <1>t, <3>2, <4>1
    <3>6. dtemp = Whole(dfirst)
      BY <1>t, <3>4, <3>5 DEF Whole
    <3>7. Whole(dfirst)' = Whole(dfirst)
      BY <3>1 DEF Whole
    <3>8. QED BY <3>1, <3>2, <3>6, <3>7 DEF FileIsObject, Whole
  <2>2. CASE dshrunk \/ dstale
    BY <1>1, <2>2 DEF RenameTemp, FileIsObject
  <2>3. CASE ~ok
    <3>1. dresult' = "none" \/ dpc = "done"
      BY <1>1, <2>3 DEF RenameTemp, DownloadBounds
    <3>2. QED BY <1>1, <3>1 DEF RenameTemp, FileIsObject
  <2>4. QED BY <2>1, <2>2, <2>3 DEF DownloadTypeOK
<1>2. ASSUME NEW ok \in BOOLEAN, NEW torn \in BOOLEAN, GetWhole(ok, torn) PROVE FileIsObject'
  <2>1. CASE ok /\ ~dshrunk /\ ~dstale
    <3>1. drecord = EmptyRecord
      BY <1>2, <2>1 DEF GetWhole, DownloadSizes, DownloadBounds
    <3>2. dfile' = Whole(dver) /\ UNCHANGED <<drecord, dver, dsizes>>
      BY <1>2, <2>1 DEF GetWhole
    <3>3. dver \in 0..dver
      BY <1>t
    <3>4. QED BY <3>1, <3>2, <3>3 DEF FileIsObject, Whole
  <2>2. CASE dshrunk \/ dstale
    BY <1>2, <2>2 DEF GetWhole, FileIsObject
  <2>3. CASE ~ok
    <3>1. dresult' = "none"
      BY <1>2, <2>3 DEF GetWhole, DownloadBounds
    <3>2. QED BY <3>1 DEF FileIsObject
  <2>4. QED BY <2>1, <2>2, <2>3 DEF DownloadTypeOK
<1>3. CASE DownloadNothing
  <2>1. dnet' = 0
    <3>1. dleft = 0 /\ dpc \in {"name", "loop"} /\ dnet' = dnet
      BY <1>3 DEF DownloadNothing
    <3>2. QED BY <3>1 DEF DownloadBounds
  <2>2. QED BY <2>1 DEF FileIsObject
<1>4. CASE UNCHANGED dvars
  BY <1>4 DEF FileIsObject, Whole
<1>5. ASSUME dresult' # "true" PROVE FileIsObject'
  BY <1>5 DEF FileIsObject
<1>6. QED
  <2>1. dpc # "done" => dresult = "none"
    BY DEF DownloadBounds
  <2>2. CASE ListLeft \/ CheckSum \/ DownloadFailed \/ Replace
    BY <1>5, <2>1, <2>2 DEF ListLeft, CheckSum, JoinRanges, DownloadFailed, Replace
  <2>3. ASSUME NEW b \in BOOLEAN,
               AskName(b) \/ DownloadAttempt(b) \/ NoOutcome(b) \/ \E w \in Written : LoadParts(b, w)
        PROVE  FileIsObject'
    BY <1>5, <2>1, <2>3 DEF AskName, DownloadAttempt, LoadParts, NoOutcome
  <2>4. ASSUME NEW b \in BOOLEAN, NEW t \in 1..DThreads,
               TakeRange(t) \/ GetRangeFails(t, b) \/ \E w \in Written : GetRange(t, w)
        PROVE  FileIsObject'
    BY <1>5, <2>1, <2>4 DEF GetRange, GetRangeFails, TakeRange
  <2>5. QED BY <1>1, <1>2, <1>3, <1>4, <2>2, <2>3, <2>4 DEF DNext, DownloadRun

\* With all threads gone and no failure, every part is listed.
LEMMA AllListed ==
  ASSUME DownloadTypeOK, RangesCovered, dpc = "run", \A t \in 1..DThreads : dat[t] = DGone
  PROVE  /\ dtodo = {}
         /\ ~dbad => 1..dsize \subseteq Nos(dlist)
         /\ dbad => \E p \in 1..dsize : p \notin Nos(dlist)
<1>1. dtodo = {}
  BY DEF RangesCovered
<1>2. \A p \in 1..dsize, t \in 1..DThreads : dat[t] # p
  BY DownloadFacts, SMTT(60)
<1>3. ~dbad => 1..dsize \subseteq Nos(dlist)
  BY <1>1, <1>2 DEF RangesCovered
<1>4. dbad => \E p \in 1..dsize : p \notin Nos(dlist)
  BY DEF RangesCovered
<1>5. QED BY <1>1, <1>3, <1>4

\* If the parts listed are all of one version and none is missing, the checksums agree.
LEMMA SameChecksum ==
  ASSUME DownloadTypeOK, NEW v \in 0..DReplaces, dfirst = v,
         \A r \in dlist : r.ver = v /\ r.no <= dsizes[v],
         1..dsizes[v] \subseteq Nos(dlist)
  PROVE  dlist = {[no |-> p, ver |-> dfirst] : p \in 1..dsizes[dfirst]}
<1>t. /\ \A r \in dlist : r.no \in 1..MostParts /\ r = [no |-> r.no, ver |-> r.ver]
      /\ dsizes[v] \in Nat /\ MostParts \in Nat
  BY DownloadFacts
<1>1. \A r \in dlist : r.no \in 1..dsizes[v] /\ r = [no |-> r.no, ver |-> v]
  BY <1>t
<1>2. \A p \in 1..dsizes[v] : [no |-> p, ver |-> v] \in dlist
  <2> SUFFICES ASSUME NEW p \in 1..dsizes[v] PROVE [no |-> p, ver |-> v] \in dlist
      OBVIOUS
  <2>1. PICK r \in dlist : r.no = p
    BY DEF Nos
  <2>2. QED BY <1>1, <2>1
<1>3. dlist = {[no |-> p, ver |-> v] : p \in 1..dsizes[v]}
  BY <1>1, <1>2
<1>4. QED BY <1>3

(***************************************************************************)
(* Without a replacement and a failed rename the record never covers the   *)
(* whole object, so that there is something to fetch.                      *)
(***************************************************************************)
LEMMA RecordLacksStep ==
  ASSUME DownloadTypeOK, DownloadBounds, DownloadSizes, RangesCovered, RecordLacks, [DNext]_dvars
  PROVE  RecordLacks'
<1>t. /\ dver \in Nat /\ dsize \in Nat /\ MostParts \in Nat
      /\ dsizes[0] \in Nat /\ dsizes[0] > 0  /\ (dfirst = None \/ dfirst \in 0..DReplaces)
      /\ \A r \in dlist \union drecord.parts : r.no \in 1..MostParts /\ r.ver \in 0..DReplaces
      /\ \A t \in 1..DThreads : dat[t] \in DGone..MostParts
      /\ drecord = [state |-> drecord.state, size |-> drecord.size, parts |-> drecord.parts]
  BY DownloadFacts
<1> SUFFICES ASSUME dver' = 0, ~dunnamed' PROVE RecordLacks'
    BY DEF RecordLacks
<1>d. ~dunnamed /\ dver = 0 /\ UNCHANGED <<dver, dsizes>>
  <2>1. CASE Replace
    BY <1>t, <2>1 DEF Replace
  <2>2. ASSUME NEW b \in BOOLEAN,
               \/ AskName(b) \/ DownloadAttempt(b) \/ NoOutcome(b)
               \/ \E w \in Written : LoadParts(b, w)
               \/ \E torn \in BOOLEAN : GetWhole(b, torn)
        PROVE  ~dunnamed /\ UNCHANGED <<dver, dsizes>>
    BY <2>2 DEF AskName, DownloadAttempt, LoadParts, NoOutcome, GetWhole
  <2>3. ASSUME NEW b \in BOOLEAN, NEW t \in 1..DThreads,
               (\E w \in Written : GetRange(t, w)) \/ GetRangeFails(t, b) \/ TakeRange(t)
        PROVE  ~dunnamed /\ UNCHANGED <<dver, dsizes>>
    <3>1. CASE \E w \in Written : GetRange(t, w)
      <4>1. PICK w \in Written : GetRange(t, w)
        BY <3>1
      <4>2. QED BY <4>1, Zenon DEF GetRange
    <3>2. CASE GetRangeFails(t, b)
      BY <3>2, Zenon DEF GetRangeFails
    <3>3. CASE TakeRange(t)
      BY <3>3, Zenon DEF TakeRange
    <3>4. QED BY <2>3, <3>1, <3>2, <3>3
  <2>6. ASSUME NEW b \in BOOLEAN, RenameTemp(b)
        PROVE  ~dunnamed /\ UNCHANGED <<dver, dsizes>>
    BY <2>6, Zenon DEF RenameTemp
  <2>4. CASE DownloadNothing \/ ListLeft \/ CheckSum \/ DownloadFailed \/ UNCHANGED dvars
    BY <2>4 DEF DownloadNothing, ListLeft, CheckSum, JoinRanges, DownloadFailed
  <2>5. QED BY <2>1, <2>2, <2>3, <2>4, <2>6 DEF DNext, DownloadRun
<1>l. \A P : Lacks(P)' <=> \E p \in 1..dsizes[0] : p \notin Nos(P')
  BY <1>d DEF Lacks, Nos
<1>e. \E p \in 1..dsizes[0] : p \notin Nos({})
  <2>1. 1 \in 1..dsizes[0]
    BY <1>t
  <2>2. Nos({}) = {}
    BY DEF Nos
  <2>3. QED BY <2>1, <2>2
<1> USE DEF RecordLacks, Lacks
<1>1. CASE DownloadNothing \/ DownloadFailed \/ UNCHANGED dvars
  BY <1>1, <1>d DEF DownloadNothing, DownloadFailed
<1>2. ASSUME NEW ok \in BOOLEAN, AskName(ok) PROVE RecordLacks'
  BY <1>2, <1>d DEF AskName, DownloadBounds, EmptyRecord
<1>3. ASSUME NEW ok \in BOOLEAN, DownloadAttempt(ok) PROVE RecordLacks'
  BY <1>3, <1>d DEF DownloadAttempt
<1>4. ASSUME NEW seen \in BOOLEAN, NEW w \in Written, LoadParts(seen, w) PROVE RecordLacks'
  <2>1. /\ dpc = "load" /\ dpc' = "list" /\ UNCHANGED <<dsize, dfirst>>
        /\ dlist' = {} \/ (drecord.state = "whole" /\ dlist' = drecord.parts)
        /\ drecord' = drecord \/ (drecord'.parts = {} /\ drecord'.size = dsize)
    BY <1>4 DEF LoadParts
  <2>2. \E p \in 1..dsizes[0] : p \notin Nos(dlist')
    BY <1>d, <1>e, <2>1
  <2>3. QED BY <1>d, <2>1, <2>2
<1>5. CASE ListLeft
  <2>1. dpc = "list" /\ dpc' = "run" /\ UNCHANGED <<dsize, dlist, dfirst, drecord>>
    BY <1>5 DEF ListLeft
  <2>2. QED BY <1>d, <2>1
<1>6. ASSUME NEW t \in 1..DThreads, TakeRange(t) PROVE RecordLacks'
  BY <1>6, <1>d DEF TakeRange
<1>7. ASSUME NEW t \in 1..DThreads, NEW w \in Written, GetRange(t, w) PROVE RecordLacks'
  <2> DEFINE new == [no |-> dat[t], ver |-> dver]
  <2>1. /\ dpc = "run" /\ dpc' = "run" /\ dat[t] <= dsizes[0]
        /\ dlist' = dlist \union {new} /\ dlist \subseteq dlist'
        /\ drecord' = drecord \/ (drecord'.parts = dlist' /\ drecord'.size = dsize)
        /\ dfirst' # None /\ UNCHANGED dsize
    BY <1>7, <1>d, <1>t DEF GetRange
  <2>2. \A r \in dlist' : r.no <= dsizes[0]
    BY <1>d, <2>1
  <2>3. dsize = dsizes[0]
    BY <1>d, <2>1
  <2> HIDE DEF new
  <2>4. QED BY <1>d, <2>1, <2>2, <2>3
<1>8. ASSUME NEW t \in 1..DThreads, NEW torn \in BOOLEAN, GetRangeFails(t, torn) PROVE RecordLacks'
  BY <1>8, <1>d, <1>t DEF GetRangeFails
<1>9. CASE CheckSum
  <2>1. /\ dpc = "run" /\ UNCHANGED <<dsize, dlist, dfirst, drecord>>
        /\ \A t \in 1..DThreads : dat[t] = DGone  /\ (dbad \/ dfirst # None)
        /\ dpc' \in {"failed", "rename"}
        /\ dpc' = "failed" =>
             dbad \/ dlist # {[no |-> p, ver |-> dfirst] : p \in 1..dsizes[dfirst]}
    BY <1>9 DEF CheckSum, JoinRanges
  <2>2. dsize = dsizes[0] /\ (drecord.state = "whole" => drecord.parts \subseteq dlist \/ Lacks(drecord.parts))
    BY <1>d, <2>1
  <2>3. CASE dbad
    <3>1. \E p \in 1..dsizes[0] : p \notin Nos(dlist)
      BY <2>1, <2>2, <2>3, AllListed
    <3>2. drecord.state = "whole" => \E p \in 1..dsizes[0] : p \notin Nos(drecord.parts)
      BY <2>2, <3>1 DEF Nos
    <3>3. QED BY <1>d, <2>1, <2>2, <3>2
  <2>4. CASE ~dbad
    <3>1. dfirst = 0
      BY <1>d, <1>t, <2>1, <2>4 DEF DownloadBounds
    <3>2. \A r \in dlist : r.ver = 0 /\ r.no <= dsizes[0]
      BY <1>d, <1>t, <2>1 DEF DownloadBounds
    <3>3. 1..dsizes[0] \subseteq Nos(dlist)
      BY <2>1, <2>2, <2>4, AllListed
    <3>4. dpc' = "rename"
      BY <2>1, <2>4, <3>1, <3>2, <3>3, SameChecksum
    <3>5. QED BY <1>d, <2>1, <2>2, <3>4
  <2>5. QED BY <2>3, <2>4
<1>10. ASSUME NEW ok \in BOOLEAN, NoOutcome(ok) PROVE RecordLacks'
  <2>1. dpc = "run" /\ dfirst = None /\ ~dbad /\ \A t \in 1..DThreads : dat[t] = DGone
    BY <1>10 DEF NoOutcome
  <2>2. 1..dsizes[0] \subseteq Nos(dlist)
    BY <1>d, <2>1, AllListed
  <2>3. QED BY <1>d, <2>1, <2>2
<1>11. ASSUME NEW ok \in BOOLEAN, RenameTemp(ok) PROVE RecordLacks'
  <2>1. ok
    BY <1>11, Zenon DEF RenameTemp
  <2>2. dpc' = "done" /\ drecord'.state # "whole"
    BY <1>11, <2>1 DEF RenameTemp, EmptyRecord
  <2>3. QED BY <1>d, <2>2
<1>12. ASSUME NEW ok \in BOOLEAN, NEW torn \in BOOLEAN, GetWhole(ok, torn) PROVE RecordLacks'
  BY <1>12, <1>d DEF GetWhole
<1>13. CASE Replace
  BY <1>13, <1>t DEF Replace
<1>14. QED
  <2> HIDE DEF RecordLacks, Lacks
  <2> QED BY <1>1, <1>2, <1>3, <1>4, <1>5, <1>6, <1>7, <1>8, <1>9, <1>10, <1>11, <1>12, <1>13
          DEF DNext, DownloadRun

(***************************************************************************)
(* Every attempt is paid for by a failure of its own, or by a replacement: *)
(* one after a replacement may find a record of mixed versions, and the    *)
(* next finds a record of one version, or one that covers the object.      *)
(***************************************************************************)
LEMMA AttemptsPaidStep ==
  ASSUME DownloadTypeOK, DownloadBounds, DownloadSizes, RangesCovered, AttemptsPaid, [DNext]_dvars
  PROVE  AttemptsPaid'
<1>t. /\ dver \in Nat /\ dver <= DReplaces /\ dnet \in Nat /\ dleft \in Nat /\ dloss \in Nat
      /\ dsize \in Nat /\ dsizes[dver] \in Nat /\ dsizes[dver] > 0
      /\ dver \in 0..DReplaces /\ (dfirst = None \/ dfirst \in 0..DReplaces)
      /\ \A t \in 1..DThreads : dat[t] \in DGone..MostParts
      /\ drecord = [state |-> drecord.state, size |-> drecord.size, parts |-> drecord.parts]
  BY DownloadFacts DEF DownloadBounds
<1>b. dpc # "done" => dresult = "none"
  BY DEF DownloadBounds
<1>i. Spare \in Int
  BY <1>t DEF Spare
<1>s. \A k \in Int : UNCHANGED <<dver, dnet, dleft>> /\ dloss' = dloss + k => Spare' = Spare + k
  BY <1>t DEF Spare
<1>q. UNCHANGED <<dver, dsizes>> => \A P : Pure(P)' <=> \A r \in P' : r.ver = dver /\ r.no <= dsizes[dver]
  BY DEF Pure
<1>p. UNCHANGED <<drecord, dver, dsizes>> => (PureRecord' <=> PureRecord) /\ (FullRecord' <=> FullRecord)
  BY DEF PureRecord, Pure, FullRecord, Nos
<1>r. UNCHANGED <<drecord, dlist, dver, dsizes, dsize, dbad, dfirst, dloss, dnet, dleft>> =>
        /\ Spare' = Spare
        /\ (PureRun' <=> PureRun)  /\ (FullRun' <=> FullRun)  /\ (MixedRun' <=> MixedRun)
  <2> SUFFICES ASSUME UNCHANGED <<drecord, dlist, dver, dsizes, dsize, dbad, dfirst, dloss, dnet, dleft>>
               PROVE  /\ Spare' = Spare
                      /\ (PureRun' <=> PureRun)  /\ (FullRun' <=> FullRun)  /\ (MixedRun' <=> MixedRun)
      OBVIOUS
  <2>1. Spare' = Spare
    BY DEF Spare
  <2>2. PureRun' <=> PureRun
    BY <1>p, <2>1 DEF PureRun, Pure
  <2>3. FullRun' <=> FullRun
    BY <1>p DEF FullRun, Nos
  <2>4. MixedRun' <=> MixedRun
    BY <2>1 DEF MixedRun
  <2>5. QED BY <2>1, <2>2, <2>3, <2>4
<1>n. dresult' = "none" => MissHasCause'
  BY DEF MissHasCause
\* What is known at the end of the threads.
<1>j. ASSUME dpc = "run", \A t \in 1..DThreads : dat[t] = DGone, Spare <= 0
      PROVE  /\ FullRun => ~dbad
             /\ dsize = dsizes[dver]
             /\ ~dbad => 1..dsizes[dver] \subseteq Nos(dlist)
  <2>1. dsize = dsizes[dver]
    BY <1>j DEF AttemptsPaid
  <2>2. FullRun => ~dbad
    BY <1>j, AllListed DEF FullRun
  <2>3. ~dbad => 1..dsizes[dver] \subseteq Nos(dlist)
    BY <1>j, <2>1, AllListed
  <2>4. QED BY <2>1, <2>2, <2>3
<1>1. ASSUME NEW ok \in BOOLEAN, AskName(ok) PROVE AttemptsPaid'
  <2>1. dpc = "name" /\ dleft > 0 /\ Spare >= 0 /\ dresult = "none" /\ UNCHANGED <<dnet, drecord, dver, dsizes>>
    BY <1>1, <1>b DEF AskName, AttemptsPaid
  <2>2. CASE ok
    <3>1. dpc' = "loop" /\ dleft' = dnet /\ dloss' = dloss /\ dresult' = "none"
      BY <1>1, <2>1, <2>2 DEF AskName, Spend
    <3>2. Spare' >= 0
      BY <1>t, <2>1, <3>1 DEF Spare
    <3>3. PureRecord'
      BY <2>1 DEF DownloadBounds, EmptyRecord, PureRecord
    <3>4. QED BY <1>n, <3>1, <3>2, <3>3 DEF AttemptsPaid
  <2>3. CASE ~ok
    <3>1. /\ dleft' = dleft - 1 /\ dloss' = dloss + 1
          /\ dpc' = IF dleft = 1 THEN "done" ELSE "name"
          /\ dresult' = IF dleft = 1 THEN "false" ELSE "none"
      BY <1>1, <2>1, <2>3 DEF AskName, Spend
    <3>2. Spare' = Spare
      BY <1>t, <2>1, <3>1 DEF Spare
    <3>3. MissHasCause'
      BY <1>t, <2>1, <3>1, <3>2 DEF MissHasCause, Spare
    <3>4. QED BY <2>1, <3>1, <3>2, <3>3 DEF AttemptsPaid
  <2>4. QED BY <2>2, <2>3
<1>2. CASE DownloadNothing
  BY <1>2 DEF DownloadNothing, AttemptsPaid, MissHasCause
<1>3. ASSUME NEW ok \in BOOLEAN, DownloadAttempt(ok) PROVE AttemptsPaid'
  <2>1. /\ dpc = "loop" /\ dleft > 0 /\ dresult' = "none" /\ dleft' = dleft - 1
        /\ UNCHANGED <<dnet, drecord, dver, dsizes>>
    BY <1>3, <1>b DEF DownloadAttempt
  <2>2. Spare >= 0 /\ (Spare = 0 => PureRecord \/ FullRecord \/ dsizes[dver] = 1)
    BY <2>1 DEF AttemptsPaid
  <2>3. CASE ok
    <3>1. /\ dloss' = dloss /\ dsize' = dsizes[dver] /\ dpc' \in {"single", "load"}
          /\ (dpc' = "single" <=> dsizes[dver] = 1)
      BY <1>3, <2>3 DEF DownloadAttempt, Spend
    <3>2. Spare' = Spare - 1
      BY <1>t, <2>1, <3>1 DEF Spare
    <3>3. QED BY <1>i, <1>n, <1>p, <2>1, <2>2, <3>1, <3>2 DEF AttemptsPaid
  <2>4. CASE ~ok
    <3>1. dloss' = dloss + 1 /\ dpc' = "failed"
      BY <1>3, <2>4 DEF DownloadAttempt, Spend
    <3>2. Spare' = Spare
      BY <1>t, <2>1, <3>1 DEF Spare
    <3>3. QED BY <1>n, <1>p, <2>1, <2>2, <3>1, <3>2 DEF AttemptsPaid
  <2>5. QED BY <2>3, <2>4
<1>4. ASSUME NEW seen \in BOOLEAN, NEW w \in Written, LoadParts(seen, w) PROVE AttemptsPaid'
  <2> DEFINE loaded == seen /\ drecord.state = "whole"
             valid == loaded /\ drecord.size = dsize
             cost == Cost(seen) + Cost(w = "whole")
  <2>1. /\ dpc = "load" /\ dpc' = "list" /\ dresult' = "none"
        /\ UNCHANGED <<dnet, dleft, dver, dsizes, dsize, dbad, dfirst>>
        /\ dlist' = IF loaded THEN drecord.parts ELSE {}
        /\ dloss' = dloss + Cost(seen) + Cost(w = "whole")
        /\ valid => w = "whole" /\ drecord' = drecord
        /\ ~valid => drecord' = IF w = "none" THEN drecord
                                ELSE [state |-> w, size |-> dsize, parts |-> {}]
    BY <1>4, <1>b DEF LoadParts
  <2>2. ~dbad /\ dfirst = None
    BY <2>1 DEF RangesCovered
  <2>3. Spare >= -1 /\ (Spare <= 0 => dsize = dsizes[dver]) /\ (Spare = -1 => PureRecord \/ FullRecord)
    BY <2>1 DEF AttemptsPaid
  <2>c. /\ cost \in Nat
        /\ cost = 0 => seen /\ w = "whole"
        /\ cost <= 1 => seen \/ w = "whole"
    BY DEF Cost
  <2>4. Spare' = Spare + cost
    BY <1>s, <2>1, <2>c, <1>t DEF Cost
  <2> HIDE DEF cost
  <2>5. FullRecord /\ Spare <= 0 /\ seen => valid
    BY <2>3 DEF FullRecord
  <2>6. PureRecord => PureRun'
    <3>1. PureRecord => Pure(dlist)'
      BY <1>q, <2>1 DEF PureRecord, Pure
    <3>2. PureRecord => PureRecord'
      <4>1. drecord' = drecord \/ drecord'.parts = {}
        BY <2>1
      <4>2. QED BY <1>p, <2>1, <4>1 DEF PureRecord, Pure
    <3>3. QED BY <2>1, <2>2, <3>1, <3>2 DEF PureRun
  <2>7. ~seen /\ w = "whole" => PureRun'
    <3>1. ~seen /\ w = "whole" => dlist' = {} /\ drecord'.parts = {}
      BY <2>1
    <3>2. QED BY <2>1, <2>2, <3>1 DEF PureRun, PureRecord, Pure
  <2>8. CASE Spare = -1 /\ FullRecord /\ seen
    <3>1. FullRecord' /\ dlist' = drecord.parts
      BY <1>p, <2>1, <2>5, <2>8
    <3>2. 1..dsize \subseteq Nos(dlist')
      BY <2>3, <2>8, <3>1 DEF FullRecord
    <3>3. FullRun'
      BY <2>1, <2>2, <3>1, <3>2 DEF FullRun, Nos
    <3>4. QED BY <1>n, <2>1, <2>3, <2>4, <2>c, <2>8, <3>3 DEF AttemptsPaid
  <2>9. CASE Spare = -1 /\ PureRecord
    BY <1>n, <2>1, <2>3, <2>4, <2>c, <2>6, <2>9 DEF AttemptsPaid
  <2>10. CASE Spare = -1 /\ ~seen
    <3>1. Spare' <= 0 => w = "whole"
      BY <2>4, <2>c, <2>10
    <3>2. QED BY <1>n, <2>1, <2>3, <2>4, <2>c, <2>7, <2>10, <3>1 DEF AttemptsPaid
  <2>11. CASE Spare >= 0
    <3>1. Spare' <= 0 => Spare' = 0 /\ Spare = 0 /\ seen /\ w = "whole"
      BY <1>i, <2>4, <2>c, <2>11
    <3>2. Spare' <= 0 => MixedRun'
      BY <2>1, <2>2, <3>1 DEF MixedRun
    <3>3. Spare' >= 0 /\ Spare' \in Int
      BY <1>i, <2>4, <2>c, <2>11
    <3>4. QED BY <1>n, <2>1, <2>3, <3>1, <3>2, <3>3 DEF AttemptsPaid
  <2>12. QED BY <1>i, <2>3, <2>8, <2>9, <2>10, <2>11
<1>5. ASSUME NEW t \in 1..DThreads, ListLeft \/ TakeRange(t) \/ UNCHANGED dvars PROVE AttemptsPaid'
  <2>1. /\ UNCHANGED <<drecord, dlist, dver, dsizes, dsize, dbad, dfirst, dloss, dnet, dleft, dresult>>
        /\ dpc' = dpc \/ (dpc = "list" /\ dpc' = "run")
    BY <1>5 DEF ListLeft, TakeRange
  <2>2. MissHasCause'
    BY <2>1 DEF AttemptsPaid, MissHasCause
  <2>3. QED BY <1>p, <1>r, <2>1, <2>2 DEF AttemptsPaid
<1>6. ASSUME NEW t \in 1..DThreads, NEW w \in Written, GetRange(t, w) PROVE AttemptsPaid'
  <2> DEFINE new == [no |-> dat[t], ver |-> dver]
  <2>1. /\ dpc = "run" /\ dpc' = "run" /\ dresult' = "none" /\ dat[t] > 0 /\ dat[t] <= dsizes[dver]
        /\ dlist' = dlist \union {new}
        /\ drecord' = IF w = "none" THEN drecord ELSE [state |-> w, size |-> dsize, parts |-> dlist']
        /\ dfirst' = (IF dfirst = None THEN dver ELSE dfirst)
        /\ dloss' = IF w = "whole" THEN dloss ELSE dloss + 1
        /\ UNCHANGED <<dnet, dleft, dver, dsizes, dsize, dbad>>
    BY <1>6, <1>b, <1>t DEF GetRange, Spend
  <2>2. Spare' = IF w = "whole" THEN Spare ELSE Spare + 1
    BY <1>t, <2>1 DEF Spare
  <2>3. /\ Spare >= -1 /\ (Spare <= 0 => dsize = dsizes[dver])
        /\ Spare <= 0 => PureRun \/ FullRun \/ MixedRun
    BY <2>1 DEF AttemptsPaid
  <2>4. ~FullRun
    <3>1. dat[t] \in 1..dsize /\ dat[t] \notin Nos(dlist)
      BY <1>t, <2>1 DEF RangesCovered
    <3>2. QED BY <3>1 DEF FullRun
  <2>5. PureRun => PureRun'
    <3>1. PureRun => Pure(dlist)'
      BY <1>q, <2>1 DEF PureRun, Pure
    <3>5. PureRun => PureRecord'
      <4>1. CASE w = "none"
        BY <1>p, <2>1, <4>1 DEF PureRun
      <4>2. CASE w # "none"
        <5>1. drecord'.parts = dlist'
          BY <2>1, <4>2
        <5>2. QED BY <3>1, <5>1 DEF PureRecord, Pure
      <4>3. QED BY <4>1, <4>2
    <3>2. PureRun => dfirst' \in {None, dver}
      BY <2>1 DEF PureRun
    <3>3. PureRun /\ Spare' = -1 => ~dbad
      BY <1>i, <2>2, <2>3 DEF PureRun
    <3>4. QED BY <2>1, <3>1, <3>2, <3>3, <3>5 DEF PureRun
  <2>6. MixedRun /\ Spare' <= 0 => MixedRun'
    BY <1>i, <2>1, <2>2 DEF MixedRun
  <2> HIDE DEF new
  <2>7. Spare' >= -1 /\ (Spare' <= 0 => Spare <= 0)
    BY <1>i, <2>2, <2>3
  <2>8. QED BY <1>n, <2>1, <2>3, <2>4, <2>5, <2>6, <2>7 DEF AttemptsPaid
<1>7. ASSUME NEW t \in 1..DThreads, NEW torn \in BOOLEAN, GetRangeFails(t, torn) PROVE AttemptsPaid'
  <2>1. /\ dpc = "run" /\ dpc' = "run" /\ dresult' = "none" /\ dat[t] > 0
        /\ dfirst' = (IF dfirst = None THEN dver ELSE dfirst)
        /\ dloss' = IF dat[t] <= dsizes[dver] THEN dloss + 1 ELSE dloss
        /\ UNCHANGED <<dnet, dleft, dver, dsizes, dsize, dlist, drecord>>
    BY <1>7, <1>b DEF GetRangeFails, Spend
  <2>2. Spare' = IF dat[t] <= dsizes[dver] THEN Spare + 1 ELSE Spare
    BY <1>t, <2>1 DEF Spare
  <2>3. /\ Spare >= -1 /\ (Spare <= 0 => dsize = dsizes[dver])
        /\ Spare <= 0 => PureRun \/ FullRun \/ MixedRun
    BY <2>1 DEF AttemptsPaid
  <2>4. dat[t] \in 1..dsize /\ dat[t] \notin Nos(dlist)
    BY <1>t, <2>1 DEF RangesCovered
  <2>5. Spare' >= -1 /\ (Spare' <= 0 => Spare = -1 /\ Spare' = 0)
    BY <1>i, <1>t, <2>2, <2>3, <2>4
  <2>6. Spare' <= 0 => PureRun
    BY <2>3, <2>4, <2>5 DEF FullRun, MixedRun
  <2>7. Spare' <= 0 => PureRun'
    BY <1>p, <1>q, <2>1, <2>5, <2>6 DEF PureRun, Pure
  <2>8. QED BY <1>n, <2>1, <2>3, <2>5, <2>7 DEF AttemptsPaid
<1>8. CASE CheckSum
  <2>1. /\ dpc = "run" /\ dresult' = "none" /\ dpc' \in {"failed", "rename"}
        /\ \A t \in 1..DThreads : dat[t] = DGone  /\ (dbad \/ dfirst # None)
        /\ (dpc' = "rename" <=>
              ~dbad /\ dlist = {[no |-> p, ver |-> dfirst] : p \in 1..dsizes[dfirst]})
        /\ UNCHANGED <<dnet, dleft, dloss, dmem, drecord, dver, dsizes>>
    BY <1>8, <1>b DEF CheckSum, JoinRanges
  <2>2. Spare' = Spare
    BY <2>1 DEF Spare
  <2>3. Spare >= -1 /\ (Spare <= 0 => PureRun \/ FullRun \/ MixedRun)
    BY <2>1 DEF AttemptsPaid
  <2>4. ~FullRun \/ Spare > 0
    BY <1>i, <1>j, <2>1 DEF FullRun
  <2>5. PureRun => PureRecord
    BY DEF PureRun
  <2>6. MixedRun => FullRecord
    <3> SUFFICES ASSUME MixedRun PROVE FullRecord
        OBVIOUS
    <3>1. /\ Spare <= 0  /\ ~dbad
          /\ drecord.state = "whole"  /\ drecord.size = dsize  /\ drecord.parts = dlist
      BY <2>1 DEF MixedRun
    <3>2. QED BY <1>j, <2>1, <3>1 DEF FullRecord
  <2>7. Spare = -1 => dpc' = "rename" /\ PureRecord
    <3> SUFFICES ASSUME Spare = -1 PROVE dpc' = "rename" /\ PureRecord
        OBVIOUS
    <3>1. PureRun /\ ~dbad
      BY <2>3, <2>4 DEF MixedRun, PureRun
    <3>2. dfirst = dver
      BY <2>1, <3>1 DEF PureRun
    <3>3. \A r \in dlist : r.ver = dver /\ r.no <= dsizes[dver]
      BY <3>1 DEF PureRun, Pure
    <3>4. 1..dsizes[dver] \subseteq Nos(dlist)
      BY <1>j, <2>1, <3>1
    <3>5. dlist = {[no |-> p, ver |-> dfirst] : p \in 1..dsizes[dfirst]}
      BY <1>t, <3>2, <3>3, <3>4, SameChecksum
    <3>6. QED BY <2>1, <2>5, <3>1, <3>5
  <2>8. Spare = 0 => PureRecord \/ FullRecord
    BY <2>3, <2>4, <2>5, <2>6
  <2>9. QED BY <1>i, <1>n, <1>p, <2>1, <2>2, <2>3, <2>7, <2>8 DEF AttemptsPaid
<1>9. ASSUME NEW ok \in BOOLEAN, NoOutcome(ok) PROVE AttemptsPaid'
  <2>1. /\ dpc = "run" /\ dresult' = "none" /\ dpc' = (IF ok THEN "crashed" ELSE "failed")
        /\ \A t \in 1..DThreads : dat[t] = DGone
        /\ dloss' = IF ok THEN dloss ELSE dloss + 1
        /\ UNCHANGED <<dnet, dleft, drecord, dver, dsizes>>
    BY <1>9, <1>b DEF NoOutcome, Spend
  <2>2. CASE ok
    BY <1>n, <2>1, <2>2 DEF AttemptsPaid
  <2>3. CASE ~ok
    <3>1. Spare' = Spare + 1
      BY <1>t, <2>1, <2>3 DEF Spare
    <3>2. Spare >= -1 /\ (Spare <= 0 => PureRun \/ FullRun \/ MixedRun)
      BY <2>1 DEF AttemptsPaid
    <3>3. Spare = -1 => PureRecord \/ FullRecord
      BY <3>2 DEF PureRun, FullRun, MixedRun
    <3>4. QED BY <1>i, <1>n, <1>p, <2>1, <2>3, <3>1, <3>2, <3>3 DEF AttemptsPaid
  <2>4. QED BY <2>2, <2>3
<1>10. ASSUME NEW ok \in BOOLEAN, RenameTemp(ok) PROVE AttemptsPaid'
  <2>1. dpc = "rename" /\ dresult = "none" /\ UNCHANGED <<dnet, dleft, dver, dsizes>>
    BY <1>10, <1>b DEF RenameTemp
  <2>2. CASE ok
    BY <1>10, <2>2 DEF RenameTemp, AttemptsPaid, MissHasCause
  <2>3. CASE ~ok
    <3>1. dpc' = "failed" /\ dresult' = "none" /\ drecord' = drecord /\ dloss' = dloss + 1
      BY <1>10, <2>1, <2>3 DEF RenameTemp, Spend
    <3>2. Spare' = Spare + 1 /\ Spare >= -1 /\ (Spare = -1 => PureRecord)
      BY <1>s, <2>1, <3>1 DEF AttemptsPaid
    <3>3. QED BY <1>i, <1>n, <1>p, <2>1, <3>1, <3>2 DEF AttemptsPaid
  <2>4. QED BY <2>2, <2>3
<1>11. ASSUME NEW ok \in BOOLEAN, NEW torn \in BOOLEAN, GetWhole(ok, torn) PROVE AttemptsPaid'
  <2>1. dpc = "single" /\ dresult = "none" /\ UNCHANGED <<dnet, dleft, dver, dsizes, drecord>>
    BY <1>11, <1>b DEF GetWhole
  <2>2. CASE ok
    BY <1>11, <2>2 DEF GetWhole, AttemptsPaid, MissHasCause
  <2>3. CASE ~ok
    <3>1. dpc' = "failed" /\ dresult' = "none" /\ dloss' = dloss + 1
      BY <1>11, <2>1, <2>3 DEF GetWhole, Spend
    <3>2. /\ Spare' = Spare + 1 /\ Spare >= -1
          /\ Spare = -1 => PureRecord \/ FullRecord \/ dsizes[dver] = 1
      BY <1>s, <2>1, <3>1 DEF AttemptsPaid
    <3>3. QED BY <1>i, <1>n, <1>p, <2>1, <3>1, <3>2 DEF AttemptsPaid
  <2>4. QED BY <2>2, <2>3
<1>12. CASE DownloadFailed
  <2>1. /\ dpc = "failed" /\ UNCHANGED <<dnet, dleft, dloss, drecord, dver, dsizes>>
        /\ dpc' = IF dleft = 0 THEN "done" ELSE "loop"
        /\ dresult' = IF dleft = 0 THEN "false" ELSE "none"
    BY <1>12, <1>b DEF DownloadFailed
  <2>2. Spare' = Spare /\ Spare >= 0 /\ (Spare = 0 => PureRecord \/ FullRecord \/ dsizes[dver] = 1)
    BY <2>1 DEF AttemptsPaid, Spare
  <2>3. MissHasCause'
    BY <1>t, <2>1, <2>2 DEF MissHasCause, Spare
  <2>4. QED BY <1>p, <2>1, <2>2, <2>3 DEF AttemptsPaid
<1>13. CASE Replace
  <2>1. /\ dpc \notin {"done", "crashed"} /\ dver' = dver + 1
        /\ UNCHANGED <<dnet, dleft, dpc, dloss, dresult>>
    BY <1>13 DEF Replace
  <2>2. Spare' = Spare + 2
    BY <1>t, <2>1 DEF Spare
  <2>3. Spare >= -1
    BY <1>i, <2>1 DEF AttemptsPaid, DownloadTypeOK
  <2>4. Spare' > 0
    BY <1>i, <2>2, <2>3
  <2>5. dresult' = "none" /\ Spare' \in Int
    BY <1>b, <1>i, <2>1, <2>2
  <2>6. QED BY <1>n, <2>4, <2>5 DEF AttemptsPaid
<1>14. QED
  <2>1. 1 \in 1..DThreads
    OBVIOUS
  <2>2. QED BY <1>1, <1>2, <1>3, <1>4, <1>5, <1>6, <1>7, <1>8, <1>9, <1>10, <1>11, <1>12, <1>13, <2>1
            DEF DNext, DownloadRun

LEMMA DownloadInitial == DInit => DownloadInv
<1> SUFFICES ASSUME DInit PROVE DownloadInv
    OBVIOUS
<1>1. DownloadTypeOK
  BY DownloadTypeInitial
<1>t. dnet \in Nat /\ \A v \in 0..DReplaces : dsizes[v] \in Nat
  BY <1>1, DownloadFacts
<1>2. DownloadBounds
  <2>1. \A u, v \in 0..0 : u <= v => dsizes[u] <= dsizes[v]
    <3>1. 0 \in 0..DReplaces /\ \A u \in 0..0 : u = 0
      OBVIOUS
    <3>2. QED BY <1>t, <3>1
  <2>2. QED BY <1>t, <2>1 DEF DInit, DownloadBounds, EmptyRecord
<1>3. DownloadSizes /\ RangesCovered
  BY DEF DInit, DownloadSizes, RangesCovered, EmptyRecord
<1>4. RangesWritten
  BY DEF DInit, RangesWritten, RecordedIsWritten, EmptyRecord, NoFile
<1>5. FileIsObject /\ RecordLacks
  BY DEF DInit, FileIsObject, RecordLacks, EmptyRecord
<1>6. AttemptsPaid
  BY <1>t DEF DInit, AttemptsPaid, Spare, MissHasCause
<1>7. QED BY <1>1, <1>2, <1>3, <1>4, <1>5, <1>6 DEF DownloadInv

\* The invariant holds in every state of a download.
THEOREM DownloadInvariance == DSpec => []DownloadInv
<1>1. DInit => DownloadInv
  BY DownloadInitial
<1>2. DownloadInv /\ [DNext]_dvars => DownloadInv'
  BY DownloadTypeStep, DownloadBoundsStep, DownloadSizesStep, RangesCoveredStep, RangesWrittenStep,
     FileIsObjectStep, RecordLacksStep, AttemptsPaidStep DEF DownloadInv
<1>3. QED BY <1>1, <1>2, PTL DEF DSpec

(***************************************************************************)
(* download() returns true only with a file that is one version of the     *)
(* object and no record left, for any sizes, threads, attempts, failures   *)
(* and replacements, but for the exceptions the property names.            *)
(***************************************************************************)
THEOREM DownloadsAreObjects == DSpec => []FileIsObject
<1>1. DownloadInv => FileIsObject
  BY DEF DownloadInv
<1>2. QED BY <1>1, DownloadInvariance, PTL

\* A part that the record lists is not fetched again (TakeRange).
LEMMA RecordedStaysKept == DSpec => RecordedIsKept
<1> DEFINE Kept == \A t \in 1..DThreads :
                     dat[t] = DIdle /\ dat'[t] > 0 /\ drecord.state = "whole" /\ ~dstale =>
                       \A r \in drecord.parts : r.no # dat'[t]
<1>1. DownloadInv /\ [DNext]_dvars => Kept
  <2> SUFFICES ASSUME DownloadInv, [DNext]_dvars,
                      NEW t \in 1..DThreads, dat[t] = DIdle, dat'[t] > 0, drecord.state = "whole", ~dstale,
                      NEW r \in drecord.parts
               PROVE  r.no # dat'[t]
      OBVIOUS
  <2>t. DownloadTypeOK /\ RangesCovered /\ dat \in [1..DThreads -> DGone..MostParts]
    BY DEF DownloadInv, DownloadTypeOK
  <2>1. PICK u \in 1..DThreads : TakeRange(u)
    <3>1. CASE ListLeft
      BY <3>1 DEF ListLeft
    <3>2. ASSUME NEW u \in 1..DThreads,
                 (\E w \in Written : GetRange(u, w)) \/ \E b \in BOOLEAN : GetRangeFails(u, b)
          PROVE  FALSE
      <4>1. dat' = [dat EXCEPT ![u] = DIdle]
        BY <3>2 DEF GetRange, GetRangeFails
      <4>2. dat'[t] = DIdle
        BY <2>t, <4>1
      <4>3. QED BY <4>2
    <3>3. CASE dat' = dat
      BY <3>3
    <3>4. dat' = dat \/ ListLeft
          \/ \E u \in 1..DThreads :
               TakeRange(u) \/ (\E w \in Written : GetRange(u, w)) \/ \E b \in BOOLEAN : GetRangeFails(u, b)
      BY DEF DNext, DownloadRun, DownloadNothing, CheckSum, JoinRanges, DownloadFailed, AskName,
             DownloadAttempt, LoadParts, NoOutcome, RenameTemp, GetWhole, Replace
    <3>5. QED BY <3>1, <3>2, <3>3, <3>4
  <2>2. dpc = "run" /\ dat'[t] \in dtodo
    <3>1. dpc = "run" /\ (dat' = [dat EXCEPT ![u] = DGone] \/ \E p \in dtodo : dat' = [dat EXCEPT ![u] = p])
      BY <2>1 DEF TakeRange
    <3>2. CASE dat' = [dat EXCEPT ![u] = DGone]
      BY <2>t, <3>2
    <3>3. ASSUME NEW p \in dtodo, dat' = [dat EXCEPT ![u] = p] PROVE dat'[t] \in dtodo
      BY <2>t, <3>3
    <3>4. QED BY <3>1, <3>2, <3>3
  <2>3. r \in dlist /\ dat'[t] \notin Nos(dlist)
    BY <2>t, <2>2 DEF RangesCovered
  <2>4. QED BY <2>3 DEF Nos
<1>2. QED
  BY <1>1, DownloadInvariance, PTL DEF DSpec, RecordedIsKept

-----------------------------------------------------------------------------
(***************************************************************************)
(* A service that uploads and downloads: what memory, disk and server say  *)
(* of its transfers agrees in every state.                                 *)
(***************************************************************************)
THEOREM TransfersAlwaysAgree == USpec /\ DSpec => []TransfersAgree
<1>1. UploadInv /\ ResumeInv /\ DownloadInv => TransfersAgree
  BY DEF UploadInv, PartsCovered, ResumeInv, RecordNames, DownloadInv, RangesWritten, TransfersAgree
<1>2. QED BY <1>1, UploadInvariance, ResumeInvariance, DownloadInvariance, PTL

\* Transfers fail, and workers die, only of what the properties name.
THEOREM FailuresAreHonest == USpec /\ DSpec => []TransfersFailHonestly
<1>1. ResumeInv => FailureHasCause /\ UnheardIsFinal
  BY DEF ResumeInv, FailuresPaid, UnheardStays, UnheardIsFinal
<1>2. DownloadInv => CrashHasCause
  <2> SUFFICES ASSUME DownloadInv, dpc = "crashed", ~dunnamed PROVE dver > 0
      BY DEF CrashHasCause
  <2>1. dver # 0
    BY DEF DownloadInv, RecordLacks
  <2>2. dver \in Nat
    BY DownloadFacts DEF DownloadInv
  <2>3. QED BY <2>1, <2>2
<1>3. DownloadInv => MissHasCause
  BY DEF DownloadInv, AttemptsPaid
<1>4. ResumeInv /\ DownloadInv => TransfersFailHonestly
  BY <1>1, <1>2, <1>3 DEF TransfersFailHonestly
<1>5. QED BY <1>4, ResumeInvariance, DownloadInvariance, PTL

\* No attempt takes up a part again that is stored or recorded.
THEOREM AttemptsResume == USpec /\ DSpec => TransfersResume
  BY ResumedSkipsStored, RecordedStaysKept DEF TransfersResume

=============================================================================
