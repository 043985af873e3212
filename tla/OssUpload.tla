------------------------------ MODULE OssUpload ------------------------------
(***************************************************************************)
(* OssHandle::upload: the retry loop of the service around the resumable  *)
(* upload of the OSS client.  A file of more than one part is sent by      *)
(* several threads under an upload id, which a record on disk keeps for    *)
(* the next attempt.                                                       *)
(*                                                                         *)
(* A call of the client, with its own retries, ends in one of four ways    *)
(* (RemoteCall): "ok", "lost" (not executed), "unheard" (executed, but the *)
(* answer is an error or never arrives), and "twice" (unheard, and executed*)
(* again by the client's retry, which is answered).  Contents are versions *)
(* of the local file: a part is the pair of its number and the version it  *)
(* was read from.                                                          *)
(***************************************************************************)
EXTENDS Integers, FiniteSets

CONSTANTS
  UParts,        \* the file is cut into parts 1..UParts, or fits in one
  UThreads,      \* most threads of a configuration
  UNetRetries,   \* the values of net_retries to look at
  ULosses,       \* bound: requests that fail, and record files that cannot be opened or written
  URewrites      \* bound: times the local file is written anew

ASSUME UploadAssumption ==
  /\ UParts \in Nat \ {0, 1}  /\ UThreads \in Nat \ {0}
  /\ UNetRetries \subseteq Nat  /\ \E n \in UNetRetries : \A k \in UNetRetries : k <= n
  /\ ULosses \in Nat          /\ URewrites \in Nat

VARIABLES
  ucfg,      \* configuration and file: net_retries, thread_num, is there a file, parts
  uleft,     \* retries of OssHandle::upload
  upc,       \* where the calling thread is
  uresult,   \* what upload() returned
  urecord,   \* the record file: upload id and the mtime it was made for
  uknown,    \* hasRecord_
  uid,       \* uploadID_
  utodo,     \* partsToUpload, which is in ascending order
  uat,       \* what each thread does: a part number, Idle or Gone
  ulist,     \* uploadedParts
  ubad,      \* is there an outcome that is not a success
  uopen,     \* server: uploads initiated and not completed
  ustored,   \* server: the parts of each upload
  uobject,   \* server: the object, as a set of parts, or {}
  ufile,     \* the local file: its version and mtime
  uasked,    \* the mtime the request of this attempt was made with
  uloss, urewritten,
  \* history: was the file written since the upload that is worked on, or that the
  \* record names, was begun, or within the second of its mtime; did the server
  \* store an object and no answer came; ids that no record names any more because
  \* an answer was lost, or a record was outdated, cut or could not be opened
  umixed, uunheard, uwaste

cvars == <<ucfg, uleft, uresult, uasked>>
rvars == <<urecord, uknown, uid>>
tvars == <<utodo, uat, ulist, ubad>>
svars == <<uopen, ustored, uobject>>
fvars == <<ufile, urewritten>>
histvars == <<umixed, uunheard, uwaste>>
uvars == <<upc, cvars, rvars, tvars, svars, fvars, uloss, histvars>>

\* What a thread does when it does not send a part.
Idle == 0
Gone == -1

Attempts == CHOOSE n \in UNetRetries : \A k \in UNetRetries : k <= n
Ids == 1..(Attempts + ULosses)
Parts == [no : 1..UParts, ver : 0..URewrites]
NoRecord == [state |-> "none", id |-> 0, mtime |-> 0]

UInit ==
  /\ ucfg \in [net : UNetRetries, threads : 0..UThreads, there : BOOLEAN, parts : {1, UParts}]
  /\ uleft = ucfg.net  /\ upc = "loop"  /\ uresult = "none"
  /\ urecord = NoRecord  /\ uknown = FALSE  /\ uid = 0
  /\ utodo = {}  /\ uat = [t \in 1..UThreads |-> Gone]  /\ ulist = {}  /\ ubad = FALSE
  /\ uopen = {}  /\ ustored = [i \in Ids |-> {}]  /\ uobject = {}
  /\ ufile = [ver |-> 0, mtime |-> 0]  /\ uasked = 0  /\ uloss = 0  /\ urewritten = 0
  /\ umixed = FALSE  /\ uunheard = FALSE  /\ uwaste = 0

\* A request that does not end "ok" is one of the failures the instance allows.
Outcomes == {"ok", "lost", "unheard", "twice"}
Heard(o) == o \in {"ok", "twice"}

Ends(o) ==
  /\ o # "ok" => uloss < ULosses
  /\ uloss' = IF o = "ok" THEN uloss ELSE uloss + 1

Amount(happened) == IF happened THEN 1 ELSE 0

Now(n) == {[no |-> p, ver |-> ufile.ver] : p \in n}

\* while (retries--): the loop ends without an attempt when net_retries is 0.
UploadNothing ==
  /\ upc = "loop"  /\ uleft = 0
  /\ upc' = "done"  /\ uresult' = "true"
  /\ UNCHANGED <<ucfg, uleft, uasked, rvars, tvars, svars, fvars, uloss, histvars>>

\* An attempt: a thread number of 0 becomes 1, the request takes the size and
\* the mtime of the file, and is refused when there is no file to open.
UploadAttempt ==
  /\ upc = "loop"  /\ uleft > 0
  /\ uleft' = uleft - 1
  /\ ucfg' = IF ucfg.threads = 0 THEN [ucfg EXCEPT !.threads = 1] ELSE ucfg
  /\ uasked' = ufile.mtime  /\ uknown' = FALSE  /\ uid' = 0
  /\ upc' = IF ~ucfg.there THEN "failed" ELSE IF ucfg.parts = 1 THEN "put" ELSE "load"
  /\ UNCHANGED <<uresult, urecord, tvars, svars, fvars, uloss, histvars>>

\* A file of one part goes in one request.
UploadPut(o) ==
  /\ upc = "put"  /\ Ends(o)
  /\ upc' = IF Heard(o) THEN "done" ELSE "failed"
  /\ uresult' = IF Heard(o) THEN "true" ELSE uresult
  /\ uobject' = IF o = "lost" THEN uobject ELSE Now({1})
  /\ uunheard' = (uunheard \/ o = "unheard")
  /\ umixed' = FALSE
  /\ UNCHANGED <<ucfg, uleft, uasked, rvars, tvars, uopen, ustored, fvars, uwaste>>

\* validate(): a record that cannot be parsed, or was made for another mtime, is
\* removed and a new upload begun; hasRecord_ stays true in the second case.
LoadRecordIf(valid) ==
  /\ upc = "load"
  /\ uknown' = (urecord.state = "whole")
  /\ uid' = IF urecord.state = "whole" THEN urecord.id ELSE uid
  /\ urecord' = IF valid THEN urecord ELSE NoRecord
  /\ upc' = IF valid THEN "list" ELSE "prepare"
  /\ uwaste' = IF ~valid /\ urecord # NoRecord THEN uwaste + 1 ELSE uwaste
  /\ UNCHANGED <<cvars, tvars, svars, fvars, uloss, umixed, uunheard>>

\* Mutant: the mtime in the record is not compared.
LoadRecordAnyTime == LoadRecordIf(urecord.state = "whole")

LoadRecord == LoadRecordIf(urecord.state = "whole" /\ urecord.mtime = uasked)

\* A record file that cannot be opened is taken for none: a new upload is begun,
\* and the file stays until its record is written.
OverlookRecord ==
  /\ upc = "load"  /\ urecord # NoRecord  /\ uloss < ULosses
  /\ uloss' = uloss + 1
  /\ uwaste' = uwaste + 1
  /\ upc' = "prepare"
  /\ UNCHANGED <<cvars, rvars, tvars, svars, fvars, umixed, uunheard>>

\* prepare(): InitiateMultipartUpload, then the record is written, which a full
\* disk may cut short; a file that cannot be opened is left as it is, and the upload
\* goes on.  A request executed twice begins two uploads.
PrepareWith(o, w, written) ==
  /\ upc = "prepare"
  /\ w \in {"whole", "cut", "none"}  /\ (~Heard(o) => w = "whole")
  /\ uloss' = uloss + Amount(o # "ok") + Amount(w # "whole")  /\ uloss' <= ULosses
  /\ LET begun == Cardinality({i \in Ids : i \in uopen \/ ustored[i] # {}})
         new == CASE o = "lost" -> {} [] o = "twice" -> {begun + 1, begun + 2} [] OTHER -> {begun + 1}
         id == IF o = "twice" THEN begun + 2 ELSE begun + 1 IN
       /\ uopen' = uopen \union new
       /\ uid' = IF Heard(o) THEN id ELSE uid
       /\ urecord' = IF Heard(o) /\ w # "none" /\ written
                     THEN [state |-> w, id |-> id, mtime |-> uasked] ELSE urecord
  /\ upc' = IF Heard(o) THEN "list" ELSE "failed"
  /\ umixed' = (umixed /\ (~Heard(o) \/ (w = "none" /\ urecord # NoRecord)))
  /\ uwaste' = uwaste + Amount(o \in {"unheard", "twice"}) + Amount(w = "none")
  /\ UNCHANGED <<cvars, uknown, tvars, ustored, uobject, fvars, uunheard>>

\* Mutant: the record is not written.
PrepareUnrecorded(o, w) == PrepareWith(o, w, FALSE)

Prepare(o, w) == PrepareWith(o, w, TRUE)

\* getPartsToUpload: if a record was loaded, the server lists what it has; an
\* upload it does not know (any more) is an error.  The rest is to be sent.
ListPartsThen(o, skipped) ==
  /\ upc = "list"
  /\ IF uknown THEN Ends(o) /\ o \in {"ok", "lost"} ELSE o = "ok" /\ UNCHANGED uloss
  /\ LET have == IF uknown THEN ustored[uid] ELSE {}
         there == {p.no : p \in have \intersect skipped}
         ok == o = "ok" /\ (uknown => uid \in uopen) IN
       /\ upc' = IF ok THEN "run" ELSE "failed"
       /\ ulist' = IF ok THEN have ELSE {}
       /\ utodo' = IF ok THEN 1..UParts \ there ELSE {}
       /\ uat' = [t \in 1..UThreads |-> IF ok /\ t <= ucfg.threads THEN Idle ELSE Gone]
       /\ ubad' = FALSE
  /\ UNCHANGED <<cvars, rvars, svars, fvars, histvars>>

\* Mutant: what the server has is sent again.
ListPartsAll(o) == ListPartsThen(o, {})

ListParts(o) == ListPartsThen(o, Parts)

\* A thread takes the first part left, or ends, under lock_.
TakePart(t) ==
  /\ upc = "run"  /\ uat[t] = Idle
  /\ \/ utodo = {} /\ uat' = [uat EXCEPT ![t] = Gone] /\ UNCHANGED utodo
     \/ \E p \in utodo : /\ \A q \in utodo : p <= q
                         /\ uat' = [uat EXCEPT ![t] = p] /\ utodo' = utodo \ {p}
  /\ UNCHANGED <<upc, cvars, rvars, ulist, ubad, svars, fvars, uloss, histvars>>

\* UploadPart with what the file holds now; part and outcome are pushed under lock_.
SendPart(t, o) ==
  /\ upc = "run"  /\ uat[t] > 0  /\ Ends(o)
  /\ LET new == Now({uat[t]})
         old == {p \in ustored[uid] : p.no = uat[t]} IN
       /\ ustored' = IF o = "lost" THEN ustored
                     ELSE [ustored EXCEPT ![uid] = (@ \ old) \union new]
       /\ ulist' = IF Heard(o) THEN ulist \union new ELSE ulist
  /\ ubad' = (ubad \/ ~Heard(o))
  /\ uat' = [uat EXCEPT ![t] = Idle]
  /\ UNCHANGED <<upc, cvars, rvars, utodo, uopen, uobject, fvars, histvars>>

\* All threads are joined: any outcome that failed fails the attempt.
JoinThreads ==
  /\ upc = "run"  /\ \A t \in 1..UThreads : uat[t] = Gone
  /\ upc' = IF ubad THEN "failed" ELSE "complete"
  /\ UNCHANGED <<cvars, rvars, tvars, svars, fvars, uloss, histvars>>

\* CompleteMultipartUpload; the checksum of the parts is compared with that of
\* the object, both made of what the server answered; the record is removed.  An
\* executed request that is repeated is refused: the upload is no longer there.
Complete(o) ==
  /\ upc = "complete"  /\ Ends(o)  /\ o # "twice"
  /\ uobject' = IF o = "lost" THEN uobject ELSE ulist
  /\ uopen' = IF o = "lost" THEN uopen ELSE uopen \ {uid}
  /\ upc' = IF o = "ok" THEN "done" ELSE "failed"
  /\ uresult' = IF o = "ok" THEN "true" ELSE uresult
  /\ urecord' = IF o = "ok" THEN NoRecord ELSE urecord
  /\ uunheard' = (uunheard \/ o = "unheard")
  /\ UNCHANGED <<ucfg, uleft, uasked, uknown, uid, tvars, ustored, fvars, umixed, uwaste>>

\* The attempt failed: false when it was the last, else sleep and again.
UploadFailedAt(last) ==
  /\ upc = "failed"
  /\ upc' = IF last THEN "done" ELSE "loop"
  /\ uresult' = IF last THEN "false" ELSE uresult
  /\ UNCHANGED <<ucfg, uleft, uasked, rvars, tvars, svars, fvars, uloss, histvars>>

\* Mutant: one attempt too few.
UploadFailedEarly == UploadFailedAt(uleft <= 1)

UploadFailed == UploadFailedAt(uleft = 0)

\* Another writer of the directory replaces the file, in the same second or later.
Rewrite(late) ==
  /\ upc # "done"  /\ ucfg.there  /\ urewritten < URewrites
  /\ urewritten' = urewritten + 1
  /\ ufile' = [ver |-> ufile.ver + 1, mtime |-> IF late THEN ufile.mtime + 1 ELSE ufile.mtime]
  /\ umixed' = (umixed \/ ~late \/ upc # "loop")
  /\ UNCHANGED <<upc, cvars, rvars, tvars, svars, uloss, uunheard, uwaste>>

UploadRun ==
  \/ UploadNothing \/ UploadAttempt \/ LoadRecord \/ OverlookRecord \/ JoinThreads \/ UploadFailed
  \/ \E o \in Outcomes :
       \/ UploadPut(o) \/ ListParts(o) \/ Complete(o)
       \/ \E w \in {"whole", "cut", "none"} : Prepare(o, w)
       \/ \E t \in 1..UThreads : SendPart(t, o)
  \/ \E t \in 1..UThreads : TakePart(t)

UNext == UploadRun \/ \E late \in BOOLEAN : Rewrite(late)

USpec == UInit /\ [][UNext]_uvars /\ WF_uvars(UploadRun)
=============================================================================
