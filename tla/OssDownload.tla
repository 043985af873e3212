----------------------------- MODULE OssDownload -----------------------------
(***************************************************************************)
(* OssHandle::download: the name of the object is asked for, then the      *)
(* resumable download of the OSS client is tried net_retries times.  Parts *)
(* are fetched by several threads into a temporary file; a record on disk  *)
(* lists those that are there.  The object may be replaced on the server   *)
(* at any time.                                                            *)
(*                                                                         *)
(* Contents are versions of the object: a file holds, for each part, the   *)
(* version it came from, Torn (a request ended in the middle) or Hole  *)
(* (never written, or beyond the end).  Size 1 is less than one part.      *)
(***************************************************************************)
EXTENDS Integers, FiniteSets

CONSTANTS
  DSizes,        \* sizes of objects in parts
  DThreads,      \* ThreadNum of a download request
  DNetRetries,   \* the values of net_retries to look at
  DLosses,       \* bound: requests, renames, and openings and writes of the record that fail
  DReplaces      \* bound: times the object is replaced

ASSUME DownloadAssumption ==
  /\ DSizes \subseteq Nat \ {0}   /\ \E n \in DSizes : \A k \in DSizes : k <= n
  /\ DThreads \in Nat \ {0}       /\ DNetRetries \subseteq Nat
  /\ DLosses \in Nat              /\ DReplaces \in Nat

VARIABLES
  dnet,      \* net_retries of the configuration
  dleft,     \* retries0, then retries
  dpc,       \* where the calling thread is
  dresult,   \* what download() returned
  drecord,   \* the record file: object size and parts
  dknown,    \* hasRecord_
  dsize,     \* objectSize_, as GetObjectMeta gave it
  dlist,     \* record_.parts, then downloadedParts
  dtodo,     \* partsToDownload, which is in ascending order
  dat,       \* what each thread does: a part number, DIdle or DGone
  dbad,      \* is there an outcome that is not a success
  dfirst,    \* the version outcomes[0] came from, None if there is no outcome
  dtemp,     \* the temporary file
  dfile,     \* the file the service asked for
  dver, dsizes, \* server: the version of the object, and the size of each
  dloss,
  \* history: was the object ever replaced by a smaller one; did a rename fail; did an
  \* attempt begin anew and leave the record of another, which it could not replace
  dshrunk, dunnamed, dstale

dmem == <<dknown, dsize, dlist, dtodo, dat, dbad, dfirst>>
ddisk == <<drecord, dtemp, dfile>>
dserver == <<dver, dsizes, dshrunk>>
dhistory == <<dunnamed, dstale>>
dvars == <<dnet, dleft, dpc, dresult, dmem, ddisk, dserver, dloss, dhistory>>

\* What a thread does when it does not fetch a part; no version, or part of one.
DIdle == 0
DGone == -1
None == -1
Hole == -2
Torn == -3

Versions == 0..DReplaces
MostParts == CHOOSE n \in DSizes : \A k \in DSizes : k <= n
Ranges == [no : 1..MostParts, ver : Versions]
Contents == Versions \union {Hole, Torn}
\* What becomes of a record: it is written, or cut short, or its file does not open.
Written == {"whole", "cut", "none"}
NoFile == [p \in 1..MostParts |-> Hole]
Whole(v) == [p \in 1..MostParts |-> IF p <= dsizes[v] THEN v ELSE Hole]
EmptyRecord == [state |-> "none", size |-> 0, parts |-> {}]

DInit ==
  /\ dnet \in DNetRetries  /\ dleft = dnet  /\ dpc = "name"  /\ dresult = "none"
  /\ drecord = EmptyRecord  /\ dtemp = NoFile  /\ dfile = NoFile
  /\ dknown = FALSE  /\ dsize = 0  /\ dlist = {}  /\ dtodo = {}
  /\ dat = [t \in 1..DThreads |-> DGone]  /\ dbad = FALSE  /\ dfirst = None
  /\ dver = 0  /\ dsizes \in [Versions -> DSizes]
  /\ dloss = 0  /\ dshrunk = FALSE  /\ dunnamed = FALSE  /\ dstale = FALSE

Spend(ok) == /\ ~ok => dloss < DLosses
             /\ dloss' = IF ok THEN dloss ELSE dloss + 1
Cost(ok) == IF ok THEN 0 ELSE 1

\* HeadObject for the file name, net_retries times; with 0 retries it is skipped.
AskName(ok) ==
  /\ dpc = "name"  /\ dleft > 0  /\ Spend(ok)
  /\ dpc' = IF ok THEN "loop" ELSE IF dleft = 1 THEN "done" ELSE "name"
  /\ dleft' = IF ok THEN dnet ELSE dleft - 1
  /\ dresult' = IF ~ok /\ dleft = 1 THEN "false" ELSE dresult
  /\ UNCHANGED <<dnet, dmem, ddisk, dserver, dhistory>>

DownloadNothing ==
  /\ dpc \in {"name", "loop"}  /\ dleft = 0
  /\ dpc' = "done"  /\ dresult' = "true"
  /\ UNCHANGED <<dnet, dleft, dmem, ddisk, dserver, dloss, dhistory>>

\* An attempt: the temporary file is opened for appending, which makes it, and
\* GetObjectMeta gives the size, which decides between one request and parts.
DownloadAttempt(ok) ==
  /\ dpc = "loop"  /\ dleft > 0  /\ Spend(ok)
  /\ dleft' = dleft - 1
  /\ dsize' = IF ok THEN dsizes[dver] ELSE dsize
  /\ dpc' = IF ~ok THEN "failed" ELSE IF dsizes[dver] = 1 THEN "single" ELSE "load"
  /\ dknown' = FALSE  /\ dlist' = {}  /\ dfirst' = None  /\ dbad' = FALSE
  /\ UNCHANGED <<dnet, dresult, dtodo, dat, ddisk, dserver, dhistory>>

\* One GetObject, checked by its checksum, into the file, which is truncated
\* first; the temporary file is removed whether it succeeds or not, a record is not.
GetWhole(ok, torn) ==
  /\ dpc = "single"  /\ Spend(ok)  /\ (torn => ~ok)
  /\ dfile' = IF ok THEN Whole(dver) ELSE IF torn THEN [NoFile EXCEPT ![1] = Torn] ELSE dfile
  /\ dtemp' = NoFile
  /\ dpc' = IF ok THEN "done" ELSE "failed"
  /\ dresult' = IF ok THEN "true" ELSE dresult
  /\ UNCHANGED <<dnet, dleft, dmem, drecord, dserver, dhistory>>

\* validate(): a record that cannot be parsed is dropped, and one that cannot be
\* opened is taken for none.  One of another size is replaced by a new one on disk,
\* but record_.parts and hasRecord_ keep what was loaded.  (The mtime compared is
\* never set for a download.)  A file that cannot be opened is not written.
LoadParts(seen, w) ==
  /\ dpc = "load"
  /\ (~seen => drecord # EmptyRecord)
  /\ LET loaded == seen /\ drecord.state = "whole"
         valid == loaded /\ drecord.size = dsize IN
       /\ dknown' = loaded
       /\ dlist' = IF loaded THEN drecord.parts ELSE {}
       /\ (valid => w = "whole")
       /\ drecord' = IF valid \/ w = "none" THEN drecord ELSE [state |-> w, size |-> dsize, parts |-> {}]
       /\ dstale' = (dstale \/ (~valid /\ w = "none" /\ drecord.state = "whole"))
  /\ dloss' = dloss + Cost(seen) + Cost(w = "whole")  /\ dloss' <= DLosses
  /\ dpc' = "list"
  /\ UNCHANGED <<dnet, dleft, dresult, dsize, dtodo, dat, dbad, dfirst, dtemp, dfile, dserver, dunnamed>>

\* getPartsToDownload: the parts of this size that record_.parts does not have.
ListLeft ==
  /\ dpc = "list"
  /\ LET have == IF dknown THEN {r.no : r \in dlist} ELSE {} IN
       dtodo' = (1..dsize) \ have
  /\ dat' = [t \in 1..DThreads |-> DIdle]
  /\ dpc' = "run"
  /\ UNCHANGED <<dnet, dleft, dresult, dknown, dsize, dlist, dbad, dfirst, ddisk, dserver, dloss,
                 dhistory>>

TakeRange(t) ==
  /\ dpc = "run"  /\ dat[t] = DIdle
  /\ \/ dtodo = {} /\ dat' = [dat EXCEPT ![t] = DGone] /\ UNCHANGED dtodo
     \/ \E p \in dtodo : /\ \A q \in dtodo : p <= q
                         /\ dat' = [dat EXCEPT ![t] = p] /\ dtodo' = dtodo \ {p}
  /\ UNCHANGED <<dnet, dleft, dpc, dresult, dknown, dsize, dlist, dbad, dfirst, ddisk, dserver,
                 dloss, dhistory>>

\* GetObject of a range into the temporary file; then, under lock_, the outcome
\* and the part are pushed and the record is written with all parts so far.
GetRange(t, w) ==
  /\ dpc = "run"  /\ dat[t] > 0  /\ dat[t] <= dsizes[dver]
  /\ Spend(w = "whole")
  /\ LET parts == dlist \union {[no |-> dat[t], ver |-> dver]} IN
       /\ dlist' = parts
       /\ dtemp' = [dtemp EXCEPT ![dat[t]] = dver]
       /\ drecord' = IF w = "none" THEN drecord ELSE [state |-> w, size |-> dsize, parts |-> parts]
  /\ dfirst' = IF dfirst = None THEN dver ELSE dfirst
  /\ dat' = [dat EXCEPT ![t] = DIdle]
  /\ UNCHANGED <<dnet, dleft, dpc, dresult, dknown, dsize, dtodo, dbad, dfile, dserver, dhistory>>

\* The request fails, with or without bytes written; a range beyond the end of
\* the object is refused.
GetRangeFails(t, torn) ==
  /\ dpc = "run"  /\ dat[t] > 0
  /\ IF dat[t] <= dsizes[dver] THEN Spend(FALSE) ELSE ~torn /\ UNCHANGED dloss
  /\ dtemp' = IF torn THEN [dtemp EXCEPT ![dat[t]] = Torn] ELSE dtemp
  /\ dbad' = TRUE
  /\ dfirst' = IF dfirst = None THEN dver ELSE dfirst
  /\ dat' = [dat EXCEPT ![t] = DIdle]
  /\ UNCHANGED <<dnet, dleft, dpc, dresult, dknown, dsize, dlist, dtodo, drecord, dfile, dserver,
                 dhistory>>

\* All threads joined.  With outcomes, the checksum of the listed parts is
\* compared with that of the object outcomes[0] came from.
JoinRanges(same) ==
  /\ dpc = "run"  /\ \A t \in 1..DThreads : dat[t] = DGone
  /\ dbad \/ dfirst # None
  /\ dpc' = IF dbad \/ ~same THEN "failed" ELSE "rename"
  /\ UNCHANGED <<dnet, dleft, dresult, dmem, ddisk, dserver, dloss, dhistory>>

\* Mutant: the checksums are not compared.
CheckNothing == JoinRanges(TRUE)

CheckSum == JoinRanges(dlist = {[no |-> p, ver |-> dfirst] : p \in 1..dsizes[dfirst]})

\* Without outcomes, because every part was recorded before, HeadObject is asked,
\* and then outcomes[0] of an empty vector is read: the process dies.
NoOutcome(ok) ==
  /\ dpc = "run"  /\ \A t \in 1..DThreads : dat[t] = DGone
  /\ ~dbad  /\ dfirst = None  /\ Spend(ok)
  /\ dpc' = IF ok THEN "crashed" ELSE "failed"
  /\ UNCHANGED <<dnet, dleft, dresult, dmem, ddisk, dserver, dhistory>>

RenameTemp(ok) ==
  /\ dpc = "rename"  /\ Spend(ok)
  /\ IF ok THEN dfile' = dtemp /\ dtemp' = NoFile /\ drecord' = EmptyRecord
           ELSE UNCHANGED ddisk
  /\ dpc' = IF ok THEN "done" ELSE "failed"
  /\ dresult' = IF ok THEN "true" ELSE dresult
  /\ dunnamed' = (dunnamed \/ ~ok)
  /\ UNCHANGED <<dnet, dleft, dmem, dserver, dstale>>

DownloadFailed ==
  /\ dpc = "failed"
  /\ dpc' = IF dleft = 0 THEN "done" ELSE "loop"
  /\ dresult' = IF dleft = 0 THEN "false" ELSE dresult
  /\ UNCHANGED <<dnet, dleft, dmem, ddisk, dserver, dloss, dhistory>>

\* The object is replaced; dsizes says what size each version has.
Replace ==
  /\ dpc \notin {"done", "crashed"}  /\ dver < DReplaces
  /\ dver' = dver + 1
  /\ dshrunk' = (dshrunk \/ dsizes[dver + 1] < dsizes[dver])
  /\ UNCHANGED <<dnet, dleft, dpc, dresult, dmem, ddisk, dsizes, dloss, dhistory>>

DownloadRun ==
  \/ DownloadNothing \/ ListLeft \/ CheckSum \/ DownloadFailed
  \/ \E b \in BOOLEAN :
       \/ AskName(b) \/ DownloadAttempt(b) \/ NoOutcome(b) \/ RenameTemp(b)
       \/ \E torn \in BOOLEAN : GetWhole(b, torn)
       \/ \E w \in Written : LoadParts(b, w)
  \/ \E t \in 1..DThreads :
       TakeRange(t) \/ (\E w \in Written : GetRange(t, w)) \/ \E torn \in BOOLEAN : GetRangeFails(t, torn)

DNext == DownloadRun \/ Replace

DSpec == DInit /\ [][DNext]_dvars /\ WF_dvars(DownloadRun)
=============================================================================
