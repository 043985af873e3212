---------------------------- MODULE OssProperties ----------------------------
(***************************************************************************)
(* What the transfers of the OSS client promise to the service.            *)
(***************************************************************************)
EXTENDS OssUpload, OssDownload

\* Types of the upload (ResumableUploader.h, OssHandle::upload).
UploadTypeOK ==
  /\ ucfg \in [net : UNetRetries, threads : 0..UThreads, there : BOOLEAN, parts : {1, UParts}]
  /\ uleft \in Nat  /\ uresult \in {"none", "true", "false"}
  /\ upc \in {"loop", "put", "load", "prepare", "list", "run", "complete", "failed", "done"}
  /\ urecord \in [state : {"none", "whole", "cut"}, id : {0} \union Ids, mtime : Nat]
  /\ uknown \in BOOLEAN  /\ uid \in {0} \union Ids
  /\ utodo \subseteq 1..UParts
  /\ uat \in [1..UThreads -> Gone..UParts]
  /\ ulist \subseteq Parts  /\ ubad \in BOOLEAN
  /\ uopen \subseteq Ids  /\ ustored \in [Ids -> SUBSET Parts]  /\ uobject \subseteq Parts
  /\ ufile \in [ver : 0..URewrites, mtime : Nat]  /\ uasked \in Nat
  /\ umixed \in BOOLEAN  /\ uunheard \in BOOLEAN  /\ uwaste \in Nat

\* upload() returns true only when the object is, part for part, the file as it
\* is now, unless the file was written under way or within the second of its
\* mtime, or net_retries is 0: after any failed attempts and resumed uploads.
StoredIsLocal ==
  uresult = "true" =>
    \/ ucfg.net = 0 \/ umixed
    \/ uobject = {[no |-> p, ver |-> ufile.ver] : p \in 1..ucfg.parts}

\* upload() returns false only if there is no file, if an object was stored and
\* the answer lost, or if each of the net_retries attempts had a failure of its own.
FailureHasCause ==
  uresult = "false" => ~ucfg.there \/ uunheard \/ uloss >= ucfg.net

\* An object of several parts that was stored without an answer is never
\* acknowledged by a retry: the record names an upload the server has completed,
\* whose parts cannot be listed (ResumableUploader::getPartsToUpload).  Excepted are
\* files that were rewritten and uploads without their record: a retry after a
\* record that could not be opened, to write or to read, begins anew and succeeds.
UnheardIsFinal ==
  uunheard /\ ucfg.parts # 1 /\ urewritten = 0 /\ uwaste = 0 => uresult # "true"

\* While the threads run, a part is in one place: still to do, with one thread,
\* or sent.
PartInOnePlace ==
  upc = "run" =>
    /\ \A t \in 1..UThreads : uat[t] > 0 =>
         /\ uat[t] \notin utodo
         /\ \A s \in 1..UThreads \ {t} : uat[s] # uat[t]
         /\ \A p \in ulist : p.no # uat[t]
    /\ \A p \in ulist : p.no \notin utodo

\* A resumed upload takes up no part that the server already has under its id.
ResumeSkipsStored ==
  [][\A t \in 1..UThreads :
       uat[t] = Idle /\ uat'[t] > 0 =>
         \A p \in ustored[uid] : p.no # uat'[t]]_uvars

\* An upload left open on the server is the one the record names, or one of those
\* that uwaste counts by their causes: an initiation that was not heard, a record
\* that was outdated or cut, or that could not be opened when it was to be written
\* or read.  Retries open no others, which nobody would ever abort.
OpenUploadsAreNamed == Cardinality(uopen \ {urecord.id}) <= uwaste

\* Types of the download (ResumableDownloader.h, OssHandle::download).
DownloadTypeOK ==
  /\ dnet \in DNetRetries  /\ dleft \in Nat  /\ dresult \in {"none", "true", "false"}
  /\ dpc \in {"name", "loop", "single", "load", "list", "run", "rename", "failed", "done", "crashed"}
  /\ drecord \in [state : {"none", "whole", "cut"}, size : {0} \union DSizes, parts : SUBSET Ranges]
  /\ dknown \in BOOLEAN  /\ dsize \in {0} \union DSizes  /\ dlist \subseteq Ranges
  /\ dtodo \subseteq 1..MostParts
  /\ dat \in [1..DThreads -> DGone..MostParts]
  /\ dbad \in BOOLEAN  /\ dfirst \in Versions \union {None}
  /\ dtemp \in [1..MostParts -> Contents]  /\ dfile \in [1..MostParts -> Contents]
  /\ dver \in Versions  /\ dsizes \in [Versions -> DSizes]
  /\ dshrunk \in BOOLEAN  /\ dunnamed \in BOOLEAN  /\ dstale \in BOOLEAN

\* download() returns true only with a file that is one version of the object,
\* whole, and with no record left, however parts, attempts and replacements of
\* the object alternated.  Two cases are excepted: a replacement by a smaller object
\* (what was written beyond its end, or a record that survives it, may remain), and
\* a record that could not be opened while the file was written anew, so that a
\* later attempt believes what an earlier one wrote.
FileIsObject ==
  dresult = "true" =>
    \/ dnet = 0 \/ dshrunk \/ dstale
    \/ drecord = EmptyRecord /\ \E v \in 0..dver : dfile = Whole(v)

\* A part that a readable record lists is in the temporary file, in the version
\* whose checksum the record has, unless the object became smaller or the record is
\* of an attempt before one that could not replace it.
RecordedIsWritten ==
  drecord.state = "whole" /\ ~dshrunk /\ ~dstale =>
    \A r \in drecord.parts : dtemp[r.no] = r.ver

\* The worker dies of an empty list of outcomes only if a rename failed, or the
\* object was replaced while it was downloaded.
CrashHasCause == dpc = "crashed" => dunnamed \/ dver > 0

\* download() returns false only after a failure in each attempt: a request or a
\* file that failed, or one of the two attempts that a replacement can spoil.
MissHasCause == dresult = "false" => dloss + 2 * dver >= dnet

\* A part that the record lists is not fetched again, unless the record could not
\* be read or replaced when the attempt began.
RecordedIsKept ==
  [][\A t \in 1..DThreads :
       dat[t] = DIdle /\ dat'[t] > 0 /\ drecord.state = "whole" /\ ~dstale =>
         \A r \in drecord.parts : r.no # dat'[t]]_dvars

-----------------------------------------------------------------------------
\* What memory, disk and server say of one transfer agrees, however its threads,
\* failures and attempts alternate.
TransfersAgree ==
  /\ UploadTypeOK    /\ PartInOnePlace  /\ OpenUploadsAreNamed
  /\ DownloadTypeOK  /\ RecordedIsWritten

\* A transfer fails of what happened to it, not of what an earlier attempt left.
TransfersFailHonestly ==
  FailureHasCause /\ UnheardIsFinal /\ CrashHasCause /\ MissHasCause

\* An attempt goes on where the one before it ended.
TransfersResume == ResumeSkipsStored /\ RecordedIsKept
=============================================================================
