------------------------------ MODULE PartPlan ------------------------------
(***************************************************************************)
(* How a resumable transfer cuts an object into parts                      *)
(* (ResumableBaseWorker.cc, ResumableUploader.cc, ResumableDownloader.cc). *)
(***************************************************************************)
EXTENDS Naturals, Sequences

Count(object, part) == (object - 1) \div part + 1

\* determinePartSize: the part size doubles until there are few enough parts.
PartSize(object, part, limit) ==
  LET enough[size \in Nat \ {0}] == IF Count(object, size) > limit THEN enough[2 * size] ELSE size
  IN  enough[part]

\* getPartsToUpload: the last part is what the others leave; a thread reads part p
\* from partSize_ * (p - 1) on.
UploadPlan(object, part) ==
  LET n == Count(object, part) IN
    [p \in 1..n |-> [offset |-> part * (p - 1),
                     size |-> IF p = n THEN object - part * (n - 1) ELSE part]]

\* getPartsToDownload: parts are cut off until the end is passed.
DownloadPlan(object, part) ==
  LET end == object - 1
      from[offset \in Nat] ==
        IF offset >= end + 1 THEN << >>
        ELSE << [offset |-> offset,
                 size |-> IF offset + part > end THEN end - offset + 1 ELSE part] >>
             \o from[offset + part]
  IN  from[0]
=============================================================================
