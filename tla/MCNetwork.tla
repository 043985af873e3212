----------------------------- MODULE MCNetwork -----------------------------
(***************************************************************************)
(* The service and the network: the way of requests from the broker, and   *)
(* the client of the object storage.  "part" says which one a behaviour is *)
(* about; the others stay in one initial state.                            *)
(***************************************************************************)
EXTENDS LinkProperties, OssProperties, HttpProperties, ObjectProperties

VARIABLE part   \* what this behaviour is about

\* Bytes of which every bit is 0 in some and 1 in others.
Content(len) == [i \in 1..len |-> {b \in 0..7 : ((37 * i + 55) \div 2^b) % 2 = 1}]

MCBuffers == {[bytes |-> Content(n), address |-> a] : n \in 0..19, a \in 0..7}
MCObjects == {[bytes |-> Content(n), part |-> 5] : n \in 1..19}
MCTransfers == [object : 1..13, size : 1..4, limit : 1..3]

FirstConfig == [net |-> 0, threads |-> 0, there |-> TRUE, parts |-> 1]

Init ==
  /\ part \in {"link", "upload", "download", "http", "data"}
  /\ UInit  /\ (part # "upload" => ucfg = FirstConfig)
  /\ DInit  /\ (part # "download" => dnet = 0 /\ \A v \in Versions : dsizes[v] = 1)
  /\ HInit  /\ LinkInit
  /\ SampleInit

Uploading   == part = "upload"   /\ UploadRun
Downloading == part = "download" /\ DownloadRun
Calling(c)  == part = "http"     /\ CallStep(c)
Closing     == part = "http"     /\ CloseClient
Reading     == part = "link"     /\ ParentStep
Listening   == part = "link"     /\ ThreadStep

Next ==
  \/ part = "upload"   /\ UNext     /\ UNCHANGED <<part, sample, dvars, hvars, lvars>>
  \/ part = "download" /\ DNext     /\ UNCHANGED <<part, sample, uvars, hvars, lvars>>
  \/ part = "http"     /\ HNext     /\ UNCHANGED <<part, sample, uvars, dvars, lvars>>
  \/ part = "link"     /\ LinkNext  /\ UNCHANGED <<part, sample, uvars, dvars, hvars>>
  \/ part = "data"     /\ Pick      /\ UNCHANGED <<part, uvars, dvars, hvars, lvars>>

Spec ==
  /\ Init
  /\ [][Next]_<<part, sample, uvars, dvars, hvars, lvars>>
  /\ WF_uvars(Uploading) /\ WF_dvars(Downloading)
  /\ WF_lvars(Reading) /\ WF_lvars(Listening)
  /\ WF_hvars(Closing) /\ \A c \in Callers : WF_hvars(Calling(c))

\* OssHandle::upload returns, whatever requests fail.
UploadEnds == part = "upload" ~> upc = "done"

\* OssHandle::download returns or the worker dies, whatever requests fail.
DownloadEnds == part = "download" ~> dpc \in {"done", "crashed"}

\* Every call returns and the client can be destroyed, unless curl_easy_init never
\* gave a handle: then Acquire waits for ever.
ClientEnds == part = "http" ~> (hclosed \/ [](hmade = 0))

\* Whatever fails, no caller of the OSS client waits for ever.
CallsEnd == UploadEnds /\ DownloadEnds /\ ClientEnds
=============================================================================
