---------------------------- MODULE MCWorkerTask ----------------------------
(***************************************************************************)
(* Instances of WorkerTask for TLC: flows after those of the sample        *)
(* configuration, repair_stl and preview (docs/protocol.md:343-365).       *)
(***************************************************************************)
EXTENDS WorkerProperties

CONSTANTS j1, j2, b1, b2

OneSave   == [b \in Branches |-> IF b = b1 THEN <<"save">> ELSE << >>]
RepairStl == [b \in Branches |-> IF b = b1 THEN <<"save">> ELSE <<"compute", "repair", "plain", "save">>]

Flows == [j \in Jobs |-> IF j = j1 THEN OneSave ELSE RepairStl]

\* Branch b1 saves a GLB file, b2 an STL file.
Saves == [b \in Branches |-> IF b = b1 THEN "saveGlb" ELSE "saveStl"]

\* Only GLB files go to the public bucket; j1 is an archive, its STL files too.
FileConfig == [f \in Fields |-> f[2] = "needUpload" \/ f = <<"saveGlb", "pubBucket">>]

ArchiveDoc == [f \in {<<"readOp", "isZip">>, StlBucket} |-> TRUE]
EmptyDoc   == [f \in {} |-> TRUE]

Messages12 == [j \in Jobs |-> IF j = j1 THEN ArchiveDoc ELSE EmptyDoc]
=============================================================================
