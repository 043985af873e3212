------------------------------ MODULE Settings ------------------------------
(***************************************************************************)
(* The settings a task runs with: MqRequest::de_serialize merges what the  *)
(* message names with the modules of the configuration file, which has a   *)
(* value for every setting (load_from_json dereferences each).  A setting  *)
(* is a pair, the operation and the key; the pictures are one setting, a   *)
(* list that is replaced as a whole.                                       *)
(***************************************************************************)
Keys == [readOp   |-> {"format", "isZip"},
         mfOp     |-> {"withColor", "withTexture"},
         objOp    |-> {"readVColorIfExists"},
         simplify |-> {"remainRate", "boundaryWeight", "isCheckFaceFlip", "isFeatureSensitive"},
         smooth   |-> {"moveDist", "iter"},
         saveGlb  |-> {"writeASCII", "needUpload", "pubBucket"},
         saveStl  |-> {"needUpload", "pubBucket"},
         savePly  |-> {"needUpload", "pubBucket", "writeASCII"},
         saveBeb  |-> {"needUpload", "pubBucket"},
         save3mf  |-> {"needUpload", "pubBucket"},
         saveObj  |-> {"writeVColorIfExists", "needUpload", "pubBucket"},
         saveZip  |-> {"replaceZip", "needUpload", "pubBucket"},
         repair   |-> {"maxRetries"},
         pngFile  |-> {"list"}]

Fields == UNION {{op} \X Keys[op] : op \in DOMAIN Keys}

\* The settings of the model that are true or false.
Switches == {f \in Fields : f[2] \in {"isZip", "needUpload", "pubBucket"}}

\* A message has some of the settings, the configuration file all of them.
Messages(V) == UNION {[F -> V] : F \in SUBSET Fields}
Configs(V)  == [Fields -> V]

\* What the message names goes before the configuration file.
Merged(doc, config, f) == IF f \in DOMAIN doc THEN doc[f] ELSE config[f]

(***************************************************************************)
(* The public bucket of an STL file: the test of GetBool is the other way  *)
(* round.  Without it in the message the field is never written: left is   *)
(* what its memory holds.                                                  *)
(***************************************************************************)
StlBucket == <<"saveStl", "pubBucket">>

StlPub(doc, config, left) == IF StlBucket \in DOMAIN doc THEN config[StlBucket] ELSE left

Resolve(doc, config, left) ==
  [f \in Fields |-> IF f = StlBucket THEN StlPub(doc, config, left) ELSE Merged(doc, config, f)]
=============================================================================
