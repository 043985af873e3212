--------------------------- MODULE MCSharedFiles ---------------------------
(***************************************************************************)
(* What the processes of the service share on disk: the files of the log,  *)
(* the directories of tasks, and the functions that make their names.      *)
(* "topic" says which of them a behaviour is about; the others stay in one *)
(* initial state.                                                          *)
(***************************************************************************)
EXTENDS LogProperties, DiskProperties, TextProperties

CONSTANTS p, w, main, mqtt, task

Owners == [t \in Threads |-> IF t = task THEN w ELSE p]

VARIABLE topic   \* what this behaviour is about

Short(n) == UNION {[1..k -> {"a", "/", "."}] : k \in 0..n}
MCTexts == [first : Short(3), second : Short(3), third : Short(1)]
MCBlocks == {[data |-> [i \in 1..n |-> (7 * i) % 256]] : n \in 1..48}

FilesInit ==
  /\ topic \in {"log", "disk", "text"}
  /\ Init      /\ (topic # "log" => disk = {})
  /\ DiskInit  /\ (topic # "disk" => ~bare /\ slots = 2)
  /\ TextInit

FilesNext ==
  \/ topic = "log"   /\ Next      /\ UNCHANGED <<topic, text, diskvars>>
  \/ topic = "disk"  /\ DiskNext  /\ UNCHANGED <<topic, text, vars>>
  \/ topic = "text"  /\ Look      /\ UNCHANGED <<topic, vars, diskvars>>

Handling(t) == topic = "disk" /\ DiskStep(t)

FilesSpec ==
  /\ FilesInit
  /\ [][FilesNext]_<<topic, text, vars, diskvars>>
  /\ \A t \in Tasks : WF_diskvars(Handling(t))
=============================================================================
