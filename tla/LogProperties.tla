--------------------------- MODULE LogProperties ---------------------------
(***************************************************************************)
(* What the shared files of ustd::log must keep, and for how long.         *)
(***************************************************************************)
EXTENDS DailyLog

\* Types; the mutex is held by a thread of its process that is inside.
TypeOK ==
  /\ day \in FirstDay..LastDay /\ disk \subseteq Days /\ lines \subseteq Line
  /\ running \subseteq Procs /\ Parent \in running
  /\ lock_ \in [Procs -> Threads \cup {None, "copied"}]
  /\ old_suffix_ \in [Procs -> Days \cup {None}] /\ file_ \in [Procs -> File \cup {None}]
  /\ at \in [Threads -> {"out", "stamped", "write", "clear", "open", "append"}]
  /\ stamp \in [Threads -> Days] /\ cursor \in [Threads -> Int]
  /\ \A t \in Threads : at[t] \notin {"out", "stamped"} <=> lock_[Owner[t]] = t

(***************************************************************************)
(* A line of the last Reserve days is where it is looked for: in the file  *)
(* of its own day, which no process has deleted, though lines take their   *)
(* time before the mutex and each process rotates on its own               *)
(* (log.cpp:544, 629, 645-659).                                            *)
(***************************************************************************)
LineKept == \A l \in lines : l.day >= day - Reserve => l.file = l.day /\ l.there

(***************************************************************************)
(* No file within the period to keep is deleted, by any process, even when *)
(* midnight passes in the middle of clear_files (log.cpp:663-672).         *)
(***************************************************************************)
RecentKept == [][\A d \in disk \ disk' : d < day - Reserve]_vars

(***************************************************************************)
(* Once a process has the file of today open, an older file than the       *)
(* period is left only behind a day without a file: clear_files stops at   *)
(* that day (log.cpp:669-670), and no later rotation passes it.            *)
(***************************************************************************)
OldIsBehindGap ==
  (\E p \in running : old_suffix_[p] = day) =>
    \A d \in disk : d < day - Reserve => \E e \in (d + 1)..(day - Reserve - 1) : e \notin disk
=============================================================================
