------------------------------ MODULE DailyLog ------------------------------
(***************************************************************************)
(* ustd::log: every process of the service appends its lines to one file   *)
(* per day, which all processes share, and deletes old files when it opens *)
(* a new one (externals/ustd/source/ustd/log.cpp).  The members of Log are *)
(* copied by fork, the mutex included; files are on disk and shared.       *)
(* A line takes its time before it takes the mutex.                        *)
(***************************************************************************)
EXTENDS Integers, FiniteSets

CONSTANTS Procs, Parent,   \* processes; the one that forks the others
          Threads, Owner,  \* Owner[t]: the process of thread t
          Forker,          \* the thread of the parent that forks
          Reserve,         \* reserve_days_
          FirstDay, LastDay,   \* bound of the clock; earlier days may be on disk
          None

ASSUME LogAssumption ==
  /\ Parent \in Procs /\ Owner \in [Threads -> Procs]
  /\ Forker \in Threads /\ Owner[Forker] = Parent
  /\ Reserve \in Nat /\ LastDay \in Nat /\ FirstDay \in 0..LastDay
  /\ {None, "copied"} \cap Threads = {} /\ None # "copied" /\ None \notin 0..LastDay

VARIABLES
  day,          \* the date
  disk,         \* the days that have a file
  lines,        \* history: what was appended and must still be there
  running,      \* processes that are alive
  lock_,        \* the mutex of each process: None, its holder, or "copied"
  old_suffix_,  \* the day of the last rotation of each process, or None
  file_,        \* the open file of each process, or None: it is not good()
  at,           \* where each thread is in print_v
  stamp,        \* the day in the time of its line
  cursor        \* the day clear_files will delete next

logVars    == <<old_suffix_, file_>>
threadVars == <<at, stamp, cursor>>
vars == <<day, disk, lines, running, lock_, logVars, threadVars>>

Days == 0..LastDay

\* An open file may have been deleted: then it is not linked.
File == [day : Days, linked : BOOLEAN]
Line == [day : Days, file : Days, there : BOOLEAN]

Init ==
  /\ day = FirstDay /\ lines = {} /\ running = Procs
  /\ disk \in SUBSET (0..FirstDay)
  /\ lock_ = [p \in Procs |-> None]
  /\ old_suffix_ = [p \in Procs |-> None] /\ file_ = [p \in Procs |-> None]
  /\ at = [t \in Threads |-> "out"]
  /\ stamp = [t \in Threads |-> 0] /\ cursor = [t \in Threads |-> 0]

-----------------------------------------------------------------------------
(***************************************************************************)
(*                         print_v: time, then mutex                       *)
(***************************************************************************)
PrintV(t) ==
  /\ at[t] = "out" /\ Owner[t] \in running
  /\ at'    = [at EXCEPT ![t] = "stamped"]
  /\ stamp' = [stamp EXCEPT ![t] = day]
  /\ UNCHANGED <<day, disk, lines, running, lock_, logVars, cursor>>

Lock(t) ==
  /\ at[t] = "stamped" /\ lock_[Owner[t]] = None
  /\ lock_' = [lock_ EXCEPT ![Owner[t]] = t]
  /\ at'    = [at EXCEPT ![t] = "write"]
  /\ UNCHANGED <<day, disk, lines, running, logVars, stamp, cursor>>

Leave(t) == /\ lock_'  = [lock_ EXCEPT ![Owner[t]] = None]
            /\ at'     = [at EXCEPT ![t] = "out"]
            /\ stamp'  = [stamp EXCEPT ![t] = 0]

-----------------------------------------------------------------------------
(***************************************************************************)
(* write_to_file, under the mutex: on another day than the last line's,    *)
(* clear_files, then the file of the line's day.                           *)
(***************************************************************************)
\* Mutants: only a later day is another day; a day too few is deleted.
NewDayLater(t) == LET old == old_suffix_[Owner[t]]
                  IN  stamp[t] \notin (IF old = None THEN {} ELSE 0..old)
LastKeptMinusOne == day - Reserve - 2

NewDay(t) == stamp[t] # old_suffix_[Owner[t]]

FirstDeleted == day - Reserve - 1

Rotate(t) ==
  /\ at[t] = "write" /\ NewDay(t)
  /\ cursor' = [cursor EXCEPT ![t] = FirstDeleted]
  /\ at'     = [at EXCEPT ![t] = "clear"]
  /\ UNCHANGED <<day, disk, lines, running, lock_, logVars, stamp>>

Unlink(d) ==
  /\ disk'  = disk \ {d}
  /\ file_' = [p \in Procs |-> IF file_[p] # None /\ file_[p].day = d
                               THEN [file_[p] EXCEPT !.linked = FALSE] ELSE file_[p]]
  /\ lines' = {IF l.file = d THEN [l EXCEPT !.there = FALSE] ELSE l : l \in lines}

\* One round of clear_files, which ends at the first day without a file.
ClearOne(t) ==
  /\ at[t] = "clear"
  /\ \/ /\ cursor[t] \in disk
        /\ Unlink(cursor[t])
        /\ cursor' = [cursor EXCEPT ![t] = @ - 1]
        /\ UNCHANGED at
     \/ /\ cursor[t] \notin disk
        /\ cursor' = [cursor EXCEPT ![t] = 0]
        /\ at'     = [at EXCEPT ![t] = "open"]
        /\ UNCHANGED <<disk, file_, lines>>
  /\ UNCHANGED <<day, running, lock_, old_suffix_, stamp>>

\* The day is noted whether or not the file could be opened.
Open(t, ok) ==
  /\ at[t] = "open"
  /\ disk'  = IF ok THEN disk \cup {stamp[t]} ELSE disk
  /\ file_' = [file_ EXCEPT ![Owner[t]] =
                IF ok THEN [day |-> stamp[t], linked |-> TRUE] ELSE None]
  /\ old_suffix_' = [old_suffix_ EXCEPT ![Owner[t]] = stamp[t]]
  /\ at' = [at EXCEPT ![t] = "append"]
  /\ UNCHANGED <<day, lines, running, lock_, stamp, cursor>>

Ready(t) == at[t] = "append" \/ (at[t] = "write" /\ ~NewDay(t))

\* A stream that is not good() drops the line.
AppendLine(t) ==
  /\ Ready(t)
  /\ LET f == file_[Owner[t]] IN
     lines' = IF f = None THEN lines
              ELSE lines \cup {[day |-> stamp[t], file |-> f.day, there |-> f.linked]}
  /\ Leave(t)
  /\ UNCHANGED <<day, disk, running, logVars, cursor>>

\* A write fails, and with it the stream until the next rotation.
AppendFails(t) ==
  /\ Ready(t) /\ file_[Owner[t]] # None
  /\ file_' = [file_ EXCEPT ![Owner[t]] = None]
  /\ Leave(t)
  /\ UNCHANGED <<day, disk, lines, running, old_suffix_, cursor>>

-----------------------------------------------------------------------------
(***************************************************************************)
(* A worker dies wherever its threads are; the parent's main thread, when *)
(* it is not in the log, forks another, which gets a copy of the log: if   *)
(* another thread of the parent has the mutex, nobody unlocks the copy.    *)
(***************************************************************************)
Die(p) ==
  /\ p \in running \ {Parent}
  /\ running' = running \ {p}
  /\ lock_'   = [lock_ EXCEPT ![p] = None]
  /\ old_suffix_' = [old_suffix_ EXCEPT ![p] = None]
  /\ file_'   = [file_ EXCEPT ![p] = None]
  /\ at'      = [t \in Threads |-> IF Owner[t] = p THEN "out" ELSE at[t]]
  /\ stamp'   = [t \in Threads |-> IF Owner[t] = p THEN 0 ELSE stamp[t]]
  /\ cursor'  = [t \in Threads |-> IF Owner[t] = p THEN 0 ELSE cursor[t]]
  /\ UNCHANGED <<day, disk, lines>>

Fork(p) ==
  /\ p \in Procs \ running
  /\ at[Forker] = "out"
  /\ running' = running \cup {p}
  /\ lock_'   = [lock_ EXCEPT ![p] = IF lock_[Parent] = None THEN None ELSE "copied"]
  /\ old_suffix_' = [old_suffix_ EXCEPT ![p] = old_suffix_[Parent]]
  /\ file_'   = [file_ EXCEPT ![p] = file_[Parent]]
  /\ UNCHANGED <<day, disk, lines, threadVars>>

\* Midnight.  Bound: a line is written before the day after the next begins.
Midnight ==
  /\ day < LastDay
  /\ \A t \in Threads : at[t] # "out" /\ lock_[Owner[t]] # "copied" => stamp[t] = day
  /\ day'   = day + 1
  /\ lines' = {l \in lines : l.day >= day' - Reserve}
  /\ UNCHANGED <<disk, running, lock_, logVars, threadVars>>

ThreadStep(t) == \/ PrintV(t) \/ Lock(t) \/ Rotate(t) \/ ClearOne(t)
                 \/ (\E ok \in BOOLEAN : Open(t, ok))
                 \/ AppendLine(t) \/ AppendFails(t)

Next == \/ \E t \in Threads : ThreadStep(t)
        \/ \E p \in Procs : Die(p) \/ Fork(p)
        \/ Midnight

Spec == Init /\ [][Next]_vars
=============================================================================
