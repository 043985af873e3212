----------------------------- MODULE FileProofs -----------------------------
(***************************************************************************)
(* TLAPS proofs about what the processes share on disk: what the workers   *)
(* leave of their tasks, for any tasks, workers, times and faults, and the *)
(* files of the log, for any processes, threads and days to keep.          *)
(***************************************************************************)
EXTENDS LogProperties, DiskProperties, SequenceTheorems, FiniteSetTheorems, TLAPS

USE DiskAssumption DEF diskvars, taskVars, deathVars

Idle == {"new", "done", "stopped"}
Busy == {"check", "walkSave", "makeSave", "name", "makeDown", "fetch", "work", "upload",
         "cleanDown", "listSave", "cleanSave", "forget", "silent"}
Phases == Idle \union Busy \union {"loaded", "store", "reply"}

(***************************************************************************)
(* The file of a request: torn while it is written, whole while the task   *)
(* works or waits to be loaded, gone from the deletion on.  Of a worker    *)
(* that was killed it is left as it was; a parent that could not start has *)
(* no workers.                                                             *)
(***************************************************************************)
FileShape ==
  /\ tpc \in [Tasks -> Phases]  /\ message \in [Tasks -> {"none", "torn", "whole"}]
  /\ place \in [Tasks -> {"none", "store", "reply", "other"}]
  /\ answered \subseteq Tasks  /\ broken \in BOOLEAN
  /\ \A t \in Tasks : tpc[t] = "store" => message[t] = "torn"
  /\ \A t \in Tasks : tpc[t] \in Busy \union {"loaded"} => message[t] = "whole"
  /\ \A t \in Tasks : tpc[t] \in {"new", "done", "reply"} => message[t] = "none"
  /\ \A t \in Tasks : tpc[t] = "stopped" =>
       /\ message[t] = "torn" => place[t] = "store"
       /\ message[t] = "none" => t \in answered \/ place[t] = "reply"
  /\ broken => \A t \in Tasks : tpc[t] \in Idle

FileInv == FileShape /\ BrokenHasCause

LEMMA FileInitial == DiskInit => FileInv
  BY DEF DiskInit, FileInv, FileShape, BrokenHasCause, Phases, Idle, Busy

\* A task goes on with its work: its request stays as it is.
LEMMA WorkKeepsFile ==
  ASSUME FileInv, NEW t \in Tasks, NEW to \in Busy, tpc[t] \in Busy,
         tpc' = [tpc EXCEPT ![t] = to], UNCHANGED <<message, place, broken, answered>>
  PROVE  FileInv'
  BY DEF FileInv, FileShape, BrokenHasCause, Phases, Idle, Busy

LEMMA FileStep == FileInv /\ [DiskNext]_diskvars => FileInv'
<1> SUFFICES ASSUME FileInv, [DiskNext]_diskvars PROVE FileInv'
    OBVIOUS
<1> USE DEF FileInv, FileShape, BrokenHasCause, Phases, Idle, Busy, Step, Local
<1>1. ASSUME NEW t \in Tasks, OpenMessage(t) PROVE FileInv'
  BY <1>1 DEF OpenMessage, WriteMessage
<1>2. ASSUME NEW t \in Tasks, OpenLeft(t) PROVE FileInv'
  BY <1>2 DEF OpenLeft, WriteMessage
<1>3. ASSUME NEW t \in Tasks, CloseMessage(t) PROVE FileInv'
  BY <1>3 DEF CloseMessage, WriteMessage
<1>4. ASSUME NEW t \in Tasks, Forget(t) PROVE FileInv'
  BY <1>4 DEF Forget, WriteMessage
<1>5. ASSUME NEW t \in Tasks, Reply(t) PROVE FileInv'
  BY <1>5 DEF Reply
<1>6. ASSUME NEW t \in Tasks, NEW to \in Busy, tpc[t] \in Busy, tpc' = [tpc EXCEPT ![t] = to],
             UNCHANGED <<message, place, broken, answered>>
      PROVE  FileInv'
  BY <1>6, WorkKeepsFile
<1>7. ASSUME NEW t \in Tasks, CheckSave(t) \/ WalkSave(t) \/ NameDownload(t) PROVE FileInv'
  <2>1. tpc[t] \in Busy /\ UNCHANGED <<message, place, broken, answered>>
    BY <1>7 DEF CheckSave, CheckSaveWhen, WalkSave, NameDownload, Walk
  <2>2. \E to \in Busy : tpc' = [tpc EXCEPT ![t] = to]
    BY <1>7 DEF CheckSave, CheckSaveWhen, WalkSave, NameDownload, Walk
  <2>3. QED BY <1>6, <2>1, <2>2, ZenonT(60)
<1>8. ASSUME NEW t \in Tasks, MakeSave(t) \/ MakeDownload(t) PROVE FileInv'
  <2>1. tpc[t] \in Busy /\ UNCHANGED <<message, place, broken, answered>>
    BY <1>8 DEF MakeSave, MakeDownload, Make, MakeOneOf
  <2>2. \E to \in Busy : tpc' = [tpc EXCEPT ![t] = to]
    BY <1>8 DEF MakeSave, MakeDownload, Make, MakeOneOf
  <2>3. QED BY <1>6, <2>1, <2>2, ZenonT(60)
<1>9. ASSUME NEW t \in Tasks, Fetch(t) \/ UnknownBucket(t) \/ FetchFails(t) \/ Work(t) \/ Upload(t) \/ NoReply(t) PROVE FileInv'
  <2>1. tpc[t] \in Busy /\ UNCHANGED <<place, broken, answered>> /\ message' = message
    BY <1>9 DEF Fetch, UnknownBucket, FetchFails, DownloadError, Work, Upload, UploadThen, NoReply
  <2>2. \E to \in Busy : tpc' = [tpc EXCEPT ![t] = to]
    BY <1>9 DEF Fetch, UnknownBucket, FetchFails, DownloadError, Work, Upload, UploadThen, NoReply
  <2>3. QED BY <1>6, <2>1, <2>2, ZenonT(60)
<1>10. ASSUME NEW t \in Tasks, DeleteDownload(t) \/ ListSave(t) \/ RemoveSave(t) PROVE FileInv'
  <2>1. tpc[t] \in Busy /\ UNCHANGED <<message, place, broken, answered>>
    BY <1>10 DEF DeleteDownload, DeleteDownloadAnd, ListSave, ListOf, RemoveSave
  <2>2. \E to \in Busy : tpc' = [tpc EXCEPT ![t] = to]
    BY <1>10 DEF DeleteDownload, DeleteDownloadAnd, ListSave, ListOf, RemoveSave
  <2>3. QED BY <1>6, <2>1, <2>2, ZenonT(60)
<1>11. ASSUME NEW t \in Tasks, NEW f \in Content, DeleteEntry(t, f) PROVE FileInv'
  <2>1. tpc[t] \in Busy /\ UNCHANGED <<message, place, broken, answered>>
    BY <1>11 DEF DeleteEntry
  <2>2. \E to \in Busy : tpc' = [tpc EXCEPT ![t] = to]
    BY <1>11 DEF DeleteEntry
  <2>3. QED BY <1>6, <2>1, <2>2, ZenonT(60)
<1>12. ASSUME NEW t \in Tasks, Kill(t) PROVE FileInv'
  BY <1>12 DEF Kill, Running, Place
<1>13. CASE Tick
  BY <1>13 DEF Tick
<1>14. ASSUME NEW found \in SUBSET Tasks, NEW loaded \in SUBSET found, Restart(found, loaded) PROVE FileInv'
  <2>1. /\ \A t \in found : message[t] # "none"  /\ message' = message  /\ answered' = answered
        /\ broken' = (\E t \in found : message[t] = "torn")  /\ ~broken
        /\ place' = [t \in Tasks |-> IF t \in Running THEN Place(t) ELSE place[t]]
        /\ tpc' = [t \in Tasks |-> IF t \in loaded /\ ~broken' THEN "loaded"
                                   ELSE IF t \in Running THEN "stopped" ELSE tpc[t]]
    BY <1>14 DEF Restart
  <2>0. message' = message /\ answered' = answered
    BY <1>14 DEF Restart
  <2>2. \A t \in Tasks : message[t] = "torn" => place'[t] = "store"
    BY <2>1 DEF Running, Place
  <2>3. \A t \in Tasks : tpc'[t] = "stopped" /\ message[t] = "none" => t \in answered \/ place'[t] = "reply"
    BY <2>1 DEF Running, Place
  <2>4. \A t \in Tasks : tpc'[t] = "loaded" => message[t] = "whole"
    BY <2>1 DEF Running
  <2>5. /\ tpc' \in [Tasks -> Phases]
        /\ place' \in [Tasks -> {"none", "store", "reply", "other"}]
        /\ broken' \in BOOLEAN
    BY <2>1 DEF Running, Place
  <2>6. broken' => \A t \in Tasks : tpc'[t] \in Idle
    BY <2>1 DEF Running
  <2>7. \A t \in Tasks : (tpc'[t] = tpc[t] /\ tpc[t] \in Idle) \/ tpc'[t] \in {"loaded", "stopped"}
    BY <2>1 DEF Running
  <2>8. broken' => \E t \in Tasks : place'[t] = "store" /\ message[t] = "torn"
    BY <2>1, <2>2
  <2>9. \A t \in Tasks :
          /\ tpc'[t] = "store" => message[t] = "torn"
          /\ tpc'[t] \in Busy \union {"loaded"} => message[t] = "whole"
          /\ tpc'[t] \in {"new", "done", "reply"} => message[t] = "none"
    BY <2>4, <2>7
  <2> HIDE DEF Phases, Busy, Idle
  <2>10. FileShape'
    <3>1. message' \in [Tasks -> {"none", "torn", "whole"}] /\ answered' \subseteq Tasks
      BY <2>0
    <3>2. \A t \in Tasks :
            /\ tpc'[t] = "store" => message'[t] = "torn"
            /\ tpc'[t] \in Busy \union {"loaded"} => message'[t] = "whole"
            /\ tpc'[t] \in {"new", "done", "reply"} => message'[t] = "none"
      BY <2>0, <2>9
    <3>3. \A t \in Tasks : tpc'[t] = "stopped" =>
            /\ message'[t] = "torn" => place'[t] = "store"
            /\ message'[t] = "none" => t \in answered' \/ place'[t] = "reply"
      BY <2>0, <2>2, <2>3
    <3>4. QED BY <2>5, <2>6, <3>1, <3>2, <3>3
  <2>11. BrokenHasCause'
    BY <2>1, <2>8
  <2>12. QED BY <2>10, <2>11
<1>15. CASE UNCHANGED diskvars
  BY <1>15
<1>16. QED
  <2> HIDE DEF FileInv
  <2> QED
    BY <1>1, <1>2, <1>3, <1>4, <1>5, <1>7, <1>8, <1>9, <1>10, <1>11, <1>12, <1>13, <1>14, <1>15
       DEF DiskNext, DiskStep

THEOREM FileInvariance == DiskSpec => []FileInv
  BY FileInitial, FileStep, PTL DEF DiskSpec

(***************************************************************************)
(* A request that was stopped without an answer can be done again, unless  *)
(* it was stopped in one of two gaps, and the parent fails to start only   *)
(* because of a request that was torn.                                     *)
(***************************************************************************)
THEOREM RequestsSurviveDeaths == DiskSpec => []RequestsSurvive
<1>1. FileInv => RequestsSurvive
  BY DEF FileInv, FileShape, LostInGapOnly, RequestsSurvive
<1>2. QED BY FileInvariance, <1>1, PTL

-----------------------------------------------------------------------------
(***************************************************************************)
(* Types.  The local variables are a record; what is listed to be made is  *)
(* the save path or the directory of the download, with the common         *)
(* directory behind it while that is missing.                              *)
(***************************************************************************)
LocalVars == [save : Dir \union {NoDir}, down : Dir \union {NoDir}, file_path : BOOLEAN,
           need : Seq(Dir), todo : SUBSET Content,
           status : {"success", "create", "download", "upload"}]

Dated(d) == d = NoDir \/ (d \in Dir /\ d.at # 0)
Listed(need, d, b, there) == need = <<d, Base(b)>> \/ (need = <<d>> /\ Base(b) \in there)

DirTypes ==
  /\ second \in 1..LastSecond  /\ dirs \subseteq Dir  /\ files \subseteq Content
  /\ tpc \in [Tasks -> Phases]  /\ call \in [Tasks -> LocalVars]
  /\ dfaults \in Nat  /\ restarts \in Nat  /\ bare \in BOOLEAN
  /\ hit \subseteq Tasks  /\ users \subseteq [task : Tasks, run : Nat, dir : Dir]

Named == {"walkSave", "makeSave", "name", "makeDown", "fetch", "work"}

DirShape ==
  /\ \A f \in files : f.dir \in dirs /\ f.dir.base = "new_save"
  /\ \A d \in dirs : Base(d.base) \in dirs
  /\ \A t \in Tasks :
       /\ Dated(call[t].save) /\ Dated(call[t].down)
       /\ call[t].save # NoDir => call[t].save.base = "new_save"
       /\ call[t].down # NoDir => call[t].down.base = "download"
       /\ tpc[t] \in Named => call[t].save # NoDir
       /\ tpc[t] = "makeSave" => Listed(call[t].need, call[t].save, "new_save", dirs)
       /\ tpc[t] = "makeDown" => /\ call[t].down # NoDir
                                 /\ Listed(call[t].need, call[t].down, "download", dirs)

DirInv == DirTypes /\ DirShape

LEMMA BasesAreDirs == \A b \in Bases : Base(b) \in Dir /\ Base(b).base = b /\ Base(b).at = 0
  BY DEF Bases, Base, Dir

LEMMA StartIsLocal == Start \in LocalVars /\ Start.save = NoDir /\ Start.down = NoDir
  BY DEF Start, LocalVars

LEMMA DirInitial == DiskInit => DirInv
<1> SUFFICES ASSUME DiskInit PROVE DirInv
    OBVIOUS
<1> USE DEF DiskInit
<1>1. DirTypes
  BY BasesAreDirs, StartIsLocal DEF DirTypes, Phases, Idle, Busy
<1>2. DirShape
  <2>1. \A d \in dirs : Base(d.base) \in dirs
    BY BasesAreDirs
  <2>2. \A t \in Tasks : /\ tpc[t] = "new" /\ call[t] = Start
                          /\ call[t].save = NoDir /\ call[t].down = NoDir
    BY StartIsLocal
  <2>3. files = {}
    OBVIOUS
  <2> HIDE DEF DiskInit
  <2>4. "new" \notin Named /\ "new" # "makeSave" /\ "new" # "makeDown"
    BY DEF Named
  <2>5. \A t \in Tasks : Dated(call[t].save) /\ Dated(call[t].down)
    BY <2>2 DEF Dated
  <2>6. QED BY <2>1, <2>2, <2>3, <2>4, <2>5 DEF DirShape
<1>3. QED BY <1>1, <1>2 DEF DirInv

(***************************************************************************)
(* A task goes on: its own variables stay within the types, and the disk   *)
(* keeps the common directories and those of its files.                    *)
(***************************************************************************)
LEMMA DiskKept ==
  ASSUME DirInv, NEW t \in Tasks, NEW to \in Phases, NEW r \in LocalVars,
         tpc' = [tpc EXCEPT ![t] = to], call' = [call EXCEPT ![t] = r],
         UNCHANGED <<second, bare>>,
         dirs' \subseteq Dir, files' \subseteq Content,
         \A f \in files' : f.dir \in dirs' /\ f.dir.base = "new_save",
         \A d \in dirs' : Base(d.base) \in dirs',
         \A b \in Bases : Base(b) \in dirs => Base(b) \in dirs',
         dfaults' \in Nat, restarts' \in Nat, hit' \subseteq Tasks,
         users' \subseteq [task : Tasks, run : Nat, dir : Dir],
         Dated(r.save), Dated(r.down),
         r.save # NoDir => r.save.base = "new_save",
         r.down # NoDir => r.down.base = "download",
         to \in Named => r.save # NoDir,
         to = "makeSave" => Listed(r.need, r.save, "new_save", dirs'),
         to = "makeDown" => r.down # NoDir /\ Listed(r.need, r.down, "download", dirs')
  PROVE  DirInv'
<1>1. DirTypes'
  BY DEF DirInv, DirTypes
<1>2. DirShape'
  <2>1. \A u \in Tasks : u # t => tpc'[u] = tpc[u] /\ call'[u] = call[u]
    BY DEF DirInv, DirTypes
  <2>2. tpc'[t] = to /\ call'[t] = r
    BY DEF DirInv, DirTypes
  <2>3. \A need, d, b : b \in Bases /\ Listed(need, d, b, dirs) => Listed(need, d, b, dirs')
    BY DEF Listed
  <2>4. "new_save" \in Bases /\ "download" \in Bases
    BY DEF Bases
  <2>5. ASSUME NEW u \in Tasks
        PROVE  /\ Dated(call'[u].save) /\ Dated(call'[u].down)
               /\ call'[u].save # NoDir => call'[u].save.base = "new_save"
               /\ call'[u].down # NoDir => call'[u].down.base = "download"
               /\ tpc'[u] \in Named => call'[u].save # NoDir
               /\ tpc'[u] = "makeSave" => Listed(call'[u].need, call'[u].save, "new_save", dirs')
               /\ tpc'[u] = "makeDown" => /\ call'[u].down # NoDir
                                          /\ Listed(call'[u].need, call'[u].down, "download", dirs')
    <3>1. CASE u = t
      BY <2>2, <3>1 DEF Listed
    <3>2. CASE u # t
      <4>1. tpc'[u] = tpc[u] /\ call'[u] = call[u]
        BY <2>1, <3>2
      <4>2. QED BY <2>4, <4>1 DEF DirInv, DirShape, Listed
    <3>3. QED BY <3>1, <3>2
  <2>6. QED BY <2>5 DEF DirShape, Dated
<1>3. QED BY <1>1, <1>2 DEF DirInv

LEMMA OwnStep ==
  ASSUME DirInv, NEW t \in Tasks, NEW to \in Phases, NEW r \in LocalVars,
         tpc' = [tpc EXCEPT ![t] = to], call' = [call EXCEPT ![t] = r],
         UNCHANGED <<second, dirs, files, bare>>,
         dfaults' \in Nat, restarts' \in Nat, hit' \subseteq Tasks,
         users' \subseteq [task : Tasks, run : Nat, dir : Dir],
         Dated(r.save), Dated(r.down),
         r.save # NoDir => r.save.base = "new_save",
         r.down # NoDir => r.down.base = "download",
         to \in Named => r.save # NoDir,
         to = "makeSave" => Listed(r.need, r.save, "new_save", dirs),
         to = "makeDown" => r.down # NoDir /\ Listed(r.need, r.down, "download", dirs)
  PROVE  DirInv'
<1>1. /\ dirs' \subseteq Dir /\ files' \subseteq Content
      /\ \A f \in files' : f.dir \in dirs' /\ f.dir.base = "new_save"
      /\ \A d \in dirs' : Base(d.base) \in dirs'
      /\ \A b \in Bases : Base(b) \in dirs => Base(b) \in dirs'
  BY DEF DirInv, DirTypes, DirShape
<1>2. /\ to = "makeSave" => Listed(r.need, r.save, "new_save", dirs')
      /\ to = "makeDown" => r.down # NoDir /\ Listed(r.need, r.down, "download", dirs')
  BY DEF Listed
<1>3. QED BY <1>1, <1>2, DiskKept

LEMMA FieldsOfLocal ==
  ASSUME NEW r \in LocalVars
  PROVE  /\ \A s \in {"success", "create", "download", "upload"} :
              /\ [r EXCEPT !.status = s] \in LocalVars
              /\ [r EXCEPT !.status = s].save = r.save
              /\ [r EXCEPT !.status = s].down = r.down
              /\ [r EXCEPT !.status = s].need = r.need
         /\ \A n \in Seq(Dir) :
              /\ [r EXCEPT !.need = n] \in LocalVars
              /\ [r EXCEPT !.need = n].save = r.save
              /\ [r EXCEPT !.need = n].down = r.down
              /\ [r EXCEPT !.need = n].need = n
         /\ \A d \in Dir :
              /\ [r EXCEPT !.save = d] \in LocalVars /\ [r EXCEPT !.down = d] \in LocalVars
              /\ [r EXCEPT !.save = d].save = d /\ [r EXCEPT !.save = d].down = r.down
              /\ [r EXCEPT !.down = d].save = r.save /\ [r EXCEPT !.down = d].down = d
         /\ \A e \in SUBSET Content :
              /\ [r EXCEPT !.todo = e] \in LocalVars
              /\ [r EXCEPT !.todo = e].save = r.save /\ [r EXCEPT !.todo = e].down = r.down
         /\ [r EXCEPT !.file_path = TRUE] \in LocalVars
         /\ [r EXCEPT !.file_path = TRUE].save = r.save
         /\ [r EXCEPT !.file_path = TRUE].down = r.down
  BY DEF LocalVars

LEMMA CallFacts ==
  ASSUME DirInv, NEW t \in Tasks
  PROVE  /\ call[t] \in LocalVars /\ call[t].need \in Seq(Dir) /\ call[t].todo \subseteq Content
         /\ Dated(call[t].save) /\ Dated(call[t].down)
         /\ call[t].save # NoDir => call[t].save.base = "new_save" /\ call[t].save \in Dir
         /\ call[t].down # NoDir => call[t].down.base = "download" /\ call[t].down \in Dir
         /\ tpc[t] \in Named => call[t].save # NoDir
         /\ call = [call EXCEPT ![t] = call[t]]
         /\ dfaults \in Nat /\ restarts \in Nat /\ hit \subseteq Tasks
         /\ users \subseteq [task : Tasks, run : Nat, dir : Dir]
  BY DEF DirInv, DirTypes, DirShape, LocalVars

\* Steps that only move on.
LEMMA MoveStep ==
  ASSUME DirInv, NEW t \in Tasks, NEW to \in Phases \ Named, tpc' = [tpc EXCEPT ![t] = to],
         UNCHANGED <<second, dirs, files, call, bare, dfaults, restarts, hit, users>>
  PROVE  DirInv'
<1>1. call' = [call EXCEPT ![t] = call[t]]
  BY CallFacts
<1>2. to # "makeSave" /\ to # "makeDown"
  BY DEF Named
<1>3. QED BY <1>1, <1>2, CallFacts, OwnStep

\* Steps that keep the names of the directories.
LEMMA LocalStep ==
  ASSUME DirInv, NEW t \in Tasks, NEW to \in Phases, NEW r \in LocalVars,
         to \in Named => to = "work" /\ call[t].save # NoDir,
         tpc' = [tpc EXCEPT ![t] = to], call' = [call EXCEPT ![t] = r],
         r.save = call[t].save, r.down = call[t].down,
         UNCHANGED <<second, dirs, files, bare, restarts, users>>,
         dfaults' \in Nat, hit' \subseteq Tasks
  PROVE  DirInv'
<1>1. /\ Dated(r.save) /\ Dated(r.down)
      /\ r.save # NoDir => r.save.base = "new_save"
      /\ r.down # NoDir => r.down.base = "download"
      /\ to \in Named => r.save # NoDir
      /\ to # "makeSave" /\ to # "makeDown"
  BY CallFacts DEF Named
<1>2. restarts' \in Nat /\ users' \subseteq [task : Tasks, run : Nat, dir : Dir]
  BY CallFacts
<1>3. QED BY <1>1, <1>2, OwnStep

LEMMA LastOfList ==
  ASSUME NEW x \in Dir, NEW y \in Dir
  PROVE  /\ Last(<<x, y>>) = y /\ Front(<<x, y>>) = <<x>>
         /\ Last(<<x>>) = x /\ Front(<<x>>) = << >>
<1>1. Last(<<x, y>>) = y /\ Last(<<x>>) = x
  BY DEF Last
<1>2. Front(<<x>>) = << >>
  <2>1. Front(<<x>>) = SubSeq(<<x>>, 1, 0)
    BY DEF Front
  <2>2. QED BY <2>1, SubSeqEmpty
<1>3. Front(<<x, y>>) = <<x>>
  <2> DEFINE s == <<x, y>>
             f == SubSeq(s, 1, 1)
  <2>1. Front(<<x, y>>) = f
    BY DEF Front
  <2>2. \A i \in 1..1 : s[i] \in Dir
    OBVIOUS
  <2>3. f \in Seq(Dir) /\ Len(f) = 1 /\ f[1] = s[1]
    <3> HIDE DEF s
    <3>1. /\ SubSeq(s, 1, 1) \in Seq(Dir)
          /\ Len(SubSeq(s, 1, 1)) = (IF 1 <= 1 THEN 1 - 1 + 1 ELSE 0)
          /\ \A i \in 1..(1 - 1 + 1) : SubSeq(s, 1, 1)[i] = s[1 + i - 1]
      BY <2>2, SubSeqProperties
    <3>2. QED BY <3>1
  <2>4. s[1] = x
    OBVIOUS
  <2> HIDE DEF f, s
  <2>5. f = <<x>>
    BY <2>3, <2>4
  <2>6. QED BY <2>1, <2>5
<1>4. QED BY <1>1, <1>2, <1>3

\* A directory that is made: one of those that were listed.
LEMMA MakeOneStep ==
  ASSUME DirInv, NEW t \in Tasks,
         NEW phase \in {"makeSave", "makeDown"}, NEW next \in {"name", "fetch"},
         NEW error \in {"create", "download"}, NEW d, NEW b \in Bases,
         d \in Dir, d.base = b, Listed(call[t].need, d, b, dirs), call[t].save # NoDir,
         phase = "makeSave" => d = call[t].save /\ b = "new_save",
         phase = "makeDown" => d = call[t].down /\ b = "download",
         Make(t, phase, next, error)
  PROVE  DirInv'
<1> DEFINE made == Last(call[t].need)
           rest == Front(call[t].need)
<1>0. <<d>> \in Seq(Dir) /\ << >> \in Seq(Dir)
  OBVIOUS
<1>1. Base(b) \in Dir /\ Base(b).base = b
  BY BasesAreDirs
<1>2. \/ made = Base(b) /\ rest = <<d>>
      \/ made = d /\ rest = << >> /\ Base(b) \in dirs
  BY <1>1, LastOfList DEF Listed
<1>3. MakeOneOf(t, phase, next, error, made, rest)
  BY DEF Make
<1> HIDE DEF made, rest
<1>4. /\ dirs' = dirs \union {made} /\ UNCHANGED <<second, files, bare, dfaults, restarts, hit, users>>
  BY <1>3 DEF MakeOneOf, deathVars
<1>5. made \in Dir /\ (made = Base(b) \/ (made = d /\ Base(b) \in dirs))
  BY <1>1, <1>2
<1>6. /\ dirs' \subseteq Dir /\ files' \subseteq Content
      /\ \A f \in files' : f.dir \in dirs' /\ f.dir.base = "new_save"
      /\ \A c \in Bases : Base(c) \in dirs => Base(c) \in dirs'
  BY <1>4, <1>5 DEF DirInv, DirTypes, DirShape
<1>7. \A e \in dirs' : Base(e.base) \in dirs'
  BY <1>1, <1>4, <1>5 DEF DirInv, DirShape
<1>f. /\ dfaults' \in Nat /\ restarts' \in Nat /\ hit' \subseteq Tasks
      /\ users' \subseteq [task : Tasks, run : Nat, dir : Dir]
      /\ UNCHANGED <<second, bare>>
  BY <1>4, CallFacts
<1>g. /\ Dated(call[t].save) /\ Dated(call[t].down)
      /\ call[t].save # NoDir /\ call[t].save.base = "new_save"
      /\ call[t].down # NoDir => call[t].down.base = "download"
  BY CallFacts
<1>8. CASE made \in dirs
  <2> DEFINE r2 == [call[t] EXCEPT !.need = << >>, !.status = error]
  <2>1. r2 \in LocalVars /\ r2.save = call[t].save /\ r2.down = call[t].down
    <3>1. call[t] \in LocalVars
      BY CallFacts
    <3>2. QED BY <1>0, <3>1 DEF LocalVars
  <2>2. tpc' = [tpc EXCEPT ![t] = "cleanDown"] /\ call' = [call EXCEPT ![t] = r2]
    BY <1>3, <1>8 DEF MakeOneOf, Step, Local
  <2> HIDE DEF r2
  <2>3. "cleanDown" \in Phases /\ "cleanDown" \notin Named
    BY DEF Phases, Busy, Named
  <2>4. /\ Dated(r2.save) /\ Dated(r2.down)
        /\ r2.save # NoDir => r2.save.base = "new_save"
        /\ r2.down # NoDir => r2.down.base = "download"
    BY <1>g, <2>1
  <2>5. QED BY <1>6, <1>7, <1>f, <2>1, <2>2, <2>3, <2>4, DiskKept
<1>9. CASE made \notin dirs
  <2> DEFINE r == [call[t] EXCEPT !.need = rest]
             to == IF rest = << >> THEN next ELSE phase
  <2>1. rest \in Seq(Dir) /\ (rest = << >> \/ (rest = <<d>> /\ made = Base(b)))
    BY <1>0, <1>1, <1>2, <1>9
  <2>2. r \in LocalVars /\ r.save = call[t].save /\ r.down = call[t].down /\ r.need = rest
    <3>1. call[t] \in LocalVars
      BY CallFacts
    <3>2. QED BY <2>1, <3>1, FieldsOfLocal, Zenon
  <2>3. tpc' = [tpc EXCEPT ![t] = to] /\ call' = [call EXCEPT ![t] = r]
    BY <1>3, <1>9 DEF MakeOneOf, Step, Local
  <2>4. to \in Phases
    BY DEF Phases, Busy
  <2>5. to \in {"makeSave", "makeDown"} => to = phase /\ rest = <<d>> /\ Base(b) \in dirs'
    BY <1>4, <2>1
  <2> HIDE DEF r, to
  <2>6. to = "makeSave" => Listed(r.need, r.save, "new_save", dirs')
    <3>1. ASSUME to = "makeSave" PROVE Listed(r.need, r.save, "new_save", dirs')
      <4>1. r.need = <<d>> /\ r.save = d /\ Base("new_save") \in dirs'
        BY <2>2, <2>5, <3>1
      <4>2. QED BY <4>1 DEF Listed
    <3>2. QED BY <3>1
  <2>7. to = "makeDown" => r.down # NoDir /\ Listed(r.need, r.down, "download", dirs')
    <3>1. ASSUME to = "makeDown" PROVE r.down # NoDir /\ Listed(r.need, r.down, "download", dirs')
      <4>1. r.need = <<d>> /\ r.down = d /\ Base("download") \in dirs'
        BY <2>2, <2>5, <3>1
      <4>2. d # NoDir
        BY DEF Dir, Bases, NoDir
      <4>3. QED BY <4>1, <4>2 DEF Listed
    <3>2. QED BY <3>1
  <2>8. /\ Dated(r.save) /\ Dated(r.down) /\ r.save # NoDir
        /\ r.save # NoDir => r.save.base = "new_save"
        /\ r.down # NoDir => r.down.base = "download"
    BY <1>g, <2>2
  <2>9. QED BY <1>6, <1>7, <1>f, <2>2, <2>3, <2>4, <2>6, <2>7, <2>8, DiskKept
<1>10. QED BY <1>8, <1>9

(***************************************************************************)
(* The types are kept, and what is on the disk stays in a directory that   *)
(* is there: a directory goes only when it is empty, and the common ones   *)
(* never go.                                                               *)
(***************************************************************************)
LEMMA DirStep == DirInv /\ [DiskNext]_diskvars => DirInv'
<1> SUFFICES ASSUME DirInv, [DiskNext]_diskvars PROVE DirInv'
    OBVIOUS
<1> USE DEF Step, Local
<1>p. {"store", "check", "cleanDown", "upload", "listSave", "cleanSave", "forget", "reply", "done", "stopped",
         "silent"} \subseteq Phases \ Named /\ Named \subseteq Phases
  BY DEF Phases, Idle, Busy, Named
<1>t. /\ dirs \subseteq Dir /\ files \subseteq Content /\ second \in 1..LastSecond
      /\ tpc \in [Tasks -> Phases] /\ call \in [Tasks -> LocalVars] /\ bare \in BOOLEAN
  BY DEF DirInv, DirTypes
<1>s. /\ \A f \in files : f.dir \in dirs /\ f.dir.base = "new_save"
      /\ \A d \in dirs : Base(d.base) \in dirs
  BY DEF DirInv, DirShape
<1>d. \A b \in Bases : LET d == [base |-> b, at |-> second] IN
        d \in Dir /\ d.base = b /\ d.at # 0 /\ d # NoDir /\ Dated(d)
  <2>1. second \in 1..LastSecond /\ second # 0 /\ second \in 0..LastSecond
    BY <1>t
  <2>2. \A b \in Bases : b # "none"
    BY DEF Bases
  <2>3. QED BY <2>1, <2>2 DEF Dir, Dated, NoDir
<1>b. "new_save" \in Bases /\ "download" \in Bases
  BY DEF Bases
<1>1. ASSUME NEW t \in Tasks, OpenMessage(t) \/ OpenLeft(t) \/ CloseMessage(t) \/ Forget(t)
      PROVE  DirInv'
  <2>1. \E to \in {"store", "check", "reply"} : tpc' = [tpc EXCEPT ![t] = to]
    BY <1>1 DEF OpenMessage, OpenLeft, CloseMessage, Forget, WriteMessage
  <2>2. UNCHANGED <<second, dirs, files, call, bare, dfaults, restarts, hit, users>>
    BY <1>1 DEF OpenMessage, OpenLeft, CloseMessage, Forget, WriteMessage
  <2>3. QED BY <1>p, <2>1, <2>2, MoveStep
<1>2. ASSUME NEW t \in Tasks, CheckSave(t) PROVE DirInv'
  <2> DEFINE d == [base |-> "new_save", at |-> second]
             r == [call[t] EXCEPT !.save = d]
  <2>1. d \in Dir /\ d.base = "new_save" /\ d # NoDir /\ Dated(d)
    BY <1>b, <1>d
  <2>2. r \in LocalVars /\ r.save = d /\ r.down = call[t].down
    <3> HIDE DEF d
    <3>1. call[t] \in LocalVars
      BY CallFacts
    <3>2. d \in Dir
      BY <2>1
    <3>3. QED BY <3>1, <3>2, FieldsOfLocal
  <2>3. \E to \in {"name", "walkSave"} : tpc' = [tpc EXCEPT ![t] = to]
    BY <1>2 DEF CheckSave, CheckSaveWhen
  <2>4. /\ call' = [call EXCEPT ![t] = r]
        /\ UNCHANGED <<second, dirs, files, bare, dfaults, restarts, hit>>
    BY <1>2 DEF CheckSave, CheckSaveWhen
  <2>5. users' \subseteq [task : Tasks, run : Nat, dir : Dir]
    <3>1. users' = users \union {[task |-> t, run |-> restarts, dir |-> d]}
      BY <1>2 DEF CheckSave, CheckSaveWhen, Use
    <3> HIDE DEF d
    <3>2. QED BY <2>1, <3>1, CallFacts
  <2> HIDE DEF d, r
  <2>6. /\ Dated(r.save) /\ Dated(r.down) /\ r.save # NoDir
        /\ r.save # NoDir => r.save.base = "new_save"
        /\ r.down # NoDir => r.down.base = "download"
        /\ dfaults' \in Nat /\ restarts' \in Nat /\ hit' \subseteq Tasks
    BY <2>1, <2>2, <2>4, CallFacts
  <2>7. PICK to \in {"name", "walkSave"} : tpc' = [tpc EXCEPT ![t] = to]
    BY <2>3
  <2>8. to \in Phases /\ to # "makeSave" /\ to # "makeDown"
    BY <1>p DEF Named
  <2>9. QED BY <2>2, <2>4, <2>5, <2>6, <2>7, <2>8, OwnStep
<1>3. ASSUME NEW t \in Tasks, NEW d \in Dir, NEW r \in LocalVars, NEW b \in Bases,
             NEW from \in Phases, NEW to \in {"makeSave", "makeDown"},
             NEW error \in {"create", "download"}, d.base = b, d # NoDir,
             Walk(t, from, to, r, d, error),
             UNCHANGED <<second, dirs, files, bare, dfaults, restarts, hit>>,
             users' \subseteq [task : Tasks, run : Nat, dir : Dir],
             Dated(r.save), Dated(r.down), r.save # NoDir,
             r.save # NoDir => r.save.base = "new_save", r.down # NoDir => r.down.base = "download",
             to = "makeSave" => d = r.save /\ b = "new_save",
             to = "makeDown" => d = r.down /\ b = "download"
      PROVE  DirInv'
  <2>1. CASE d \in dirs
    <3> DEFINE r2 == [r EXCEPT !.status = error]
    <3>1. tpc' = [tpc EXCEPT ![t] = "cleanDown"] /\ call' = [call EXCEPT ![t] = r2]
      BY <1>3, <2>1 DEF Walk
    <3>2. r2 \in LocalVars /\ r2.save = r.save /\ r2.down = r.down
      BY FieldsOfLocal, ZenonT(60)
    <3> HIDE DEF r2
    <3>3. "cleanDown" \in Phases /\ "cleanDown" \notin Named
      BY <1>p
    <3>4. dfaults' \in Nat /\ restarts' \in Nat /\ hit' \subseteq Tasks
      BY <1>3, CallFacts
    <3>5. /\ Dated(r2.save) /\ Dated(r2.down)
          /\ r2.save # NoDir => r2.save.base = "new_save"
          /\ r2.down # NoDir => r2.down.base = "download"
      BY <1>3, <3>2
    <3>6. UNCHANGED <<second, dirs, files, bare>>
      BY <1>3
    <3>7. QED BY <1>3, <3>1, <3>2, <3>3, <3>4, <3>5, <3>6, OwnStep
  <2>2. CASE d \notin dirs
    <3> DEFINE r2 == [r EXCEPT !.need = Missing(d)]
    <3>1. tpc' = [tpc EXCEPT ![t] = to] /\ call' = [call EXCEPT ![t] = r2]
      BY <1>3, <2>2 DEF Walk
    <3>2. Missing(d) \in Seq(Dir) /\ Listed(Missing(d), d, b, dirs)
      BY <1>3, <2>2, BasesAreDirs DEF Missing, Listed
    <3>3. r2 \in LocalVars /\ r2.save = r.save /\ r2.down = r.down /\ r2.need = Missing(d)
      BY <3>2, FieldsOfLocal
    <3> HIDE DEF r2
    <3>4. to \in Phases
      BY <1>p DEF Named
    <3>5. /\ Dated(r2.save) /\ Dated(r2.down)
          /\ r2.save # NoDir => r2.save.base = "new_save"
          /\ r2.down # NoDir => r2.down.base = "download"
          /\ to \in Named => r2.save # NoDir
          /\ to = "makeSave" => Listed(r2.need, r2.save, "new_save", dirs)
          /\ to = "makeDown" => r2.down # NoDir /\ Listed(r2.need, r2.down, "download", dirs)
      BY <1>3, <3>2, <3>3
    <3>6. dfaults' \in Nat /\ restarts' \in Nat /\ hit' \subseteq Tasks
      BY <1>3, CallFacts
    <3>7. QED BY <1>3, <3>1, <3>3, <3>4, <3>5, <3>6, OwnStep
  <2>3. QED BY <2>1, <2>2
<1>4. ASSUME NEW t \in Tasks, WalkSave(t) PROVE DirInv'
  <2>1. /\ Walk(t, "walkSave", "makeSave", call[t], call[t].save, "create")
        /\ UNCHANGED <<second, dirs, files, bare, dfaults, restarts, hit, users>>
    BY <1>4 DEF WalkSave
  <2>2. tpc[t] = "walkSave"
    BY <2>1 DEF Walk
  <2>3. call[t].save # NoDir
    BY <2>2, CallFacts DEF Named
  <2>4. QED BY <1>b, <1>p, <1>3, <2>1, <2>3, CallFacts DEF Named
<1>5. ASSUME NEW t \in Tasks, NameDownload(t) PROVE DirInv'
  <2> DEFINE d == [base |-> "download", at |-> second]
             r == [call[t] EXCEPT !.down = d]
  <2>1. d \in Dir /\ d.base = "download" /\ d # NoDir /\ Dated(d)
    BY <1>b, <1>d
  <2>2. r \in LocalVars /\ r.save = call[t].save /\ r.down = d
    <3> HIDE DEF d
    <3>1. call[t] \in LocalVars
      BY CallFacts
    <3>2. d \in Dir
      BY <2>1
    <3>3. QED BY <3>1, <3>2, FieldsOfLocal
  <2>3. /\ Walk(t, "name", "makeDown", r, d, "download")
        /\ UNCHANGED <<second, dirs, files, bare, dfaults, restarts, hit>>
        /\ users' = users \union {[task |-> t, run |-> restarts, dir |-> d]}
    BY <1>5 DEF NameDownload, Use
  <2> HIDE DEF d, r
  <2>4. tpc[t] = "name"
    BY <2>3 DEF Walk
  <2>5. call[t].save # NoDir
    BY <2>4, CallFacts DEF Named
  <2>6. users' \subseteq [task : Tasks, run : Nat, dir : Dir]
    BY <2>1, <2>3, CallFacts
  <2>7. QED BY <1>b, <1>p, <1>3, <2>1, <2>2, <2>3, <2>5, <2>6, CallFacts DEF Named
<1>6. ASSUME NEW t \in Tasks, MakeSave(t) PROVE DirInv'
  <2>1. Make(t, "makeSave", "name", "create")
    BY <1>6 DEF MakeSave
  <2>2. tpc[t] = "makeSave"
    BY <2>1 DEF Make, MakeOneOf
  <2>3. call[t].save # NoDir /\ Listed(call[t].need, call[t].save, "new_save", dirs)
    BY <2>2, CallFacts DEF DirInv, DirShape, Named
  <2>4. QED BY <1>b, <2>1, <2>3, CallFacts, MakeOneStep
<1>7. ASSUME NEW t \in Tasks, MakeDownload(t) PROVE DirInv'
  <2>1. Make(t, "makeDown", "fetch", "download")
    BY <1>7 DEF MakeDownload
  <2>2. tpc[t] = "makeDown"
    BY <2>1 DEF Make, MakeOneOf
  <2>3. /\ call[t].save # NoDir /\ call[t].down # NoDir
        /\ Listed(call[t].need, call[t].down, "download", dirs)
    BY <2>2, CallFacts DEF DirInv, DirShape, Named
  <2>4. QED BY <1>b, <2>1, <2>3, CallFacts, MakeOneStep
<1>8. ASSUME NEW t \in Tasks, Fetch(t) PROVE DirInv'
  <2> DEFINE r == [call[t] EXCEPT !.file_path = TRUE]
  <2>1. /\ tpc[t] = "fetch" /\ tpc' = [tpc EXCEPT ![t] = "work"] /\ call' = [call EXCEPT ![t] = r]
        /\ UNCHANGED <<second, dirs, files, bare, dfaults, restarts, hit, users>>
    BY <1>8 DEF Fetch
  <2>2. r \in LocalVars /\ r.save = call[t].save /\ r.down = call[t].down
    BY CallFacts, FieldsOfLocal
  <2> HIDE DEF r
  <2>3. call[t].save # NoDir /\ "work" \in Phases
    BY <1>p, <2>1, CallFacts DEF Named
  <2>4. dfaults' \in Nat /\ hit' \subseteq Tasks
    BY <2>1, CallFacts
  <2>5. QED BY <2>1, <2>2, <2>3, <2>4, LocalStep
<1>9. ASSUME NEW t \in Tasks, UnknownBucket(t) \/ FetchFails(t) PROVE DirInv'
  <2> DEFINE r == [call[t] EXCEPT !.status = "download"]
  <2>1. /\ tpc' = [tpc EXCEPT ![t] = "cleanDown"] /\ call' = [call EXCEPT ![t] = r]
        /\ UNCHANGED <<second, dirs, files, bare, restarts, users>>
        /\ dfaults' = dfaults + 1 /\ hit' = hit \union {t}
    BY <1>9 DEF UnknownBucket, FetchFails, DownloadError
  <2>2. r \in LocalVars /\ r.save = call[t].save /\ r.down = call[t].down
    BY CallFacts, FieldsOfLocal
  <2> HIDE DEF r
  <2>3. "cleanDown" \in Phases /\ "cleanDown" \notin Named
    BY <1>p
  <2>4. dfaults' \in Nat /\ hit' \subseteq Tasks
    BY <2>1, CallFacts
  <2>5. QED BY <2>1, <2>2, <2>3, <2>4, LocalStep
<1>10. ASSUME NEW t \in Tasks, Work(t) PROVE DirInv'
  <2> DEFINE f == [dir |-> call[t].save, of |-> t]
  <2>1. /\ tpc[t] = "work" /\ tpc' = [tpc EXCEPT ![t] = "upload"]
        /\ files' = IF call[t].save \in dirs THEN files \union {f} ELSE files
        /\ UNCHANGED <<second, dirs, call, bare, dfaults, restarts, hit, users>>
    BY <1>10 DEF Work
  <2>2. call[t].save # NoDir
    BY <2>1, CallFacts DEF Named
  <2>3. f \in Content /\ f.dir = call[t].save /\ f.dir.base = "new_save"
    BY <2>2, CallFacts DEF Content
  <2>4. files' \subseteq Content /\ \A g \in files' : g.dir \in dirs' /\ g.dir.base = "new_save"
    <3> HIDE DEF f
    <3> QED BY <1>s, <1>t, <2>1, <2>3
  <2>5. "upload" \in Phases /\ "upload" \notin Named
    BY <1>p
  <2>6. call' = [call EXCEPT ![t] = call[t]]
    BY <2>1, CallFacts
  <2>7. QED BY <1>s, <1>t, <2>1, <2>4, <2>5, <2>6, CallFacts, DiskKept
<1>11. ASSUME NEW t \in Tasks, Upload(t) PROVE DirInv'
  <2> DEFINE r == [call[t] EXCEPT !.status = "upload"]
  <2>1. /\ tpc' = [tpc EXCEPT ![t] = "cleanDown"]
        /\ call' = [call EXCEPT ![t] = r] \/ call' = [call EXCEPT ![t] = call[t]]
        /\ UNCHANGED <<second, dirs, files, bare, dfaults, restarts, hit, users>>
    BY <1>11 DEF Upload, UploadThen
  <2>2. r \in LocalVars /\ r.save = call[t].save /\ r.down = call[t].down
    BY CallFacts, FieldsOfLocal
  <2> HIDE DEF r
  <2>3. "cleanDown" \in Phases /\ "cleanDown" \notin Named
    BY <1>p
  <2>4. call[t] \in LocalVars /\ dfaults' \in Nat /\ hit' \subseteq Tasks
    BY <2>1, CallFacts
  <2>5. CASE call' = [call EXCEPT ![t] = r]
    BY <2>1, <2>2, <2>3, <2>4, <2>5, LocalStep
  <2>6. CASE call' = [call EXCEPT ![t] = call[t]]
    BY <2>1, <2>3, <2>4, <2>6, LocalStep
  <2>7. QED BY <2>1, <2>5, <2>6
<1>12. ASSUME NEW t \in Tasks, DeleteDownload(t) PROVE DirInv'
  <2>1. /\ tpc' = [tpc EXCEPT ![t] = "listSave"]
        /\ dirs' = IF call[t].file_path THEN dirs \ {call[t].down} ELSE dirs
        /\ UNCHANGED <<second, files, call, bare, dfaults, restarts, hit, users>>
    BY <1>12 DEF DeleteDownload, DeleteDownloadAnd
  <2>2. call[t].down \notin {f.dir : f \in files} /\ \A b \in Bases : Base(b) # call[t].down
    BY <1>s, CallFacts DEF Base, Dated, NoDir, Bases
  <2>3. /\ dirs' \subseteq Dir
        /\ \A f \in files' : f.dir \in dirs' /\ f.dir.base = "new_save"
        /\ \A b \in Bases : Base(b) \in dirs => Base(b) \in dirs'
    BY <1>s, <1>t, <2>1, <2>2
  <2>4. \A d \in dirs' : Base(d.base) \in dirs'
    BY <1>s, <1>t, <2>1, <2>2 DEF Dir
  <2>5. "listSave" \in Phases /\ "listSave" \notin Named
    BY <1>p
  <2>6. call' = [call EXCEPT ![t] = call[t]]
    BY <2>1, CallFacts
  <2>7. QED BY <1>t, <2>1, <2>3, <2>4, <2>5, <2>6, CallFacts, DiskKept
<1>13. ASSUME NEW t \in Tasks, ListSave(t) PROVE DirInv'
  <2> DEFINE e == {f \in files : f.dir = call[t].save}
             r == [call[t] EXCEPT !.todo = e]
  <2>1. /\ \E to \in {"cleanSave", "forget"} : tpc' = [tpc EXCEPT ![t] = to]
        /\ call' = [call EXCEPT ![t] = r]
        /\ UNCHANGED <<second, dirs, files, bare, dfaults, restarts, hit, users>>
    BY <1>13 DEF ListSave, ListOf
  <2>2. r \in LocalVars /\ r.save = call[t].save /\ r.down = call[t].down
    <3>1. e \in SUBSET Content /\ call[t] \in LocalVars
      BY <1>t, CallFacts
    <3> HIDE DEF e
    <3>2. QED BY <3>1, FieldsOfLocal
  <2> HIDE DEF r
  <2>3. PICK to \in {"cleanSave", "forget"} : tpc' = [tpc EXCEPT ![t] = to]
    BY <2>1
  <2>4. to \in Phases /\ to \notin Named /\ dfaults' \in Nat /\ hit' \subseteq Tasks
    BY <1>p, <2>1, CallFacts
  <2>5. QED BY <2>1, <2>2, <2>3, <2>4, LocalStep
<1>14. ASSUME NEW t \in Tasks, NEW f \in Content, DeleteEntry(t, f) PROVE DirInv'
  <2> DEFINE e == IF f \in files THEN call[t].todo \ {f} ELSE {}
             r == [call[t] EXCEPT !.todo = e]
  <2>1. /\ \E to \in {"cleanSave", "forget"} : tpc' = [tpc EXCEPT ![t] = to]
        /\ files' = files \ {f}
        /\ UNCHANGED <<second, dirs, bare, dfaults, restarts, hit, users>>
    BY <1>14 DEF DeleteEntry
  <2>2. call' = [call EXCEPT ![t] = r]
    BY <1>14 DEF DeleteEntry
  <2>3. e \in SUBSET Content
    BY CallFacts
  <2> HIDE DEF e
  <2>4. r \in LocalVars /\ r.save = call[t].save /\ r.down = call[t].down
    BY <2>3, CallFacts, FieldsOfLocal
  <2> HIDE DEF r
  <2>5. files' \subseteq Content /\ \A g \in files' : g.dir \in dirs' /\ g.dir.base = "new_save"
    BY <1>s, <1>t, <2>1
  <2>6. PICK to \in {"cleanSave", "forget"} : tpc' = [tpc EXCEPT ![t] = to]
    BY <2>1
  <2>7. /\ to \in Phases /\ to \notin Named /\ to # "makeSave" /\ to # "makeDown"
        /\ dfaults' \in Nat /\ restarts' \in Nat /\ hit' \subseteq Tasks
        /\ users' \subseteq [task : Tasks, run : Nat, dir : Dir]
    BY <1>p, <2>1, CallFacts
  <2>8. /\ Dated(r.save) /\ Dated(r.down)
        /\ r.save # NoDir => r.save.base = "new_save"
        /\ r.down # NoDir => r.down.base = "download"
    BY <2>4, CallFacts
  <2>9. /\ dirs' \subseteq Dir /\ \A d \in dirs' : Base(d.base) \in dirs'
        /\ \A b \in Bases : Base(b) \in dirs => Base(b) \in dirs'
    BY <1>s, <1>t, <2>1
  <2>10. QED BY <2>1, <2>2, <2>4, <2>5, <2>6, <2>7, <2>8, <2>9, DiskKept
<1>15. ASSUME NEW t \in Tasks, RemoveSave(t) PROVE DirInv'
  <2>1. /\ tpc' = [tpc EXCEPT ![t] = "forget"]
        /\ dirs' = IF \E f \in files : f.dir = call[t].save THEN dirs ELSE dirs \ {call[t].save}
        /\ UNCHANGED <<second, files, call, bare, dfaults, restarts, hit, users>>
    BY <1>15 DEF RemoveSave
  <2>2. \A b \in Bases : Base(b) # call[t].save
    BY CallFacts DEF Base, Dated, NoDir, Bases
  <2>3. /\ dirs' \subseteq Dir
        /\ \A f \in files' : f.dir \in dirs' /\ f.dir.base = "new_save"
        /\ \A b \in Bases : Base(b) \in dirs => Base(b) \in dirs'
    BY <1>s, <1>t, <2>1, <2>2
  <2>4. \A d \in dirs' : Base(d.base) \in dirs'
    BY <1>s, <1>t, <2>1, <2>2 DEF Dir
  <2>5. "forget" \in Phases /\ "forget" \notin Named
    BY <1>p
  <2>6. call' = [call EXCEPT ![t] = call[t]]
    BY <2>1, CallFacts
  <2>7. QED BY <1>t, <2>1, <2>3, <2>4, <2>5, <2>6, CallFacts, DiskKept
<1>16. ASSUME NEW t \in Tasks, Reply(t) \/ Kill(t) PROVE DirInv'
  <2>1. /\ \E to \in {"done", "stopped"} : tpc' = [tpc EXCEPT ![t] = to]
        /\ call' = [call EXCEPT ![t] = Start]
        /\ UNCHANGED <<second, dirs, files, bare, restarts, hit, users>>
    BY <1>16 DEF Reply, Kill
  <2>2. dfaults' = dfaults \/ dfaults' = dfaults + 1
    BY <1>16 DEF Reply, Kill
  <2>3. dfaults' \in Nat
    BY <2>2, CallFacts
  <2>4. Dated(Start.save) /\ Dated(Start.down)
    BY StartIsLocal DEF Dated
  <2>5. PICK to \in {"done", "stopped"} : tpc' = [tpc EXCEPT ![t] = to]
    BY <2>1
  <2>6. /\ to \in Phases /\ to \notin Named /\ to # "makeSave" /\ to # "makeDown"
        /\ restarts' \in Nat /\ hit' \subseteq Tasks
        /\ users' \subseteq [task : Tasks, run : Nat, dir : Dir]
    BY <1>p, <2>1, CallFacts
  <2>7. QED BY <2>1, <2>3, <2>4, <2>5, <2>6, StartIsLocal, OwnStep
<1>17. ASSUME NEW t \in Tasks, NoReply(t) PROVE DirInv'
  <2>1. /\ tpc' = [tpc EXCEPT ![t] = "silent"]  /\ dfaults' = dfaults + 1
        /\ UNCHANGED <<second, dirs, files, call, bare, restarts, hit, users>>
    BY <1>17 DEF NoReply
  <2>2. call' = [call EXCEPT ![t] = call[t]] /\ call[t] \in LocalVars
    BY <2>1, CallFacts
  <2>3. "silent" \in Phases /\ "silent" \notin Named
    BY <1>p
  <2>4. dfaults' \in Nat /\ hit' \subseteq Tasks
    BY <2>1, CallFacts
  <2>5. QED BY <2>1, <2>2, <2>3, <2>4, LocalStep
<1>18. CASE Tick
  <2>1. second' \in 1..LastSecond /\ UNCHANGED <<dirs, files, tpc, call, bare, dfaults, restarts, hit, users>>
    BY <1>t, <1>18 DEF Tick
  <2>2. QED BY <2>1 DEF DirInv, DirTypes, DirShape, Dated
<1>19. ASSUME NEW found \in SUBSET Tasks, NEW loaded \in SUBSET found, Restart(found, loaded) PROVE DirInv'
  <2>1. /\ tpc' = [t \in Tasks |-> IF t \in loaded /\ ~broken' THEN "loaded"
                                   ELSE IF t \in Running THEN "stopped" ELSE tpc[t]]
        /\ call' = [t \in Tasks |-> Start]
        /\ UNCHANGED <<second, dirs, files, bare, hit, users>>
        /\ dfaults' = dfaults + 1 /\ restarts' = restarts + 1
    BY <1>19 DEF Restart
  <2>2. tpc' \in [Tasks -> Phases] /\ \A t \in Tasks : tpc'[t] \notin Named
    BY <1>t, <2>1 DEF Running, Phases, Busy, Idle, Named
  <2>3. \A t \in Tasks : call'[t] = Start
    BY <2>1
  <2>4. DirTypes'
    <3>1. call' \in [Tasks -> LocalVars]
      BY <2>1, StartIsLocal
    <3>2. dfaults' \in Nat /\ restarts' \in Nat
      BY <2>1 DEF DirInv, DirTypes
    <3>3. QED BY <2>1, <2>2, <3>1, <3>2 DEF DirInv, DirTypes
  <2>5. (\A f \in files : f.dir \in dirs /\ f.dir.base = "new_save")'
    BY <1>s, <2>1
  <2>6. (\A d \in dirs : Base(d.base) \in dirs)'
    BY <1>s, <2>1
  <2>7. ASSUME NEW t \in Tasks
        PROVE  /\ call'[t].save = NoDir /\ call'[t].down = NoDir
               /\ tpc'[t] # "makeSave" /\ tpc'[t] # "makeDown" /\ tpc'[t] \notin Named
    BY <2>2, <2>3, StartIsLocal DEF Named
  <2>8. DirShape'
    BY <2>5, <2>6, <2>7 DEF DirShape, Dated
  <2>9. QED BY <2>4, <2>8 DEF DirInv
<1>20. CASE UNCHANGED diskvars
  BY <1>20 DEF DirInv, DirTypes, DirShape, Dated
<1>21. QED
  <2> HIDE DEF Step, Local
  <2> QED
    BY <1>1, <1>2, <1>4, <1>5, <1>6, <1>7, <1>8, <1>9, <1>10, <1>11, <1>12, <1>13, <1>14, <1>15, <1>16,
       <1>17, <1>18, <1>19, <1>20 DEF DiskNext, DiskStep

\* The service has as many workers after every start.
LEMMA SlotsStay == [DiskNext]_diskvars => slots' = slots
<1> SUFFICES ASSUME [DiskNext]_diskvars PROVE slots' = slots
    OBVIOUS
<1>1. ASSUME NEW t \in Tasks, OpenMessage(t) \/ OpenLeft(t) \/ CloseMessage(t) \/ Forget(t) \/ Reply(t) \/ Kill(t)
      PROVE  slots' = slots
  BY <1>1 DEF OpenMessage, OpenLeft, CloseMessage, Forget, WriteMessage, Reply, Kill
<1>2. ASSUME NEW t \in Tasks, CheckSave(t) \/ WalkSave(t) \/ MakeSave(t) \/ NameDownload(t) \/ MakeDownload(t)
      PROVE  slots' = slots
  BY <1>2 DEF CheckSave, CheckSaveWhen, WalkSave, MakeSave, NameDownload, MakeDownload, Make, MakeOneOf
<1>3. ASSUME NEW t \in Tasks, UnknownBucket(t) \/ Fetch(t) \/ FetchFails(t) \/ Work(t) \/ Upload(t) \/ NoReply(t)
      PROVE  slots' = slots
  BY <1>3 DEF UnknownBucket, Fetch, FetchFails, DownloadError, Work, Upload, UploadThen, NoReply
<1>4. ASSUME NEW t \in Tasks, DeleteDownload(t) \/ ListSave(t) \/ RemoveSave(t) \/ \E f \in Content : DeleteEntry(t, f)
      PROVE  slots' = slots
  BY <1>4 DEF DeleteDownload, DeleteDownloadAnd, ListSave, ListOf, RemoveSave, DeleteEntry
<1>5. ASSUME NEW found \in SUBSET Tasks, NEW loaded \in SUBSET found, Restart(found, loaded) PROVE slots' = slots
  BY <1>5 DEF Restart
<1>6. CASE Tick \/ UNCHANGED diskvars
  BY <1>6 DEF Tick
<1>7. QED BY <1>1, <1>2, <1>3, <1>4, <1>5, <1>6 DEF DiskNext, DiskStep

(***************************************************************************)
(* The types are right, and nothing is on the disk without its directory,  *)
(* in every reachable state.                                               *)
(***************************************************************************)
THEOREM DiskTypeCorrect == DiskSpec => []DiskTypeOK
<1>1. DiskSpec => []DirInv
  BY DirInitial, DirStep, PTL DEF DiskSpec
<1>0. DiskSpec => [](slots \in Slots)
  <2>1. DiskInit => slots \in Slots
    BY DEF DiskInit
  <2>2. slots \in Slots /\ [DiskNext]_diskvars => (slots \in Slots)'
    BY SlotsStay
  <2>3. QED BY <2>1, <2>2, PTL DEF DiskSpec
<1>2. DirInv /\ FileInv /\ slots \in Slots => DiskTypeOK
  <2> SUFFICES ASSUME DirInv, FileInv, slots \in Slots PROVE DiskTypeOK
      OBVIOUS
  <2>1. ASSUME NEW t \in Tasks
        PROVE  /\ DOMAIN call[t] = DOMAIN Start
               /\ call[t].save \in Dir \union {NoDir} /\ call[t].down \in Dir \union {NoDir}
               /\ call[t].file_path \in BOOLEAN /\ call[t].need \in Seq(Dir)
               /\ call[t].todo \subseteq Content
               /\ call[t].status \in {"success", "create", "download", "upload"}
    <3>1. call[t] \in LocalVars
      BY CallFacts
    <3>2. DOMAIN call[t] = DOMAIN Start
      BY <3>1, StartIsLocal DEF LocalVars
    <3>3. QED BY <3>1, <3>2 DEF LocalVars
  <2>2. QED BY <2>1 DEF DiskTypeOK, DirInv, DirTypes, DirShape, FileInv, FileShape, Phases, Idle, Busy
<1>3. QED BY <1>0, <1>1, <1>2, FileInvariance, PTL

-----------------------------------------------------------------------------
(***************************************************************************)
(* Who uses a directory: this task in this run of the service, or another  *)
(* task, or another run.                                                   *)
(***************************************************************************)
Record(t, d) == [task |-> t, run |-> restarts, dir |-> d]
Own(t) == {w \in users : w.task = t /\ w.run = restarts}
Other(t, d) == \E w \in users \ Own(t) : w.dir = d
OtherBase(t, b) == \E w \in users \ Own(t) : w.dir.base = b

Before == {"loaded", "store", "check"}
Making == {"walkSave", "makeSave"}
Inside == {"name", "makeDown", "fetch", "work"}
After  == {"listSave", "cleanSave", "forget", "reply"}
Over   == {"done", "stopped"}

\* The history has what a call uses, and nothing else of this run.
CallRecorded(t) ==
  /\ call[t].save # NoDir => Record(t, call[t].save) \in users
  /\ call[t].down # NoDir => Record(t, call[t].down) \in users
  /\ tpc[t] \notin Over => \A w \in Own(t) : w.dir \in {call[t].save, call[t].down}
  /\ tpc[t] \in Before \union {"new"} => call[t].save = NoDir
  /\ tpc[t] \in Before \union Making \union {"new", "name"} => call[t].down = NoDir

\* What a task has still to make was made by another user, if it is there; the
\* common directories are missing only on a bare disk.
MadeByOther(t) ==
  /\ tpc[t] \in Making /\ call[t].save \in dirs => Other(t, call[t].save)
  /\ tpc[t] = "makeDown" /\ call[t].down \in dirs => Other(t, call[t].down)
  /\ tpc[t] = "makeSave" /\ call[t].need = <<call[t].save, Base("new_save")>> =>
       bare /\ (Base("new_save") \in dirs => OtherBase(t, "new_save"))
  /\ tpc[t] = "makeDown" /\ call[t].need = <<call[t].down, Base("download")>> =>
       bare /\ (Base("download") \in dirs => OtherBase(t, "download"))

\* The save path, and the results in it, are gone only if another user deleted them.
GoneByOther(t) ==
  /\ tpc[t] \in Inside /\ call[t].save \notin dirs => Other(t, call[t].save)
  /\ tpc[t] = "upload" /\ [dir |-> call[t].save, of |-> t] \notin files => Other(t, call[t].save)

\* What is left when a task has cleaned up is left by another user, or the download
\* failed.
LeftByOther(t) ==
  /\ tpc[t] \in {"work", "upload"} => call[t].file_path
  /\ tpc[t] \in After \union {"cleanDown"} /\ call[t].down \in dirs =>
       t \in hit \/ Other(t, call[t].down) \/ (tpc[t] = "cleanDown" /\ call[t].file_path)
  /\ tpc[t] = "cleanSave" =>
       \/ Other(t, call[t].save)
       \/ /\ \A f \in files : f.dir = call[t].save => f \in call[t].todo
          /\ call[t].todo \subseteq files
  /\ tpc[t] = "cleanSave" => \A f \in call[t].todo : f.dir = call[t].save
  /\ tpc[t] \in {"forget", "reply"} /\ call[t].save \in dirs => Other(t, call[t].save)

\* Why a task fails.
Excused(t) ==
  call[t].status # "success" =>
    \/ t \in hit
    \/ call[t].save # NoDir /\ Other(t, call[t].save)
    \/ call[t].down # NoDir /\ Other(t, call[t].down)
    \/ bare /\ call[t].status = "create" /\ call[t].save # NoDir /\ OtherBase(t, "new_save")
    \/ bare /\ call[t].status = "download" /\ call[t].down # NoDir /\ OtherBase(t, "download")

Claims(t) == CallRecorded(t) /\ MadeByOther(t) /\ GoneByOther(t) /\ LeftByOther(t) /\ Excused(t)

\* Each use is of a dated directory; a task of an earlier run was finished or stopped,
\* and where a task was stopped is known.
UsersPast ==
  /\ IsFiniteSet(users)
  /\ \A w \in users : w.run <= restarts /\ w.dir.at # 0
  /\ \A w \in users : w.run < restarts => place[w.task] # "none" \/ tpc[w.task] = "done"
  /\ \A t \in Tasks : tpc[t] = "stopped" => place[t] # "none"

BasesThere == ~bare => \A b \in Bases : Base(b) \in dirs

UseInv == UsersPast /\ BasesThere /\ TrashHasCause /\ \A t \in Tasks : Claims(t)

(***************************************************************************)
(* What the step of task t can do to what other tasks rely on: whatever it *)
(* makes, fills, empties or removes it uses itself.                        *)
(***************************************************************************)
Footprint(t) ==
  /\ \A u \in Tasks \ {t} : tpc'[u] = tpc[u] /\ call'[u] = call[u]
  /\ restarts' = restarts /\ bare' = bare /\ hit \subseteq hit'
  /\ \E w : users' = users \/ (users' = users \union {w} /\ w.task = t /\ w.run = restarts /\ w.dir.at # 0)
  /\ \A d \in dirs' \ dirs :
       \E w \in users' : w.task = t /\ w.run = restarts /\ w.dir.base = d.base /\ (d.at # 0 => w.dir = d)
  /\ \A d \in dirs \ dirs' : d.at # 0 /\ Record(t, d) \in users
  /\ \A f \in files' \ files : f.of = t /\ Record(t, f.dir) \in users
  /\ \A f \in files \ files' : Record(t, f.dir) \in users

LEMMA SeveralUsers ==
  ASSUME IsFiniteSet(users), NEW S \in SUBSET users, NEW x \in S, NEW y \in S, x # y
  PROVE  Cardinality(S) > 1
<1>1. IsFiniteSet(S) /\ Cardinality(S) \in Nat
  BY FS_Subset, FS_CardinalityType
<1>2. IsFiniteSet({x}) /\ Cardinality({x}) = 1
  BY FS_EmptySet, FS_AddElement, FS_Singleton
<1>3. {x} \subseteq S /\ {x} # S
  OBVIOUS
<1>4. Cardinality({x}) <= Cardinality(S) /\ (Cardinality(S) = Cardinality({x}) => S = {x})
  BY <1>1, <1>3, FS_Subset
<1>5. QED BY <1>1, <1>2, <1>3, <1>4

\* Two users of a directory, or of a common one, are what the properties count.
LEMMA UsersCounted ==
  ASSUME IsFiniteSet(users), NEW t \in Tasks, NEW e, Record(t, e) \in users
  PROVE  /\ Other(t, e) => Shared(e)
         /\ \A b : e.base = b /\ OtherBase(t, b) => Used(b) > 1
<1>1. Record(t, e) \in Own(t) /\ Record(t, e).dir = e
  BY DEF Own, Record
<1>2. ASSUME Other(t, e) PROVE Shared(e)
  <2>1. PICK w \in users \ Own(t) : w.dir = e
    BY <1>2 DEF Other
  <2> DEFINE S == {u \in users : u.dir = e}
  <2>2. S \in SUBSET users /\ w \in S /\ Record(t, e) \in S /\ w # Record(t, e)
    BY <1>1, <2>1
  <2> HIDE DEF S
  <2>3. Cardinality(S) > 1
    BY <2>2, SeveralUsers
  <2>4. QED BY <2>3 DEF S, Shared
<1>3. ASSUME NEW b, e.base = b, OtherBase(t, b) PROVE Used(b) > 1
  <2>1. PICK w \in users \ Own(t) : w.dir.base = b
    BY <1>3 DEF OtherBase
  <2> DEFINE S == {u \in users : u.dir.base = b}
  <2>2. S \in SUBSET users /\ w \in S /\ Record(t, e) \in S /\ w # Record(t, e)
    BY <1>1, <1>3, <2>1
  <2> HIDE DEF S
  <2>3. Cardinality(S) > 1
    BY <2>2, SeveralUsers
  <2>4. QED BY <2>3 DEF S, Used
<1>4. QED BY <1>2, <1>3

LEMMA SharedStays ==
  ASSUME IsFiniteSet(users'), users \subseteq users', NEW d, Shared(d)
  PROVE  Shared(d)'
<1> DEFINE S == {u \in users : u.dir = d}
           T == {u \in users' : u.dir = d}
<1>1. S \subseteq T /\ T \subseteq users'
  OBVIOUS
<1> HIDE DEF S, T
<1>2. IsFiniteSet(T)
  BY <1>1, FS_Subset
<1>3. IsFiniteSet(S) /\ Cardinality(S) <= Cardinality(T)
  BY <1>1, <1>2, FS_Subset
<1>4. Cardinality(S) \in Nat /\ Cardinality(T) \in Nat
  BY <1>2, <1>3, FS_CardinalityType
<1>5. Cardinality(S) > 1
  BY DEF S, Shared
<1>6. Cardinality(T) > 1
  BY <1>3, <1>4, <1>5
<1>7. QED BY <1>6 DEF T, Shared

(***************************************************************************)
(* What a task relies on is not taken from it by the step of another: what *)
(* the other makes or deletes it uses, and the excuse is there.            *)
(***************************************************************************)
LEMMA OthersKeep ==
  ASSUME DirInv, DirInv', NEW t \in Tasks, NEW u \in Tasks, u # t, Claims(u), Footprint(t)
  PROVE  Claims(u)'
<1>1. /\ tpc'[u] = tpc[u] /\ call'[u] = call[u] /\ restarts' = restarts /\ bare' = bare
      /\ hit \subseteq hit' /\ users \subseteq users'
  BY DEF Footprint
<1>2. \A d : Record(u, d)' = Record(u, d)
  BY <1>1 DEF Record
<1>3. \A w \in users' \ users : w.task = t
  BY DEF Footprint
<1>4. Own(u)' = Own(u)
  BY <1>1, <1>3 DEF Own
<1>5. /\ \A d : Other(u, d) => Other(u, d)'
      /\ \A b : OtherBase(u, b) => OtherBase(u, b)'
  BY <1>1, <1>4 DEF Other, OtherBase
<1>6. \A d : Record(t, d) \in users => Other(u, d)'
  BY <1>1, <1>4 DEF Other, Record, Own
<1>7. \A d \in dirs' \ dirs : (d.at # 0 => Other(u, d)') /\ OtherBase(u, d.base)'
  BY <1>4 DEF Footprint, Other, OtherBase, Own
<1>8. \A d \in dirs \ dirs' : Other(u, d)'
  BY <1>6 DEF Footprint
<1>9. /\ \A f \in files' \ files : f.of = t /\ Other(u, f.dir)'
      /\ \A f \in files \ files' : Other(u, f.dir)'
  BY <1>6 DEF Footprint
<1>10. /\ Dated(call[u].save) /\ Dated(call[u].down) /\ NoDir \notin dirs'
       /\ Base("new_save").base = "new_save" /\ Base("download").base = "download"
  BY CallFacts DEF DirInv, DirTypes, Dir, NoDir, Bases, Base
<1>11. CallRecorded(u)'
  BY <1>1, <1>2, <1>4 DEF Claims, CallRecorded
<1>12. /\ call[u].save \in dirs' => call[u].save \in dirs \/ Other(u, call[u].save)'
       /\ call[u].down \in dirs' => call[u].down \in dirs \/ Other(u, call[u].down)'
  BY <1>1, <1>7, <1>10 DEF Dated
<1>13. MadeByOther(u)'
  <2>1. \A b \in Bases : Base(b) \in dirs' => Base(b) \in dirs \/ OtherBase(u, b)'
    BY <1>7, BasesAreDirs
  <2>2. Base("new_save") \in dirs' => Base("new_save") \in dirs \/ OtherBase(u, "new_save")'
    BY <2>1 DEF Bases
  <2>3. Base("download") \in dirs' => Base("download") \in dirs \/ OtherBase(u, "download")'
    BY <2>1 DEF Bases
  <2>4. Base("download")' = Base("download") /\ Base("new_save")' = Base("new_save")
    BY DEF Base
  <2>5. QED BY <1>1, <1>5, <1>12, <2>2, <2>3, <2>4 DEF Claims, MadeByOther
<1>14. GoneByOther(u)'
  <2>1. [dir |-> call[u].save, of |-> u] \notin files' =>
          [dir |-> call[u].save, of |-> u] \notin files \/ Other(u, call[u].save)'
    BY <1>1, <1>9
  <2>2. call[u].save \notin dirs' => call[u].save \notin dirs \/ Other(u, call[u].save)'
    BY <1>1, <1>8
  <2>3. QED BY <1>1, <1>5, <2>1, <2>2 DEF Claims, GoneByOther
<1>15. LeftByOther(u)'
  <2>1. ASSUME ~Other(u, call[u].save)', tpc[u] \in {"listSave", "cleanSave"}
        PROVE  \A f : f.dir = call[u].save => (f \in files <=> f \in files')
    BY <1>1, <1>9, <2>1
  <2>2. tpc[u] = "cleanSave" =>
          \/ Other(u, call[u].save)'
          \/ /\ \A f \in files' : f.dir = call[u].save => f \in call[u].todo
             /\ call[u].todo \subseteq files'
    BY <1>1, <1>5, <2>1 DEF Claims, LeftByOther
  <2>3. QED BY <1>1, <1>5, <1>12, <2>2 DEF Claims, LeftByOther
<1>16. Excused(u)'
  BY <1>1, <1>5 DEF Claims, Excused
<1>17. QED BY <1>11, <1>13, <1>14, <1>15, <1>16 DEF Claims

\* A task goes on.
LEMMA TaskStep ==
  ASSUME DirInv, DirInv', UseInv, NEW t \in Tasks, Footprint(t), Claims(t)',
         tpc[t] \notin Over, tpc'[t] \notin Over \union {"new"}, place' = place
  PROVE  UseInv'
<1>1. \A u \in Tasks : Claims(u)'
  BY OthersKeep DEF UseInv
<1>2. PICK w : users' = users \/ (users' = users \union {w} /\ w.task = t /\ w.run = restarts /\ w.dir.at # 0)
  BY DEF Footprint
<1>3. IsFiniteSet(users')
  BY <1>2, FS_AddElement DEF UseInv, UsersPast
<1>4. restarts' = restarts /\ restarts \in Nat /\ bare' = bare /\ \A u \in Tasks \ {t} : tpc'[u] = tpc[u]
  BY CallFacts DEF Footprint
<1>5. UsersPast'
  <2>1. ASSUME NEW v \in users'
        PROVE  /\ v.run <= restarts' /\ v.dir.at # 0
               /\ v.run < restarts' => place'[v.task] # "none" \/ tpc'[v.task] = "done"
    <3>1. CASE v \in users
      <4>1. v.task \in Tasks
        BY <3>1, CallFacts
      <4>2. QED BY <1>4, <3>1, <4>1 DEF UseInv, UsersPast, Over
    <3>2. CASE v \notin users
      BY <1>2, <1>4, <3>2
    <3>3. QED BY <3>1, <3>2
  <2>2. \A u \in Tasks : tpc'[u] = "stopped" => place'[u] # "none"
    BY <1>4 DEF UseInv, UsersPast, Over
  <2>3. QED BY <1>3, <2>1, <2>2 DEF UsersPast
<1>6. BasesThere'
  BY <1>4, BasesAreDirs DEF UseInv, BasesThere, Footprint
<1>7. TrashHasCause'
  <2>1. hit \subseteq hit' /\ users \subseteq users' /\ t \in Running' /\ Running \subseteq Running'
    BY <1>4 DEF Footprint, Running, Over
  <2>2. ASSUME NEW d \in dirs', d.at # 0
        PROVE  \/ Shared(d)'
               \/ \E v \in users' : v.dir = d /\ (v.task \in Running' \/ place'[v.task] # "none" \/ v.task \in hit')
    <3>1. CASE d \in dirs
      <4>1. \/ Shared(d)
            \/ \E v \in users : v.dir = d /\ (v.task \in Running \/ place[v.task] # "none" \/ v.task \in hit)
        BY <2>2, <3>1 DEF UseInv, TrashHasCause
      <4>2. Shared(d) => Shared(d)'
        BY <1>3, <2>1, SharedStays
      <4>3. QED BY <2>1, <4>1, <4>2
    <3>2. CASE d \notin dirs
      <4>1. \E v \in users' : v.task = t /\ v.dir = d
        BY <2>2, <3>2 DEF Footprint
      <4>2. QED BY <2>1, <4>1
    <3>3. QED BY <3>1, <3>2
  <2>3. QED BY <2>2 DEF TrashHasCause
<1>8. QED BY <1>1, <1>5, <1>6, <1>7 DEF UseInv

-----------------------------------------------------------------------------
\* What a step of task t shows: its footprint, and what holds of it afterwards.
Goes(t) ==
  /\ Footprint(t)  /\ Claims(t)'
  /\ tpc[t] \notin Over  /\ tpc'[t] \notin Over \union {"new"}  /\ place' = place

LEMMA OwnFields ==
  ASSUME NEW r \in LocalVars
  PROVE  /\ \A s \in {"success", "create", "download", "upload"} :
              LET q == [r EXCEPT !.status = s] IN
                /\ q.save = r.save /\ q.down = r.down /\ q.file_path = r.file_path
                /\ q.need = r.need /\ q.todo = r.todo /\ q.status = s
         /\ \A n \in Seq(Dir) :
              LET q == [r EXCEPT !.need = n] IN
                /\ q.save = r.save /\ q.down = r.down /\ q.file_path = r.file_path
                /\ q.need = n /\ q.todo = r.todo /\ q.status = r.status
         /\ \A e \in SUBSET Content :
              LET q == [r EXCEPT !.todo = e] IN
                /\ q.save = r.save /\ q.down = r.down /\ q.file_path = r.file_path
                /\ q.need = r.need /\ q.todo = e /\ q.status = r.status
         /\ \A d \in Dir :
              LET q == [r EXCEPT !.save = d] IN
                /\ q.save = d /\ q.down = r.down /\ q.file_path = r.file_path
                /\ q.need = r.need /\ q.todo = r.todo /\ q.status = r.status
         /\ \A d \in Dir :
              LET q == [r EXCEPT !.down = d] IN
                /\ q \in LocalVars /\ q.save = r.save /\ q.down = d /\ q.file_path = r.file_path
                /\ q.need = r.need /\ q.todo = r.todo /\ q.status = r.status
         /\ LET q == [r EXCEPT !.file_path = TRUE] IN
                /\ q.save = r.save /\ q.down = r.down /\ q.file_path
                /\ q.need = r.need /\ q.todo = r.todo /\ q.status = r.status
  BY DEF LocalVars

LEMMA OwnVariables ==
  ASSUME DirInv, NEW t \in Tasks, NEW to, NEW q,
         tpc' = [tpc EXCEPT ![t] = to], call' = [call EXCEPT ![t] = q]
  PROVE  /\ tpc'[t] = to /\ call'[t] = q
         /\ \A u \in Tasks \ {t} : tpc'[u] = tpc[u] /\ call'[u] = call[u]
  BY DEF DirInv, DirTypes

\* A step that leaves the disk and the history of its use alone.
LEMMA QuietStep ==
  ASSUME DirInv, NEW t \in Tasks, NEW to, NEW q,
         tpc' = [tpc EXCEPT ![t] = to], call' = [call EXCEPT ![t] = q],
         UNCHANGED <<dirs, files, users, restarts, bare>>, hit \subseteq hit'
  PROVE  /\ Footprint(t)  /\ tpc'[t] = to /\ call'[t] = q
         /\ Own(t)' = Own(t)
         /\ \A d : Record(t, d)' = Record(t, d) /\ Other(t, d)' = Other(t, d)
         /\ \A b : OtherBase(t, b)' = OtherBase(t, b) /\ Base(b)' = Base(b)
<1>1. /\ tpc'[t] = to /\ call'[t] = q
      /\ \A u \in Tasks \ {t} : tpc'[u] = tpc[u] /\ call'[u] = call[u]
  BY OwnVariables
<1>2. Footprint(t)
  BY <1>1 DEF Footprint
<1>3. Own(t)' = Own(t) /\ \A d : Record(t, d)' = Record(t, d)
  BY DEF Own, Record
<1>4. /\ \A d : Other(t, d)' = Other(t, d)
      /\ \A b : OtherBase(t, b)' = OtherBase(t, b) /\ Base(b)' = Base(b)
  BY <1>3 DEF Other, OtherBase, Base
<1>5. QED BY <1>1, <1>2, <1>3, <1>4

LEMMA NoDirIsNone == NoDir \notin Dir /\ (DirInv => NoDir \notin dirs)
  BY DEF NoDir, Dir, Bases, DirInv, DirTypes

\* Steps that change the file of the request, or nothing but the program counter.
LEMMA MoveGoes ==
  ASSUME DirInv, NEW t \in Tasks, Claims(t), NEW from, NEW to,
         <<from, to>> \in {<<"new", "store">>, <<"loaded", "store">>, <<"store", "check">>,
                           <<"forget", "reply">>, <<"upload", "silent">>, <<"cleanDown", "silent">>},
         Step(t, from, to), UNCHANGED <<dirs, files, call, restarts, place, bare, hit, users>>
  PROVE  Goes(t)
<1>1. tpc[t] = from /\ tpc' = [tpc EXCEPT ![t] = to] /\ call' = [call EXCEPT ![t] = call[t]]
  BY CallFacts DEF Step
<1>2. /\ Footprint(t)  /\ tpc'[t] = to /\ call'[t] = call[t]
      /\ Own(t)' = Own(t)
      /\ \A d : Record(t, d)' = Record(t, d) /\ Other(t, d)' = Other(t, d)
      /\ \A b : OtherBase(t, b)' = OtherBase(t, b) /\ Base(b)' = Base(b)
  BY <1>1, QuietStep
<1> USE DEF Claims, Before, Making, Inside, After, Over
<1>3. CallRecorded(t)'
  BY <1>1, <1>2 DEF CallRecorded
<1>4. MadeByOther(t)' /\ GoneByOther(t)'
  BY <1>1, <1>2 DEF MadeByOther, GoneByOther
<1>5. LeftByOther(t)'
  BY <1>1, <1>2 DEF LeftByOther
<1>6. Excused(t)'
  BY <1>1, <1>2 DEF Excused
<1>7. QED BY <1>1, <1>2, <1>3, <1>4, <1>5, <1>6 DEF Goes

\* The save path of a call is named: it is there, or it is made.
LEMMA CheckSaveGoes ==
  ASSUME DirInv, NEW t \in Tasks, UsersPast, Claims(t), CheckSave(t)
  PROVE  Goes(t)
<1> DEFINE d == [base |-> "new_save", at |-> second]
           q == [call[t] EXCEPT !.save = d]
           to == IF d \in dirs THEN "name" ELSE "walkSave"
<1>1. /\ tpc[t] = "check" /\ tpc' = [tpc EXCEPT ![t] = to] /\ call' = [call EXCEPT ![t] = q]
      /\ users' = users \union {Record(t, d)}
      /\ UNCHANGED <<second, dirs, files, restarts, place, bare, hit>>
  BY DEF CheckSave, CheckSaveWhen, Step, Local, Use, Record
<1>2. d \in Dir /\ d.at # 0 /\ d.base = "new_save" /\ d # NoDir
  <2>1. second \in 1..LastSecond /\ second # 0 /\ second \in 0..LastSecond
    BY DEF DirInv, DirTypes
  <2>2. "new_save" \in Bases /\ d \in [base : Bases, at : 0..LastSecond]
    BY <2>1 DEF Bases
  <2>3. QED BY <2>1, <2>2, NoDirIsNone DEF Dir
<1> HIDE DEF d
<1>3. /\ q.save = d /\ q.down = call[t].down /\ q.file_path = call[t].file_path
      /\ q.need = call[t].need /\ q.todo = call[t].todo /\ q.status = call[t].status
  BY <1>2, CallFacts, OwnFields
<1> HIDE DEF q
<1>4. /\ tpc'[t] = to /\ call'[t] = q
      /\ \A u \in Tasks \ {t} : tpc'[u] = tpc[u] /\ call'[u] = call[u]
  BY <1>1, OwnVariables
<1>5. /\ Record(t, d).task = t /\ Record(t, d).run = restarts /\ Record(t, d).dir = d
      /\ \A e : Record(t, e)' = Record(t, e)
  BY <1>1 DEF Record
<1>6. Footprint(t)
  BY <1>1, <1>2, <1>4, <1>5 DEF Footprint
<1>7. Own(t) = {} /\ Own(t)' = {Record(t, d)}
  <2>1. \A w \in Own(t) : w.dir = NoDir /\ w.dir.at # 0
    BY <1>1 DEF Claims, CallRecorded, Before, Over, UsersPast, Own
  <2>2. NoDir.at = 0
    BY DEF NoDir
  <2>3. Own(t) = {}
    BY <2>1, <2>2
  <2>4. Own(t)' = {Record(t, d)}
    BY <1>1, <1>5, <2>3 DEF Own
  <2>5. QED BY <2>3, <2>4
<1>8. /\ \A e : Other(t, e) => Other(t, e)'
      /\ \A b : OtherBase(t, b) => OtherBase(t, b)'
  <2>1. users \ Own(t) \subseteq users' \ Own(t)'
    <3>1. Record(t, d) \in users => Record(t, d) \in Own(t)
      BY <1>5 DEF Own
    <3>2. QED BY <1>1, <1>7, <3>1
  <2>2. QED BY <2>1 DEF Other, OtherBase
<1> USE DEF Before, Making, Inside, After, Over
<1>9. CallRecorded(t)'
  <2>1. call[t].down = NoDir
    BY <1>1 DEF Claims, CallRecorded
  <2>2. Record(t, d) \in users' /\ \A w \in Own(t)' : w.dir = d
    BY <1>1, <1>5, <1>7
  <2>3. QED BY <1>1, <1>2, <1>3, <1>4, <1>5, <2>1, <2>2 DEF CallRecorded
<1>10. MadeByOther(t)' /\ GoneByOther(t)'
  BY <1>1, <1>3, <1>4 DEF MadeByOther, GoneByOther
<1>11. LeftByOther(t)'
  BY <1>1, <1>4 DEF LeftByOther
<1>12. Excused(t)'
  BY <1>1, <1>2, <1>3, <1>4, <1>8 DEF Claims, CallRecorded, Excused
<1>13. QED BY <1>1, <1>4, <1>6, <1>9, <1>10, <1>11, <1>12 DEF Goes, Claims

LEMMA WalkSaveGoes ==
  ASSUME DirInv, NEW t \in Tasks, BasesThere, Claims(t), WalkSave(t)
  PROVE  Goes(t)
<1> DEFINE d == call[t].save
           q1 == [call[t] EXCEPT !.status = "create"]
           q2 == [call[t] EXCEPT !.need = Missing(d)]
<1>1. /\ tpc[t] = "walkSave"
      /\ d \in dirs => tpc' = [tpc EXCEPT ![t] = "cleanDown"] /\ call' = [call EXCEPT ![t] = q1]
      /\ d \notin dirs => tpc' = [tpc EXCEPT ![t] = "makeSave"] /\ call' = [call EXCEPT ![t] = q2]
      /\ UNCHANGED <<dirs, files, users, restarts, place, bare, hit>>
  BY DEF WalkSave, Walk, Step, Local
<1>2. /\ call[t] \in LocalVars /\ d # NoDir /\ d \in Dir /\ call[t].down = NoDir /\ d.base = "new_save"
      /\ Record(t, d) \in users
  <2>1. d # NoDir
    BY <1>1, CallFacts DEF Named
  <2>2. QED BY <1>1, <2>1, CallFacts DEF Claims, CallRecorded, Making
<1> USE DEF Before, Making, Inside, After, Over
<1>3. CASE d \in dirs
  <2>1. /\ q1.save = call[t].save /\ q1.down = call[t].down /\ q1.file_path = call[t].file_path
        /\ q1.need = call[t].need /\ q1.todo = call[t].todo /\ q1.status = "create"
    BY <1>2, OwnFields
  <2> HIDE DEF q1
  <2>2. /\ Footprint(t)  /\ tpc'[t] = "cleanDown" /\ call'[t] = q1
        /\ Own(t)' = Own(t)
        /\ \A e : Record(t, e)' = Record(t, e) /\ Other(t, e)' = Other(t, e)
        /\ \A b : OtherBase(t, b)' = OtherBase(t, b) /\ Base(b)' = Base(b)
    BY <1>1, <1>3, QuietStep
  <2>3. Other(t, d)
    BY <1>1, <1>3 DEF Claims, MadeByOther
  <2>4. CallRecorded(t)'
    BY <1>1, <2>1, <2>2 DEF Claims, CallRecorded
  <2>5. MadeByOther(t)' /\ GoneByOther(t)'
    BY <2>2 DEF MadeByOther, GoneByOther
  <2>6. LeftByOther(t)'
    BY <1>1, <1>2, <2>1, <2>2, NoDirIsNone DEF LeftByOther
  <2>7. Excused(t)'
    BY <1>2, <2>1, <2>2, <2>3 DEF Excused
  <2>8. QED BY <1>1, <2>2, <2>4, <2>5, <2>6, <2>7 DEF Goes, Claims
<1>4. CASE d \notin dirs
  <2>1. /\ Missing(d) \in Seq(Dir)
        /\ Missing(d) = <<d, Base("new_save")>> => Base("new_save") \notin dirs
    <3>1. Base("new_save") \in Dir
      BY BasesAreDirs DEF Bases
    <3>2. Missing(d) = IF Base("new_save") \in dirs THEN <<d>> ELSE <<d, Base("new_save")>>
      BY <1>2, <1>4 DEF Missing
    <3>3. <<d>> # <<d, Base("new_save")>>
      OBVIOUS
    <3>4. QED BY <1>2, <3>1, <3>2, <3>3
  <2>2. /\ q2.save = call[t].save /\ q2.down = call[t].down /\ q2.file_path = call[t].file_path
        /\ q2.need = Missing(d) /\ q2.todo = call[t].todo /\ q2.status = call[t].status
    BY <1>2, <2>1, OwnFields
  <2> HIDE DEF q2
  <2>3. /\ Footprint(t)  /\ tpc'[t] = "makeSave" /\ call'[t] = q2
        /\ Own(t)' = Own(t)
        /\ \A e : Record(t, e)' = Record(t, e) /\ Other(t, e)' = Other(t, e)
        /\ \A b : OtherBase(t, b)' = OtherBase(t, b) /\ Base(b)' = Base(b)
    BY <1>1, <1>4, QuietStep
  <2>4. CallRecorded(t)'
    BY <1>1, <2>2, <2>3 DEF Claims, CallRecorded
  <2>5. MadeByOther(t)'
    <3>1. Base("new_save") \notin dirs => bare
      BY DEF BasesThere, Bases
    <3>2. QED BY <1>1, <1>4, <2>1, <2>2, <2>3, <3>1 DEF MadeByOther
  <2>6. GoneByOther(t)' /\ LeftByOther(t)'
    BY <2>3 DEF GoneByOther, LeftByOther
  <2>7. Excused(t)'
    BY <1>1, <2>2, <2>3 DEF Claims, Excused
  <2>8. QED BY <1>1, <2>3, <2>4, <2>5, <2>6, <2>7 DEF Goes, Claims
<1>5. QED BY <1>3, <1>4

\* A step in which a listed directory is made, or found there.
LEMMA MakeFacts ==
  ASSUME DirInv, NEW t \in Tasks, NEW phase \in {"makeSave", "makeDown"}, NEW next \in {"name", "fetch"},
         NEW error \in {"create", "download"}, NEW d \in Dir, NEW b \in Bases, d.base = b, d.at # 0,
         Listed(call[t].need, d, b, dirs), Record(t, d) \in users, Make(t, phase, next, error),
         UNCHANGED <<files, users, restarts, place, bare, hit>>
  PROVE  /\ tpc[t] = phase /\ Footprint(t) /\ place' = place
         /\ call'[t].save = call[t].save /\ call'[t].down = call[t].down
         /\ call'[t].file_path = call[t].file_path /\ call'[t].todo = call[t].todo
         /\ Own(t)' = Own(t)
         /\ \A e : Record(t, e)' = Record(t, e) /\ Other(t, e)' = Other(t, e)
         /\ \A c : OtherBase(t, c)' = OtherBase(t, c) /\ Base(c)' = Base(c)
         /\ \/ /\ tpc'[t] = "cleanDown" /\ call'[t].status = error /\ dirs' = dirs
               /\ d \in dirs \/ (call[t].need = <<d, Base(b)>> /\ Base(b) \in dirs)
            \/ /\ tpc'[t] = next /\ call'[t].status = call[t].status /\ dirs' = dirs \union {d}
            \/ /\ tpc'[t] = phase /\ call'[t].status = call[t].status /\ dirs' = dirs \union {Base(b)}
               /\ call'[t].need = <<d>>
<1> DEFINE made == Last(call[t].need)
           rest == Front(call[t].need)
<1>0. <<d>> \in Seq(Dir) /\ << >> \in Seq(Dir) /\ <<d>> # << >>
  OBVIOUS
<1>1. Base(b) \in Dir /\ Base(b).base = b /\ Base(b).at = 0
  BY BasesAreDirs
<1>2. \/ made = Base(b) /\ rest = <<d>> /\ call[t].need = <<d, Base(b)>>
      \/ made = d /\ rest = << >> /\ Base(b) \in dirs
  BY <1>1, LastOfList DEF Listed
<1>3. MakeOneOf(t, phase, next, error, made, rest)
  BY DEF Make
<1> HIDE DEF made, rest
<1>4. dirs' = dirs \union {made} /\ tpc[t] = phase
  BY <1>3 DEF MakeOneOf, Step
<1>5. /\ made \in {d, Base(b)}
      /\ Record(t, d).task = t /\ Record(t, d).run = restarts /\ Record(t, d).dir = d
  BY <1>2 DEF Record
<1>6. Own(t)' = Own(t) /\ \A e : Record(t, e)' = Record(t, e)
  BY DEF Own, Record
<1>7. /\ \A e : Other(t, e)' = Other(t, e)
      /\ \A c : OtherBase(t, c)' = OtherBase(t, c) /\ Base(c)' = Base(c)
  BY <1>6 DEF Other, OtherBase, Base
<1>8. call[t] \in LocalVars
  BY CallFacts
<1>9. ASSUME \A u \in Tasks \ {t} : tpc'[u] = tpc[u] /\ call'[u] = call[u]
      PROVE  Footprint(t)
  <2>1. \A c \in dirs' \ dirs :
          Record(t, d).dir.base = c.base /\ (c.at # 0 => Record(t, d).dir = c)
    BY <1>1, <1>4, <1>5
  <2>2. \A c \in dirs' \ dirs :
          \E w \in users' : w.task = t /\ w.run = restarts /\ w.dir.base = c.base /\ (c.at # 0 => w.dir = c)
    BY <1>5, <2>1
  <2>3. dirs \ dirs' = {}
    BY <1>4
  <2>4. QED BY <1>9, <2>2, <2>3 DEF Footprint
<1>10. CASE made \in dirs
  <2> DEFINE q == [call[t] EXCEPT !.need = << >>, !.status = error]
  <2>1. /\ q.save = call[t].save /\ q.down = call[t].down /\ q.file_path = call[t].file_path
        /\ q.todo = call[t].todo /\ q.status = error
    BY <1>8 DEF LocalVars
  <2>2. tpc' = [tpc EXCEPT ![t] = "cleanDown"] /\ call' = [call EXCEPT ![t] = q]
    BY <1>3, <1>10 DEF MakeOneOf, Step, Local
  <2> HIDE DEF q
  <2>3. /\ tpc'[t] = "cleanDown" /\ call'[t] = q
        /\ \A u \in Tasks \ {t} : tpc'[u] = tpc[u] /\ call'[u] = call[u]
    BY <2>2, OwnVariables
  <2>4. d \in dirs \/ (call[t].need = <<d, Base(b)>> /\ Base(b) \in dirs)
    BY <1>2, <1>10
  <2>5. dirs' = dirs
    BY <1>4, <1>10
  <2>6. QED BY <1>4, <1>6, <1>7, <1>9, <2>1, <2>3, <2>4, <2>5
<1>11. CASE made \notin dirs
  <2> DEFINE q == [call[t] EXCEPT !.need = rest]
             to == IF rest = << >> THEN next ELSE phase
  <2>0. rest \in Seq(Dir)
    BY <1>0, <1>2
  <2>1. /\ q.save = call[t].save /\ q.down = call[t].down /\ q.file_path = call[t].file_path
        /\ q.todo = call[t].todo /\ q.status = call[t].status /\ q.need = rest
    BY <1>8, <2>0, OwnFields
  <2>2. tpc' = [tpc EXCEPT ![t] = to] /\ call' = [call EXCEPT ![t] = q]
    BY <1>3, <1>11 DEF MakeOneOf, Step, Local
  <2>3. (rest = << >> => to = next) /\ (rest # << >> => to = phase)
    OBVIOUS
  <2> HIDE DEF q, to
  <2>4. /\ tpc'[t] = to /\ call'[t] = q
        /\ \A u \in Tasks \ {t} : tpc'[u] = tpc[u] /\ call'[u] = call[u]
    BY <2>2, OwnVariables
  <2>5. CASE rest = << >>
    <3>1. tpc'[t] = next /\ call'[t].status = call[t].status /\ dirs' = dirs \union {d}
      BY <1>0, <1>2, <1>4, <2>1, <2>3, <2>4, <2>5
    <3>2. QED BY <1>4, <1>6, <1>7, <1>9, <2>1, <2>4, <3>1
  <2>6. CASE rest # << >>
    <3>1. /\ tpc'[t] = phase /\ call'[t].status = call[t].status /\ dirs' = dirs \union {Base(b)}
          /\ call'[t].need = <<d>>
      BY <1>2, <1>4, <2>1, <2>3, <2>4, <2>6
    <3>2. QED BY <1>4, <1>6, <1>7, <1>9, <2>1, <2>4, <3>1
  <2>7. QED BY <2>5, <2>6
<1>12. QED BY <1>10, <1>11

LEMMA MakeSaveGoes ==
  ASSUME DirInv, NEW t \in Tasks, Claims(t), MakeSave(t)
  PROVE  Goes(t)
<1> DEFINE d == call[t].save
<1>1. /\ Make(t, "makeSave", "name", "create") /\ tpc[t] = "makeSave"
      /\ UNCHANGED <<files, users, restarts, place, bare, hit>>
  BY DEF MakeSave, Make, MakeOneOf, Step
<1>2. /\ d # NoDir /\ d \in Dir /\ d.at # 0 /\ d.base = "new_save" /\ call[t].down = NoDir
      /\ Record(t, d) \in users /\ Listed(call[t].need, d, "new_save", dirs)
  <2>1. d # NoDir
    BY <1>1, CallFacts DEF Named
  <2>2. d.at # 0 /\ Listed(call[t].need, d, "new_save", dirs)
    BY <1>1, <2>1, CallFacts DEF Dated, DirInv, DirShape
  <2>3. QED BY <1>1, <2>1, <2>2, CallFacts DEF Claims, CallRecorded, Making
<1> HIDE DEF d
<1>3. /\ tpc[t] = "makeSave" /\ Footprint(t) /\ place' = place
      /\ call'[t].save = call[t].save /\ call'[t].down = call[t].down
      /\ call'[t].file_path = call[t].file_path /\ call'[t].todo = call[t].todo
      /\ Own(t)' = Own(t)
      /\ \A e : Record(t, e)' = Record(t, e) /\ Other(t, e)' = Other(t, e)
      /\ \A c : OtherBase(t, c)' = OtherBase(t, c) /\ Base(c)' = Base(c)
      /\ \/ /\ tpc'[t] = "cleanDown" /\ call'[t].status = "create" /\ dirs' = dirs
            /\ d \in dirs \/ (call[t].need = <<d, Base("new_save")>> /\ Base("new_save") \in dirs)
         \/ /\ tpc'[t] = "name" /\ call'[t].status = call[t].status /\ dirs' = dirs \union {d}
         \/ /\ tpc'[t] = "makeSave" /\ call'[t].status = call[t].status
            /\ dirs' = dirs \union {Base("new_save")} /\ call'[t].need = <<d>>
  <2>1. "new_save" \in Bases
    BY DEF Bases
  <2>2. QED BY <1>1, <1>2, <2>1, MakeFacts
<1>4. users' = users /\ bare' = bare /\ hit' = hit /\ files' = files
  BY <1>1
<1> USE DEF Before, Making, Inside, After, Over
<1>5. CallRecorded(t)'
  BY <1>2, <1>3, <1>4 DEF Claims, CallRecorded
<1>6. MadeByOther(t)'
  <2>1. CASE tpc'[t] = "makeSave"
    <3>1. call'[t].save = d /\ call'[t].need = <<d>> /\ dirs' = dirs \union {Base("new_save")}
      BY <1>3, <2>1 DEF d
    <3>2. <<d>> # <<d, Base("new_save")>> /\ Base("new_save").at = 0
      BY DEF Base
    <3>3. d \in dirs' => Other(t, d)
      BY <1>2, <1>3, <3>1, <3>2 DEF Claims, MadeByOther, d
    <3>4. QED BY <1>3, <2>1, <3>1, <3>2, <3>3 DEF MadeByOther
  <2>2. CASE tpc'[t] # "makeSave"
    BY <1>3, <2>2 DEF MadeByOther
  <2>3. QED BY <2>1, <2>2
<1>7. GoneByOther(t)'
  BY <1>3 DEF GoneByOther, d
<1>8. LeftByOther(t)'
  BY <1>2, <1>3, NoDirIsNone DEF LeftByOther
<1>9. Excused(t)'
  <2>1. CASE tpc'[t] = "cleanDown"
    <3>1. d \in dirs => Other(t, d)
      BY <1>3 DEF Claims, MadeByOther, d
    <3>2. call[t].need = <<d, Base("new_save")>> /\ Base("new_save") \in dirs =>
            bare /\ OtherBase(t, "new_save")
      BY <1>3 DEF Claims, MadeByOther, d
    <3>3. call'[t].save = d /\ call'[t].status = "create"
      BY <1>3, <2>1 DEF d
    <3>4. Other(t, d) \/ (bare /\ OtherBase(t, "new_save"))
      BY <1>3, <1>4, <2>1, <3>1, <3>2
    <3>5. QED BY <1>2, <1>3, <1>4, <3>3, <3>4 DEF Excused
  <2>2. CASE tpc'[t] # "cleanDown"
    BY <1>3, <1>4, <2>2 DEF Claims, Excused
  <2>3. QED BY <2>1, <2>2
<1>10. QED BY <1>3, <1>5, <1>6, <1>7, <1>8, <1>9 DEF Goes, Claims

LEMMA MakeDownloadGoes ==
  ASSUME DirInv, NEW t \in Tasks, Claims(t), MakeDownload(t)
  PROVE  Goes(t)
<1> DEFINE d == call[t].down
<1>1. /\ Make(t, "makeDown", "fetch", "download") /\ tpc[t] = "makeDown"
      /\ UNCHANGED <<files, users, restarts, place, bare, hit>>
  BY DEF MakeDownload, Make, MakeOneOf, Step
<1>2. /\ d # NoDir /\ d \in Dir /\ d.at # 0 /\ d.base = "download"
      /\ call[t].save # NoDir /\ call[t].save.base = "new_save"
      /\ Record(t, d) \in users /\ Listed(call[t].need, d, "download", dirs)
  <2>1. d # NoDir /\ Listed(call[t].need, d, "download", dirs)
    BY <1>1 DEF DirInv, DirShape
  <2>2. d.at # 0
    BY <2>1, CallFacts DEF Dated
  <2>3. call[t].save # NoDir
    BY <1>1, CallFacts DEF Named
  <2>4. QED BY <2>1, <2>2, <2>3, CallFacts DEF Claims, CallRecorded
<1> HIDE DEF d
<1>3. /\ tpc[t] = "makeDown" /\ Footprint(t) /\ place' = place
      /\ call'[t].save = call[t].save /\ call'[t].down = call[t].down
      /\ call'[t].file_path = call[t].file_path /\ call'[t].todo = call[t].todo
      /\ Own(t)' = Own(t)
      /\ \A e : Record(t, e)' = Record(t, e) /\ Other(t, e)' = Other(t, e)
      /\ \A c : OtherBase(t, c)' = OtherBase(t, c) /\ Base(c)' = Base(c)
      /\ \/ /\ tpc'[t] = "cleanDown" /\ call'[t].status = "download" /\ dirs' = dirs
            /\ d \in dirs \/ (call[t].need = <<d, Base("download")>> /\ Base("download") \in dirs)
         \/ /\ tpc'[t] = "fetch" /\ call'[t].status = call[t].status /\ dirs' = dirs \union {d}
         \/ /\ tpc'[t] = "makeDown" /\ call'[t].status = call[t].status
            /\ dirs' = dirs \union {Base("download")} /\ call'[t].need = <<d>>
  <2>1. "download" \in Bases
    BY DEF Bases
  <2>2. QED BY <1>1, <1>2, <2>1, MakeFacts
<1>4. users' = users /\ bare' = bare /\ hit' = hit /\ files' = files /\ call'[t].down = d
  BY <1>1, <1>3 DEF d
<1>0. d \in dirs => Other(t, d)
  BY <1>3 DEF Claims, MadeByOther, d
<1> USE DEF Before, Making, Inside, After, Over
<1>5. CallRecorded(t)'
  BY <1>2, <1>3, <1>4 DEF Claims, CallRecorded
<1>6. MadeByOther(t)'
  <2>1. CASE tpc'[t] = "makeDown"
    <3>1. call'[t].need = <<d>> /\ dirs' = dirs \union {Base("download")}
      BY <1>3, <2>1
    <3>2. <<d>> # <<d, Base("download")>> /\ Base("download").at = 0
      BY DEF Base
    <3>3. d \in dirs' => Other(t, d)
      BY <1>0, <1>2, <1>3, <3>1, <3>2
    <3>4. QED BY <1>3, <1>4, <2>1, <3>1, <3>2, <3>3 DEF MadeByOther
  <2>2. CASE tpc'[t] # "makeDown"
    BY <1>3, <2>2 DEF MadeByOther
  <2>3. QED BY <2>1, <2>2
<1>7. GoneByOther(t)'
  <2>1. call[t].save \notin dirs => Other(t, call[t].save)
    BY <1>3 DEF Claims, GoneByOther
  <2>2. call[t].save \in dirs => call[t].save \in dirs'
    BY <1>3
  <2>3. tpc'[t] # "upload"
    BY <1>3
  <2>4. QED BY <1>3, <2>1, <2>2, <2>3 DEF GoneByOther
<1>8. LeftByOther(t)'
  <2>1. CASE tpc'[t] = "cleanDown"
    <3>1. dirs' = dirs
      BY <1>3, <2>1
    <3>2. QED BY <1>0, <1>3, <1>4, <2>1, <3>1 DEF LeftByOther
  <2>2. CASE tpc'[t] # "cleanDown"
    BY <1>3, <2>2 DEF LeftByOther
  <2>3. QED BY <2>1, <2>2
<1>9. Excused(t)'
  <2>1. CASE tpc'[t] = "cleanDown"
    <3>1. call[t].need = <<d, Base("download")>> /\ Base("download") \in dirs =>
            bare /\ OtherBase(t, "download")
      BY <1>3 DEF Claims, MadeByOther, d
    <3>2. call'[t].status = "download"
      BY <1>3, <2>1
    <3>3. Other(t, d) \/ (bare /\ OtherBase(t, "download"))
      BY <1>0, <1>3, <1>4, <2>1, <3>1
    <3>4. QED BY <1>2, <1>3, <1>4, <3>2, <3>3 DEF Excused
  <2>2. CASE tpc'[t] # "cleanDown"
    BY <1>3, <1>4, <2>2 DEF Claims, Excused
  <2>3. QED BY <2>1, <2>2
<1>10. QED BY <1>3, <1>5, <1>6, <1>7, <1>8, <1>9 DEF Goes, Claims

\* The directory of a download is named: whoever has made it already is another user.
LEMMA NameDownloadGoes ==
  ASSUME DirInv, NEW t \in Tasks, UsersPast, BasesThere, TrashHasCause, Claims(t), NameDownload(t)
  PROVE  Goes(t)
<1> DEFINE d == [base |-> "download", at |-> second]
           q == [call[t] EXCEPT !.down = d]
           q1 == [q EXCEPT !.status = "download"]
           q2 == [q EXCEPT !.need = Missing(d)]
<1>1. /\ tpc[t] = "name"
      /\ d \in dirs => tpc' = [tpc EXCEPT ![t] = "cleanDown"] /\ call' = [call EXCEPT ![t] = q1]
      /\ d \notin dirs => tpc' = [tpc EXCEPT ![t] = "makeDown"] /\ call' = [call EXCEPT ![t] = q2]
      /\ users' = users \union {Record(t, d)}
      /\ UNCHANGED <<dirs, files, restarts, place, bare, hit>>
  BY DEF NameDownload, Walk, Step, Local, Use, Record
<1>2. d \in Dir /\ d.at # 0 /\ d.base = "download" /\ d # NoDir
  <2>1. second \in 1..LastSecond /\ second # 0 /\ second \in 0..LastSecond
    BY DEF DirInv, DirTypes
  <2>2. "download" \in Bases /\ d \in [base : Bases, at : 0..LastSecond]
    BY <2>1 DEF Bases
  <2>3. QED BY <2>1, <2>2, NoDirIsNone DEF Dir
<1> HIDE DEF d
<1>3. call[t] \in LocalVars /\ q \in LocalVars
  BY <1>2, CallFacts, OwnFields
<1>4. /\ q.save = call[t].save /\ q.down = d /\ q.file_path = call[t].file_path
      /\ q.need = call[t].need /\ q.todo = call[t].todo /\ q.status = call[t].status
  BY <1>2, <1>3, OwnFields
<1> HIDE DEF q
<1>5. /\ Missing(d) \in Seq(Dir)
      /\ d \notin dirs /\ Missing(d) = <<d, Base("download")>> => Base("download") \notin dirs
  <2>1. Base("download") \in Dir
    BY BasesAreDirs DEF Bases
  <2>2. d \notin dirs => Missing(d) = IF Base("download") \in dirs THEN <<d>> ELSE <<d, Base("download")>>
    BY <1>2 DEF Missing
  <2>3. <<d>> # <<d, Base("download")>>
    OBVIOUS
  <2>4. d \in dirs => Missing(d) = << >>
    BY DEF Missing
  <2>5. <<d>> \in Seq(Dir) /\ <<d, Base("download")>> \in Seq(Dir) /\ << >> \in Seq(Dir)
    BY <1>2, <2>1
  <2>6. QED BY <2>2, <2>3, <2>4, <2>5
<1>6. /\ q1.save = call[t].save /\ q1.down = d /\ q1.file_path = call[t].file_path
      /\ q1.need = call[t].need /\ q1.todo = call[t].todo /\ q1.status = "download"
  BY <1>3, <1>4, OwnFields
<1>7. /\ q2.save = call[t].save /\ q2.down = d /\ q2.file_path = call[t].file_path
      /\ q2.need = Missing(d) /\ q2.todo = call[t].todo /\ q2.status = call[t].status
  BY <1>3, <1>4, <1>5, OwnFields
<1> HIDE DEF q1, q2
<1>8. /\ d \in dirs => tpc'[t] = "cleanDown" /\ call'[t] = q1
      /\ d \notin dirs => tpc'[t] = "makeDown" /\ call'[t] = q2
      /\ \A u \in Tasks \ {t} : tpc'[u] = tpc[u] /\ call'[u] = call[u]
  BY <1>1, OwnVariables
<1>9. call'[t].save = call[t].save /\ call'[t].down = d /\ call'[t].file_path = call[t].file_path
  BY <1>6, <1>7, <1>8
<1>10. /\ Record(t, d).task = t /\ Record(t, d).run = restarts /\ Record(t, d).dir = d
       /\ \A e : Record(t, e)' = Record(t, e)
  BY <1>1 DEF Record
<1>11. Footprint(t)
  BY <1>1, <1>2, <1>8, <1>10 DEF Footprint
<1>12. call[t].down = NoDir /\ \A w \in Own(t) : w.dir = call[t].save
  <2>1. call[t].down = NoDir
    BY <1>1 DEF Claims, CallRecorded
  <2>2. \A w \in Own(t) : w.dir # NoDir
    BY DEF UsersPast, Own, NoDir
  <2>3. QED BY <1>1, <2>1, <2>2 DEF Claims, CallRecorded, Over
<1>13. call[t].save # NoDir /\ call[t].save # d
  <2>1. call[t].save # NoDir
    BY <1>1, CallFacts DEF Named
  <2>2. QED BY <1>2, <2>1, CallFacts
<1>14. Record(t, d) \notin users
  <2>1. Record(t, d) \notin Own(t)
    BY <1>10, <1>12, <1>13
  <2>2. QED BY <1>10, <2>1 DEF Own
<1>15. Own(t)' = Own(t) \union {Record(t, d)}
  BY <1>1, <1>10 DEF Own
<1>16. users' \ Own(t)' = users \ Own(t)
  BY <1>1, <1>14, <1>15
<1>17. /\ \A e : Other(t, e)' = Other(t, e)
       /\ \A b : OtherBase(t, b)' = OtherBase(t, b) /\ Base(b)' = Base(b)
  BY <1>16 DEF Other, OtherBase, Base
<1>18. d \in dirs => Other(t, d)
  <2>1. ASSUME d \in dirs PROVE \E w \in users : w.dir = d
    <3>1. CASE Shared(d)
      <4>1. {u \in users : u.dir = d} # {}
        BY <3>1, FS_EmptySet DEF Shared
      <4>2. QED BY <4>1
    <3>2. CASE ~Shared(d)
      BY <1>2, <2>1, <3>2 DEF TrashHasCause
    <3>3. QED BY <3>1, <3>2
  <2>2. \A w \in Own(t) : w.dir # d
    BY <1>12, <1>13
  <2>3. QED BY <2>1, <2>2 DEF Other
<1> USE DEF Before, Making, Inside, After, Over
<1>19. CallRecorded(t)'
  <2>1. Record(t, d) \in users' /\ Record(t, call[t].save) \in users'
    BY <1>1, <1>13 DEF Claims, CallRecorded
  <2>2. \A w \in Own(t)' : w.dir \in {call[t].save, d}
    BY <1>10, <1>12, <1>15
  <2>3. QED BY <1>1, <1>8, <1>9, <1>10, <2>1, <2>2 DEF CallRecorded
<1>20. MadeByOther(t)'
  <2>1. Base("download") \notin dirs => bare
    BY DEF BasesThere, Bases
  <2>2. QED BY <1>1, <1>5, <1>7, <1>8, <1>9, <1>17, <2>1 DEF MadeByOther
<1>21. GoneByOther(t)'
  BY <1>1, <1>8, <1>9, <1>17 DEF Claims, GoneByOther
<1>22. LeftByOther(t)'
  BY <1>1, <1>8, <1>9, <1>17, <1>18 DEF LeftByOther
<1>23. Excused(t)'
  <2>1. CASE d \in dirs
    BY <1>2, <1>8, <1>9, <1>17, <1>18, <2>1 DEF Excused
  <2>2. CASE d \notin dirs
    <3>1. call'[t].status = call[t].status
      BY <1>7, <1>8, <2>2
    <3>2. QED BY <1>1, <1>9, <1>12, <1>17, <3>1 DEF Claims, Excused
  <2>3. QED BY <2>1, <2>2
<1>24. QED BY <1>1, <1>8, <1>11, <1>19, <1>20, <1>21, <1>22, <1>23 DEF Goes, Claims

LEMMA FetchGoes ==
  ASSUME DirInv, NEW t \in Tasks, Claims(t), Fetch(t)
  PROVE  Goes(t)
<1> DEFINE q == [call[t] EXCEPT !.file_path = TRUE]
<1>1. /\ tpc[t] = "fetch" /\ tpc' = [tpc EXCEPT ![t] = "work"] /\ call' = [call EXCEPT ![t] = q]
      /\ UNCHANGED <<dirs, files, users, restarts, place, bare, hit>>
  BY DEF Fetch, Step, Local
<1>2. /\ q.save = call[t].save /\ q.down = call[t].down /\ q.file_path
      /\ q.need = call[t].need /\ q.todo = call[t].todo /\ q.status = call[t].status
  BY CallFacts, OwnFields
<1> HIDE DEF q
<1>3. /\ Footprint(t)  /\ tpc'[t] = "work" /\ call'[t] = q
      /\ Own(t)' = Own(t)
      /\ \A e : Record(t, e)' = Record(t, e) /\ Other(t, e)' = Other(t, e)
      /\ \A b : OtherBase(t, b)' = OtherBase(t, b) /\ Base(b)' = Base(b)
  BY <1>1, QuietStep
<1> USE DEF Before, Making, Inside, After, Over
<1>4. CallRecorded(t)'
  BY <1>1, <1>2, <1>3 DEF Claims, CallRecorded
<1>5. MadeByOther(t)'
  BY <1>3 DEF MadeByOther
<1>6. GoneByOther(t)'
  BY <1>1, <1>2, <1>3 DEF Claims, GoneByOther
<1>7. LeftByOther(t)'
  BY <1>2, <1>3 DEF LeftByOther
<1>8. Excused(t)'
  BY <1>1, <1>2, <1>3 DEF Claims, Excused
<1>9. QED BY <1>1, <1>3, <1>4, <1>5, <1>6, <1>7, <1>8 DEF Goes, Claims

LEMMA DownloadErrorGoes ==
  ASSUME DirInv, NEW t \in Tasks, Claims(t), NEW from \in {"name", "fetch"}, DownloadError(t, from)
  PROVE  Goes(t)
<1> DEFINE q == [call[t] EXCEPT !.status = "download"]
<1>1. /\ tpc[t] = from /\ tpc' = [tpc EXCEPT ![t] = "cleanDown"] /\ call' = [call EXCEPT ![t] = q]
      /\ hit' = hit \union {t}
      /\ UNCHANGED <<dirs, files, users, restarts, place, bare>>
  BY DEF DownloadError, Step, Local
<1>2. /\ q.save = call[t].save /\ q.down = call[t].down /\ q.file_path = call[t].file_path
      /\ q.need = call[t].need /\ q.todo = call[t].todo /\ q.status = "download"
  BY CallFacts, OwnFields
<1> HIDE DEF q
<1>3. /\ Footprint(t)  /\ tpc'[t] = "cleanDown" /\ call'[t] = q
      /\ Own(t)' = Own(t)
      /\ \A e : Record(t, e)' = Record(t, e) /\ Other(t, e)' = Other(t, e)
      /\ \A b : OtherBase(t, b)' = OtherBase(t, b) /\ Base(b)' = Base(b)
  BY <1>1, QuietStep
<1> USE DEF Before, Making, Inside, After, Over
<1>4. CallRecorded(t)'
  BY <1>1, <1>2, <1>3 DEF Claims, CallRecorded
<1>5. MadeByOther(t)' /\ GoneByOther(t)'
  BY <1>3 DEF MadeByOther, GoneByOther
<1>6. LeftByOther(t)'
  BY <1>1, <1>3 DEF LeftByOther
<1>7. Excused(t)'
  BY <1>1 DEF Excused
<1>8. QED BY <1>1, <1>3, <1>4, <1>5, <1>6, <1>7 DEF Goes, Claims

LEMMA WorkGoes ==
  ASSUME DirInv, NEW t \in Tasks, Claims(t), Work(t)
  PROVE  Goes(t)
<1> DEFINE f == [dir |-> call[t].save, of |-> t]
<1>1. /\ tpc[t] = "work" /\ tpc' = [tpc EXCEPT ![t] = "upload"]
      /\ files' = (IF call[t].save \in dirs THEN files \union {f} ELSE files)
      /\ call' = [call EXCEPT ![t] = call[t]]
      /\ UNCHANGED <<dirs, users, restarts, place, bare, hit>>
  BY CallFacts DEF Work, Step
<1>2. /\ tpc'[t] = "upload" /\ call'[t] = call[t]
      /\ \A u \in Tasks \ {t} : tpc'[u] = tpc[u] /\ call'[u] = call[u]
  BY <1>1, OwnVariables
<1>3. f.dir = call[t].save /\ f.of = t /\ call[t].save # NoDir /\ Record(t, call[t].save) \in users
  BY <1>1, CallFacts DEF Named, Claims, CallRecorded
<1>4. call[t].save \notin dirs => Other(t, call[t].save)
  BY <1>1 DEF Claims, GoneByOther, Inside
<1>5. call[t].save \in dirs => f \in files'
  BY <1>1
<1>6. Footprint(t)
  <2> HIDE DEF f
  <2> QED BY <1>1, <1>2, <1>3 DEF Footprint
<1>7. Own(t)' = Own(t) /\ \A e : Record(t, e)' = Record(t, e)
  BY <1>1 DEF Own, Record
<1>8. /\ \A e : Other(t, e)' = Other(t, e)
      /\ \A b : OtherBase(t, b)' = OtherBase(t, b)
  BY <1>1, <1>7 DEF Other, OtherBase
<1> USE DEF Before, Making, Inside, After, Over
<1>9. CallRecorded(t)'
  BY <1>1, <1>2, <1>7 DEF Claims, CallRecorded
<1>10. MadeByOther(t)'
  BY <1>2 DEF MadeByOther
<1>11. GoneByOther(t)'
  BY <1>2, <1>4, <1>5, <1>8 DEF GoneByOther
<1>12. LeftByOther(t)'
  BY <1>1, <1>2 DEF Claims, LeftByOther
<1>13. Excused(t)'
  BY <1>1, <1>2, <1>8 DEF Claims, Excused
<1>14. QED BY <1>1, <1>2, <1>6, <1>9, <1>10, <1>11, <1>12, <1>13 DEF Goes, Claims

LEMMA UploadGoes ==
  ASSUME DirInv, NEW t \in Tasks, Claims(t), Upload(t)
  PROVE  Goes(t)
<1> DEFINE f == [dir |-> call[t].save, of |-> t]
           q1 == [call[t] EXCEPT !.status = "upload"]
           q == IF f \in files THEN call[t] ELSE q1
<1>1. /\ tpc[t] = "upload" /\ tpc' = [tpc EXCEPT ![t] = "cleanDown"] /\ call' = [call EXCEPT ![t] = q]
      /\ UNCHANGED <<dirs, files, users, restarts, place, bare, hit>>
  BY DEF Upload, UploadThen, Step, Local
<1>2. /\ q1.save = call[t].save /\ q1.down = call[t].down /\ q1.file_path = call[t].file_path
      /\ q1.need = call[t].need /\ q1.todo = call[t].todo /\ q1.status = "upload"
  BY CallFacts, OwnFields
<1> HIDE DEF q1
<1>3. /\ q.save = call[t].save /\ q.down = call[t].down /\ q.file_path = call[t].file_path
      /\ q.status = call[t].status \/ (f \notin files /\ q.status = "upload")
  BY <1>2
<1>4. f \notin files => Other(t, call[t].save)
  BY <1>1 DEF Claims, GoneByOther
<1> HIDE DEF q, f
<1>5. /\ Footprint(t)  /\ tpc'[t] = "cleanDown" /\ call'[t] = q
      /\ Own(t)' = Own(t)
      /\ \A e : Record(t, e)' = Record(t, e) /\ Other(t, e)' = Other(t, e)
      /\ \A b : OtherBase(t, b)' = OtherBase(t, b) /\ Base(b)' = Base(b)
  BY <1>1, QuietStep
<1> USE DEF Before, Making, Inside, After, Over
<1>6. CallRecorded(t)'
  BY <1>1, <1>3, <1>5 DEF Claims, CallRecorded
<1>7. MadeByOther(t)' /\ GoneByOther(t)'
  BY <1>5 DEF MadeByOther, GoneByOther
<1>8. LeftByOther(t)'
  BY <1>1, <1>3, <1>5 DEF Claims, LeftByOther
<1>9. Excused(t)'
  <2>1. Other(t, call[t].save) => call[t].save # NoDir
    BY CallFacts, NoDirIsNone DEF Other
  <2>2. QED BY <1>1, <1>3, <1>4, <1>5, <2>1 DEF Claims, Excused
<1>10. QED BY <1>1, <1>5, <1>6, <1>7, <1>8, <1>9 DEF Goes, Claims

LEMMA DeleteDownloadGoes ==
  ASSUME DirInv, NEW t \in Tasks, Claims(t), DeleteDownload(t)
  PROVE  Goes(t)
<1>1. /\ tpc[t] = "cleanDown" /\ tpc' = [tpc EXCEPT ![t] = "listSave"]
      /\ call' = [call EXCEPT ![t] = call[t]]
      /\ dirs' = (IF call[t].file_path THEN dirs \ {call[t].down} ELSE dirs)
      /\ UNCHANGED <<files, users, restarts, place, bare, hit>>
  BY CallFacts DEF DeleteDownload, DeleteDownloadAnd, Step
<1>2. /\ tpc'[t] = "listSave" /\ call'[t] = call[t]
      /\ \A u \in Tasks \ {t} : tpc'[u] = tpc[u] /\ call'[u] = call[u]
  BY <1>1, OwnVariables
<1>3. call[t].down \in dirs => call[t].down.at # 0 /\ Record(t, call[t].down) \in users
  BY NoDirIsNone, CallFacts DEF Dated, Claims, CallRecorded
<1>4. Footprint(t)
  BY <1>1, <1>2, <1>3 DEF Footprint
<1>5. Own(t)' = Own(t) /\ \A e : Record(t, e)' = Record(t, e)
  BY <1>1 DEF Own, Record
<1>6. /\ \A e : Other(t, e)' = Other(t, e)
      /\ \A b : OtherBase(t, b)' = OtherBase(t, b)
  BY <1>1, <1>5 DEF Other, OtherBase
<1> USE DEF Before, Making, Inside, After, Over
<1>7. CallRecorded(t)'
  BY <1>1, <1>2, <1>5 DEF Claims, CallRecorded
<1>8. MadeByOther(t)' /\ GoneByOther(t)'
  BY <1>2 DEF MadeByOther, GoneByOther
<1>9. LeftByOther(t)'
  <2>1. call[t].down \in dirs' => t \in hit \/ Other(t, call[t].down)
    BY <1>1 DEF Claims, LeftByOther
  <2>2. QED BY <1>1, <1>2, <1>6, <2>1 DEF LeftByOther
<1>10. Excused(t)'
  BY <1>1, <1>2, <1>6 DEF Claims, Excused
<1>11. QED BY <1>1, <1>2, <1>4, <1>7, <1>8, <1>9, <1>10 DEF Goes, Claims

LEMMA ListSaveGoes ==
  ASSUME DirInv, NEW t \in Tasks, Claims(t), ListSave(t)
  PROVE  Goes(t)
<1> DEFINE e == {f \in files : f.dir = call[t].save}
           q == [call[t] EXCEPT !.todo = e]
           to == IF call[t].save \in dirs THEN "cleanSave" ELSE "forget"
<1>1. /\ tpc[t] = "listSave" /\ tpc' = [tpc EXCEPT ![t] = to] /\ call' = [call EXCEPT ![t] = q]
      /\ UNCHANGED <<dirs, files, users, restarts, place, bare, hit>>
  BY DEF ListSave, ListOf, Step, Local
<1>2. e \in SUBSET Content
  BY DEF DirInv, DirTypes
<1>3. /\ \A f \in files : f.dir = call[t].save => f \in e
      /\ e \subseteq files /\ \A f \in e : f.dir = call[t].save
  OBVIOUS
<1> HIDE DEF e
<1>4. /\ q.save = call[t].save /\ q.down = call[t].down /\ q.file_path = call[t].file_path
      /\ q.todo = e /\ q.status = call[t].status
  BY <1>2, CallFacts, OwnFields
<1> HIDE DEF q
<1>5. /\ Footprint(t)  /\ tpc'[t] = to /\ call'[t] = q
      /\ Own(t)' = Own(t)
      /\ \A d : Record(t, d)' = Record(t, d) /\ Other(t, d)' = Other(t, d)
      /\ \A b : OtherBase(t, b)' = OtherBase(t, b) /\ Base(b)' = Base(b)
  BY <1>1, QuietStep
<1> USE DEF Before, Making, Inside, After, Over
<1>6. CallRecorded(t)'
  BY <1>1, <1>4, <1>5 DEF Claims, CallRecorded
<1>7. MadeByOther(t)' /\ GoneByOther(t)'
  BY <1>5 DEF MadeByOther, GoneByOther
<1>8. LeftByOther(t)'
  BY <1>1, <1>3, <1>4, <1>5 DEF Claims, LeftByOther
<1>9. Excused(t)'
  BY <1>1, <1>4, <1>5 DEF Claims, Excused
<1>10. QED BY <1>1, <1>5, <1>6, <1>7, <1>8, <1>9 DEF Goes, Claims

LEMMA DeleteEntryGoes ==
  ASSUME DirInv, NEW t \in Tasks, Claims(t), NEW f \in Content, DeleteEntry(t, f)
  PROVE  Goes(t)
<1> DEFINE e == IF f \in files THEN call[t].todo \ {f} ELSE {}
           q == [call[t] EXCEPT !.todo = e]
           to == IF f \in files THEN "cleanSave" ELSE "forget"
<1>1. /\ tpc[t] = "cleanSave" /\ tpc' = [tpc EXCEPT ![t] = to] /\ call' = [call EXCEPT ![t] = q]
      /\ f \in call[t].todo /\ files' = files \ {f}
      /\ UNCHANGED <<dirs, users, restarts, place, bare, hit>>
  BY DEF DeleteEntry, Step, Local
<1>2. e \in SUBSET Content
  BY CallFacts
<1>3. /\ q.save = call[t].save /\ q.down = call[t].down /\ q.file_path = call[t].file_path
      /\ q.todo = e /\ q.status = call[t].status
  <2> HIDE DEF e
  <2> QED BY <1>2, CallFacts, OwnFields
<1> HIDE DEF q
<1>4. /\ tpc'[t] = to /\ call'[t] = q
      /\ \A u \in Tasks \ {t} : tpc'[u] = tpc[u] /\ call'[u] = call[u]
  BY <1>1, OwnVariables
<1>5. f.dir = call[t].save /\ f.dir \in Dir /\ f.dir # NoDir /\ Record(t, f.dir) \in users
  BY <1>1, NoDirIsNone DEF Content, Claims, LeftByOther, CallRecorded
<1>6. Footprint(t)
  BY <1>1, <1>4, <1>5 DEF Footprint
<1>7. Own(t)' = Own(t) /\ \A d : Record(t, d)' = Record(t, d)
  BY <1>1 DEF Own, Record
<1>8. /\ \A d : Other(t, d)' = Other(t, d)
      /\ \A b : OtherBase(t, b)' = OtherBase(t, b)
  BY <1>1, <1>7 DEF Other, OtherBase
<1> USE DEF Before, Making, Inside, After, Over
<1>9. CallRecorded(t)'
  BY <1>1, <1>3, <1>4, <1>7 DEF Claims, CallRecorded
<1>10. MadeByOther(t)' /\ GoneByOther(t)'
  BY <1>4 DEF MadeByOther, GoneByOther
<1>11. LeftByOther(t)'
  <2>1. call[t].down \in dirs => t \in hit \/ Other(t, call[t].down)
    BY <1>1 DEF Claims, LeftByOther
  <2>2. CASE f \in files
    <3>1. \/ Other(t, call[t].save)
          \/ (\A g \in files' : g.dir = call[t].save => g \in e) /\ e \subseteq files'
      BY <1>1, <2>2 DEF Claims, LeftByOther
    <3>2. \A g \in e : g.dir = call[t].save
      BY <1>1 DEF Claims, LeftByOther
    <3> HIDE DEF e
    <3>3. QED BY <1>1, <1>3, <1>4, <1>8, <2>1, <2>2, <3>1, <3>2 DEF LeftByOther
  <2>3. CASE f \notin files
    <3>1. Other(t, call[t].save)
      BY <1>1, <2>3 DEF Claims, LeftByOther
    <3>2. QED BY <1>1, <1>3, <1>4, <1>8, <2>1, <2>3, <3>1 DEF LeftByOther
  <2>4. QED BY <2>2, <2>3
<1>12. Excused(t)'
  BY <1>1, <1>3, <1>4, <1>8 DEF Claims, Excused
<1>13. QED BY <1>1, <1>4, <1>6, <1>9, <1>10, <1>11, <1>12 DEF Goes, Claims

LEMMA RemoveSaveGoes ==
  ASSUME DirInv, NEW t \in Tasks, Claims(t), RemoveSave(t)
  PROVE  Goes(t)
<1>1. /\ tpc[t] = "cleanSave" /\ tpc' = [tpc EXCEPT ![t] = "forget"] /\ call[t].todo = {}
      /\ call' = [call EXCEPT ![t] = call[t]]
      /\ dirs' = (IF \E f \in files : f.dir = call[t].save THEN dirs ELSE dirs \ {call[t].save})
      /\ UNCHANGED <<files, users, restarts, place, bare, hit>>
  BY CallFacts DEF RemoveSave, Step
<1>2. /\ tpc'[t] = "forget" /\ call'[t] = call[t]
      /\ \A u \in Tasks \ {t} : tpc'[u] = tpc[u] /\ call'[u] = call[u]
  BY <1>1, OwnVariables
<1>3. call[t].save \in dirs => call[t].save.at # 0 /\ Record(t, call[t].save) \in users
  BY NoDirIsNone, CallFacts DEF Dated, Claims, CallRecorded
<1>4. Footprint(t)
  BY <1>1, <1>2, <1>3 DEF Footprint
<1>5. Own(t)' = Own(t) /\ \A e : Record(t, e)' = Record(t, e)
  BY <1>1 DEF Own, Record
<1>6. /\ \A e : Other(t, e)' = Other(t, e)
      /\ \A b : OtherBase(t, b)' = OtherBase(t, b)
  BY <1>1, <1>5 DEF Other, OtherBase
<1> USE DEF Before, Making, Inside, After, Over
<1>7. CallRecorded(t)'
  BY <1>1, <1>2, <1>5 DEF Claims, CallRecorded
<1>8. MadeByOther(t)' /\ GoneByOther(t)'
  BY <1>2 DEF MadeByOther, GoneByOther
<1>9. LeftByOther(t)'
  <2>1. call[t].down \in dirs => t \in hit \/ Other(t, call[t].down)
    BY <1>1 DEF Claims, LeftByOther
  <2>2. call[t].save \in dirs' => Other(t, call[t].save)
    BY <1>1 DEF Claims, LeftByOther
  <2>3. QED BY <1>1, <1>2, <1>6, <2>1, <2>2 DEF LeftByOther
<1>10. Excused(t)'
  BY <1>1, <1>2, <1>6 DEF Claims, Excused
<1>11. QED BY <1>1, <1>2, <1>4, <1>7, <1>8, <1>9, <1>10 DEF Goes, Claims

\* A task that does not run, or has not begun, claims nothing.
LEMMA ClaimsNothing ==
  ASSUME NEW t \in Tasks, call'[t] = Start, tpc'[t] \in Over \union {"new", "loaded"},
         tpc'[t] \notin Over => Own(t)' = {}
  PROVE  Claims(t)'
<1>1. call'[t].save = NoDir /\ call'[t].down = NoDir /\ call'[t].status = "success"
  BY DEF Start
<1> USE DEF Before, Making, Inside, After, Over
<1>2. CallRecorded(t)'
  BY <1>1 DEF CallRecorded
<1>3. MadeByOther(t)' /\ GoneByOther(t)' /\ LeftByOther(t)'
  BY DEF MadeByOther, GoneByOther, LeftByOther
<1>4. Excused(t)'
  BY <1>1 DEF Excused
<1>5. QED BY <1>2, <1>3, <1>4 DEF Claims

\* The worker of a task ends, after the answer or before.
LEMMA EndFacts ==
  ASSUME DirInv, DirInv', UseInv, NEW t \in Tasks, NEW to \in Over, tpc[t] \notin Over \union {"new"},
         tpc' = [tpc EXCEPT ![t] = to], call' = [call EXCEPT ![t] = Start],
         UNCHANGED <<dirs, files, users, restarts, bare, hit>>
  PROVE  /\ tpc'[t] = to /\ (\A u \in Tasks \ {t} : tpc'[u] = tpc[u])
         /\ \A u \in Tasks : Claims(u)'
         /\ BasesThere' /\ Running' = Running \ {t}
         /\ \A d : Shared(d)' = Shared(d)
<1>1. tpc'[t] = to /\ call'[t] = Start /\ Footprint(t) /\ \A u \in Tasks \ {t} : tpc'[u] = tpc[u]
  <2>1. hit \subseteq hit' /\ UNCHANGED <<dirs, files, users, restarts, bare>>
    OBVIOUS
  <2>2. Footprint(t) /\ tpc'[t] = to /\ call'[t] = Start
    BY <2>1, QuietStep
  <2>3. \A u \in Tasks \ {t} : tpc'[u] = tpc[u]
    BY OwnVariables
  <2>4. QED BY <2>2, <2>3
<1>2. Claims(t)'
  BY <1>1, ClaimsNothing
<1>3. \A u \in Tasks : Claims(u)'
  BY <1>1, <1>2, OthersKeep DEF UseInv
<1>4. BasesThere' /\ \A d : Shared(d)' = Shared(d)
  BY DEF UseInv, BasesThere, Shared, Base
<1>5. Running' = Running \ {t}
  BY <1>1 DEF Running, Over
<1>6. QED BY <1>1, <1>3, <1>4, <1>5

\* An answered task has left nothing, but what another user left or a failed download.
LEMMA ReplyStep ==
  ASSUME DirInv, DirInv', UseInv, NEW t \in Tasks, Reply(t)
  PROVE  UseInv'
<1>1. /\ tpc[t] = "reply" /\ tpc' = [tpc EXCEPT ![t] = "done"] /\ call' = [call EXCEPT ![t] = Start]
      /\ UNCHANGED <<dirs, files, users, restarts, place, bare, hit>>
  BY DEF Reply, Step, Local
<1>2. /\ tpc'[t] = "done" /\ (\A u \in Tasks \ {t} : tpc'[u] = tpc[u])
      /\ \A u \in Tasks : Claims(u)'
      /\ BasesThere' /\ Running' = Running \ {t}
      /\ \A d : Shared(d)' = Shared(d)
  BY <1>1, EndFacts DEF Over
<1>3. UsersPast'
  <2>1. \A w \in users : w.task \in Tasks
    BY CallFacts
  <2>2. \A w \in users : w.run < restarts => place[w.task] # "none" \/ tpc'[w.task] = "done"
    BY <1>2, <2>1 DEF UseInv, UsersPast
  <2>3. \A u \in Tasks : tpc'[u] = "stopped" => place[u] # "none"
    BY <1>2 DEF UseInv, UsersPast
  <2>4. QED BY <1>1, <2>2, <2>3 DEF UseInv, UsersPast
<1>4. ASSUME NEW d \in dirs, d.at # 0, ~Shared(d)
      PROVE  \E w \in users : w.dir = d /\ (w.task \in Running \ {t} \/ place[w.task] # "none" \/ w.task \in hit)
  <2>1. PICK w \in users : w.dir = d /\ (w.task \in Running \/ place[w.task] # "none" \/ w.task \in hit)
    BY <1>4 DEF UseInv, TrashHasCause
  <2>2. ASSUME w.task = t, place[t] = "none", t \notin hit PROVE FALSE
    <3>1. w.run = restarts
      <4>1. w.run <= restarts /\ ~(w.run < restarts)
        BY <1>1, <2>2 DEF UseInv, UsersPast
      <4>2. w.run \in Nat /\ restarts \in Nat
        BY CallFacts
      <4>3. QED BY <4>1, <4>2
    <3>2. w \in Own(t) /\ w = Record(t, d)
      <4>1. w \in [task : Tasks, run : Nat, dir : Dir]
        BY CallFacts
      <4>2. QED BY <2>1, <2>2, <3>1, <4>1 DEF Own, Record
    <3>3. d \in {call[t].save, call[t].down}
      BY <1>1, <2>1, <3>2 DEF UseInv, Claims, CallRecorded, Over
    <3>4. Other(t, d)
      BY <1>1, <1>4, <2>2, <3>3 DEF UseInv, Claims, LeftByOther, After
    <3>5. Shared(d)
      BY <3>2, <3>4, UsersCounted DEF UseInv, UsersPast
    <3>6. QED BY <1>4, <3>5
  <2>3. QED BY <2>1, <2>2
<1>5. TrashHasCause'
  BY <1>1, <1>2, <1>4 DEF TrashHasCause
<1>6. QED BY <1>2, <1>3, <1>5 DEF UseInv

LEMMA KillStep ==
  ASSUME DirInv, DirInv', UseInv, FileInv, NEW t \in Tasks, Kill(t)
  PROVE  UseInv'
<1>1. /\ tpc[t] \notin Over \union {"new"} /\ tpc' = [tpc EXCEPT ![t] = "stopped"]
      /\ call' = [call EXCEPT ![t] = Start] /\ place' = [place EXCEPT ![t] = Place(t)]
      /\ UNCHANGED <<dirs, files, users, restarts, bare, hit>>
  BY DEF Kill, Local, Running, Over
<1>2. /\ tpc'[t] = "stopped" /\ (\A u \in Tasks \ {t} : tpc'[u] = tpc[u])
      /\ \A u \in Tasks : Claims(u)'
      /\ BasesThere' /\ Running' = Running \ {t}
      /\ \A d : Shared(d)' = Shared(d)
  BY <1>1, EndFacts DEF Over
<1>3. place'[t] # "none" /\ \A u \in Tasks \ {t} : place'[u] = place[u]
  BY <1>1 DEF Place, FileInv, FileShape
<1>4. \A w \in users : w.task \in Tasks
  BY CallFacts
<1>5. UsersPast'
  <2>1. \A w \in users : w.run < restarts => place'[w.task] # "none" \/ tpc'[w.task] = "done"
    BY <1>2, <1>3, <1>4 DEF UseInv, UsersPast
  <2>2. \A u \in Tasks : tpc'[u] = "stopped" => place'[u] # "none"
    BY <1>2, <1>3 DEF UseInv, UsersPast
  <2>3. QED BY <1>1, <2>1, <2>2 DEF UseInv, UsersPast
<1>6. TrashHasCause'
  <2>1. \A w \in users :
          w.task \in Running \/ place[w.task] # "none" \/ w.task \in hit =>
            w.task \in Running' \/ place'[w.task] # "none" \/ w.task \in hit
    BY <1>2, <1>3, <1>4
  <2>2. QED BY <1>1, <1>2, <2>1 DEF UseInv, TrashHasCause
<1>7. QED BY <1>2, <1>5, <1>6 DEF UseInv

\* The service starts again: of its tasks, where they were stopped is known.
LEMMA RestartStep ==
  ASSUME DirInv, DirInv', UseInv, FileInv, NEW found \in SUBSET Tasks, NEW loaded \in SUBSET found,
         Restart(found, loaded)
  PROVE  UseInv'
<1>1. /\ \A t \in loaded : message[t] # "none"
      /\ restarts' = restarts + 1 /\ call' = [t \in Tasks |-> Start]
      /\ place' = [t \in Tasks |-> IF t \in Running THEN Place(t) ELSE place[t]]
      /\ tpc' = [t \in Tasks |-> IF t \in loaded /\ ~broken' THEN "loaded"
                                 ELSE IF t \in Running THEN "stopped" ELSE tpc[t]]
      /\ UNCHANGED <<dirs, files, users, bare, hit>>
  BY DEF Restart
<1>2. \A t \in Tasks : /\ t \in Running => place'[t] # "none" /\ tpc'[t] \in {"loaded", "stopped"}
                       /\ t \notin Running => place'[t] = place[t]
                       /\ t \notin Running => tpc'[t] = tpc[t] \/ (tpc'[t] = "loaded" /\ t \in loaded)
                       /\ tpc'[t] \in Over \union {"new", "loaded"}
  BY <1>1 DEF Place, Running, Over
<1>3. restarts \in Nat /\ \A w \in users : w.task \in Tasks /\ w.run \in Nat /\ w.run <= restarts
  <2>1. restarts \in Nat /\ \A w \in users : w.task \in Tasks /\ w.run \in Nat
    BY DEF DirInv, DirTypes
  <2>2. QED BY <2>1 DEF UseInv, UsersPast
<1>4. \A t \in Tasks : Own(t)' = {}
  BY <1>1, <1>3 DEF Own
<1>5. \A t \in Tasks : Claims(t)'
  <2>1. \A t \in Tasks : call'[t] = Start
    BY <1>1
  <2>2. QED BY <1>2, <1>4, <2>1, ClaimsNothing
<1>6. UsersPast'
  <2>1. ASSUME NEW w \in users PROVE place'[w.task] # "none" \/ tpc'[w.task] = "done"
    <3> DEFINE t == w.task
    <3>0. t \in Tasks
      BY <1>3
    <3>1. CASE t \in Running
      BY <1>2, <3>0, <3>1
    <3>2. CASE tpc[t] = "stopped"
      BY <1>2, <3>0, <3>2 DEF UseInv, UsersPast
    <3>3. CASE tpc[t] = "done"
      <4>1. t \notin loaded /\ t \notin Running
        BY <1>1, <3>0, <3>3 DEF FileInv, FileShape, Running
      <4>2. QED BY <1>2, <3>0, <3>3, <4>1
    <3>4. CASE tpc[t] = "new"
      <4>1. w.dir # NoDir
        BY DEF UseInv, UsersPast, NoDir
      <4>2. w \notin Own(t)
        BY <3>0, <3>4, <4>1 DEF UseInv, Claims, CallRecorded, Over
      <4>3. w.run < restarts
        BY <1>3, <4>2 DEF Own
      <4>4. place[t] # "none"
        BY <3>4, <4>3 DEF UseInv, UsersPast
      <4>5. QED BY <1>2, <3>0, <3>4, <4>4 DEF Running
    <3>5. QED BY <3>0, <3>1, <3>2, <3>3, <3>4 DEF Running
  <2>2. \A t \in Tasks : tpc'[t] = "stopped" => place'[t] # "none"
    BY <1>2 DEF UseInv, UsersPast
  <2>3. \A w \in users : w.run <= restarts'
    BY <1>1, <1>3
  <2>4. QED BY <1>1, <2>1, <2>2, <2>3 DEF UseInv, UsersPast
<1>7. BasesThere' /\ \A d : Shared(d)' = Shared(d)
  BY <1>1 DEF UseInv, BasesThere, Shared, Base
<1>8. TrashHasCause'
  <2>1. \A w \in users :
          w.task \in Running \/ place[w.task] # "none" \/ w.task \in hit =>
            place'[w.task] # "none" \/ w.task \in hit
    BY <1>2, <1>3
  <2>2. QED BY <1>1, <1>7, <2>1 DEF UseInv, TrashHasCause
<1>9. QED BY <1>5, <1>6, <1>7, <1>8 DEF UseInv

LEMMA UseInitial == DiskInit => UseInv
<1> SUFFICES ASSUME DiskInit PROVE UseInv
    OBVIOUS
<1> USE DEF DiskInit
<1>1. UsersPast
  BY FS_EmptySet DEF UsersPast
<1>2. BasesThere
  BY DEF BasesThere
<1>3. TrashHasCause
  BY BasesAreDirs DEF TrashHasCause
<1>4. ASSUME NEW t \in Tasks PROVE Claims(t)
  <2>1. /\ tpc[t] = "new" /\ Own(t) = {} /\ call[t].save = NoDir /\ call[t].down = NoDir
        /\ call[t].status = "success"
    BY DEF Own, Start
  <2> HIDE DEF DiskInit
  <2>2. CallRecorded(t) /\ MadeByOther(t) /\ GoneByOther(t) /\ LeftByOther(t) /\ Excused(t)
    BY <2>1 DEF CallRecorded, MadeByOther, GoneByOther, LeftByOther, Excused,
                Before, Making, Inside, After, Over
  <2>3. QED BY <2>2 DEF Claims
<1>5. QED BY <1>1, <1>2, <1>3, <1>4 DEF UseInv

(***************************************************************************)
(* Every step keeps who uses what, and with it the cause of every failure  *)
(* and of every directory that is left.                                    *)
(***************************************************************************)
LEMMA UseStep == DirInv /\ FileInv /\ DirInv' /\ UseInv /\ [DiskNext]_diskvars => UseInv'
<1> SUFFICES ASSUME DirInv, FileInv, DirInv', UseInv, [DiskNext]_diskvars PROVE UseInv'
    OBVIOUS
<1>1. UsersPast /\ BasesThere /\ TrashHasCause /\ \A t \in Tasks : Claims(t)
  BY DEF UseInv
<1>2. ASSUME NEW t \in Tasks, Goes(t) PROVE UseInv'
  BY <1>2, TaskStep DEF Goes
<1>3. ASSUME NEW t \in Tasks, OpenMessage(t) \/ OpenLeft(t) \/ CloseMessage(t) \/ Forget(t) \/ NoReply(t)
      PROVE  Goes(t)
  <2>1. UNCHANGED <<dirs, files, call, restarts, place, bare, hit, users>>
    BY <1>3 DEF OpenMessage, OpenLeft, CloseMessage, Forget, WriteMessage, NoReply
  <2>2. \/ Step(t, "new", "store") \/ Step(t, "loaded", "store") \/ Step(t, "store", "check")
        \/ Step(t, "forget", "reply") \/ Step(t, "upload", "silent") \/ Step(t, "cleanDown", "silent")
    BY <1>3 DEF OpenMessage, OpenLeft, CloseMessage, Forget, WriteMessage, NoReply
  <2>3. QED BY <1>1, <2>1, <2>2, MoveGoes
<1>4. ASSUME NEW t \in Tasks, CheckSave(t) \/ WalkSave(t) \/ MakeSave(t) \/ NameDownload(t) \/ MakeDownload(t)
      PROVE  Goes(t)
  BY <1>1, <1>4, CheckSaveGoes, WalkSaveGoes, MakeSaveGoes, NameDownloadGoes, MakeDownloadGoes
<1>5. ASSUME NEW t \in Tasks, Fetch(t) \/ UnknownBucket(t) \/ FetchFails(t) \/ Work(t) \/ Upload(t)
      PROVE  Goes(t)
  BY <1>1, <1>5, FetchGoes, DownloadErrorGoes, WorkGoes, UploadGoes DEF UnknownBucket, FetchFails
<1>6. ASSUME NEW t \in Tasks, DeleteDownload(t) \/ ListSave(t) \/ RemoveSave(t) PROVE Goes(t)
  BY <1>1, <1>6, DeleteDownloadGoes, ListSaveGoes, RemoveSaveGoes
<1>7. ASSUME NEW t \in Tasks, NEW f \in Content, DeleteEntry(t, f) PROVE Goes(t)
  BY <1>1, <1>7, DeleteEntryGoes
<1>8. ASSUME UNCHANGED <<dirs, files, tpc, call, restarts, place, bare, hit, users>> PROVE UseInv'
  <2>1. UsersPast' /\ BasesThere'
    BY <1>1, <1>8 DEF UsersPast, BasesThere, Base
  <2>2. TrashHasCause'
    BY <1>1, <1>8 DEF TrashHasCause, Shared, Running
  <2>3. ASSUME NEW t \in Tasks PROVE Claims(t)'
    <3>1. Own(t)' = Own(t) /\ \A d : Record(t, d)' = Record(t, d)
      BY <1>8 DEF Own, Record
    <3>2. /\ \A d : Other(t, d)' = Other(t, d)
          /\ \A b : OtherBase(t, b)' = OtherBase(t, b) /\ Base(b)' = Base(b)
      BY <1>8, <3>1 DEF Other, OtherBase, Base
    <3>3. CallRecorded(t) /\ MadeByOther(t) /\ GoneByOther(t) /\ LeftByOther(t) /\ Excused(t)
      BY <1>1 DEF Claims
    <3>4. CallRecorded(t)'
      BY <1>8, <3>1, <3>3 DEF CallRecorded
    <3>5. MadeByOther(t)' /\ GoneByOther(t)'
      BY <1>8, <3>2, <3>3 DEF MadeByOther, GoneByOther
    <3>6. LeftByOther(t)' /\ Excused(t)'
      BY <1>8, <3>2, <3>3 DEF LeftByOther, Excused
    <3>7. QED BY <3>4, <3>5, <3>6 DEF Claims
  <2>4. QED BY <2>1, <2>2, <2>3 DEF UseInv
<1>9. CASE Tick \/ UNCHANGED diskvars
  BY <1>8, <1>9 DEF Tick
<1>10. QED
  BY <1>2, <1>3, <1>4, <1>5, <1>6, <1>7, <1>9, ReplyStep, KillStep, RestartStep DEF DiskNext, DiskStep

THEOREM UseInvariance == DiskSpec => [](DirInv /\ UseInv)
<1>1. DiskInit => DirInv /\ UseInv
  BY DirInitial, UseInitial
<1>2. FileInv /\ DirInv /\ UseInv /\ [DiskNext]_diskvars => (DirInv /\ UseInv)'
  BY DirStep, UseStep
<1>3. QED BY <1>1, <1>2, FileInvariance, PTL DEF DiskSpec

(***************************************************************************)
(* A task fails of its own download only, unless another user had the name *)
(* of its directory, or made the common ones at the same time.             *)
(***************************************************************************)
THEOREM FailuresAreOwn == DiskSpec => []FailureIsOwn
<1>1. DirInv /\ UseInv => FailureIsOwn
  <2> SUFFICES ASSUME DirInv, UseInv, NEW t \in Tasks, call[t].status # "success"
               PROVE  \/ t \in hit  \/ Shared(call[t].save)  \/ Shared(call[t].down)
                      \/ bare /\ call[t].status = "create" /\ Used("new_save") > 1
                      \/ bare /\ call[t].status = "download" /\ Used("download") > 1
      BY DEF FailureIsOwn
  <2>1. /\ call[t].save # NoDir => call[t].save.base = "new_save" /\ Record(t, call[t].save) \in users
        /\ call[t].down # NoDir => call[t].down.base = "download" /\ Record(t, call[t].down) \in users
    BY CallFacts DEF UseInv, Claims, CallRecorded
  <2>2. IsFiniteSet(users) /\ Excused(t)
    BY DEF UseInv, UsersPast, Claims
  <2>3. call[t].save # NoDir =>
          /\ Other(t, call[t].save) => Shared(call[t].save)
          /\ OtherBase(t, "new_save") => Used("new_save") > 1
    BY <2>1, <2>2, UsersCounted
  <2>4. call[t].down # NoDir =>
          /\ Other(t, call[t].down) => Shared(call[t].down)
          /\ OtherBase(t, "download") => Used("download") > 1
    BY <2>1, <2>2, UsersCounted
  <2>5. QED BY <2>2, <2>3, <2>4 DEF Excused
<1>2. QED BY <1>1, UseInvariance, PTL

(***************************************************************************)
(* A directory that is left behind belongs to a task that still works, was *)
(* killed or could not download, or its name had several users.            *)
(***************************************************************************)
THEOREM TrashIsExplained == DiskSpec => []TrashHasCause
<1>1. UseInv => TrashHasCause
  BY DEF UseInv
<1>2. QED BY <1>1, UseInvariance, PTL
-----------------------------------------------------------------------------
(***************************************************************************)
(* The files of the log.                                                   *)
(***************************************************************************)
HIDE DiskAssumption DEF diskvars, taskVars, deathVars
USE LogAssumption DEF logVars, threadVars, Days

(***************************************************************************)
(* What LineKept and RecentKept rest on: clear_files is at a day outside   *)
(* the period, even if midnight came since it began; the open stream of a  *)
(* process is the file of its last rotation, and not deleted within the    *)
(* period; a thread that has rotated has the day of its line; a process    *)
(* that does not run has no thread in the log.                             *)
(***************************************************************************)
LogShape ==
  /\ \A t \in Threads : at[t] = "clear" => cursor[t] < day - Reserve
  /\ \A t \in Threads : at[t] = "append" => old_suffix_[Owner[t]] = stamp[t]
  /\ \A p \in Procs : file_[p] # None =>
       /\ file_[p].day = old_suffix_[p]
       /\ file_[p].day >= day - Reserve => file_[p].linked
  /\ \A t \in Threads : Owner[t] \notin running => at[t] = "out"

LogInv == TypeOK /\ LogShape /\ LineKept

LEMMA LogInitial == Init => LogInv
<1> SUFFICES ASSUME Init PROVE LogInv
    OBVIOUS
<1> USE DEF Init
<1>1. TypeOK
  BY DEF TypeOK
<1>2. LogShape /\ LineKept
  BY DEF LogShape, LineKept
<1>3. QED BY <1>1, <1>2 DEF LogInv

(***************************************************************************)
(* A deleted line keeps its day and file, an unlinked file its day.        *)
(***************************************************************************)
LEMMA DeletedLine ==
  ASSUME NEW l \in Line
  PROVE  /\ [l EXCEPT !.there = FALSE] \in Line
         /\ [l EXCEPT !.there = FALSE].day = l.day
         /\ [l EXCEPT !.there = FALSE].file = l.file
  BY DEF Line

LEMMA UnlinkedFile ==
  ASSUME NEW f \in File
  PROVE  /\ [f EXCEPT !.linked = FALSE] \in File
         /\ [f EXCEPT !.linked = FALSE].day = f.day
  BY DEF File

LEMMA UnlinkType ==
  ASSUME TypeOK, NEW d, Unlink(d)
  PROVE  lines' \subseteq Line /\ file_' \in [Procs -> File \cup {None}]
<1>1. lines \subseteq Line /\ file_ \in [Procs -> File \cup {None}]
  BY DEF TypeOK
<1>2. lines' \subseteq Line
  BY <1>1, DeletedLine DEF Unlink
<1>3. \A p \in Procs : file_[p] # None => [file_[p] EXCEPT !.linked = FALSE] \in File
  BY <1>1, UnlinkedFile
<1>4. file_' \in [Procs -> File \cup {None}]
  BY <1>1, <1>3 DEF Unlink
<1>5. QED BY <1>2, <1>4

(***************************************************************************)
(* The types are kept: the mutex makes at most one thread of a process the *)
(* holder, and a fork happens only where no thread of the new process is.  *)
(***************************************************************************)
LEMMA LogTypeStep == TypeOK /\ LogShape /\ [Next]_vars => TypeOK'
<1> SUFFICES ASSUME TypeOK, LogShape, [Next]_vars PROVE TypeOK'
    OBVIOUS
<1>1. ASSUME NEW t \in Threads, PrintV(t) PROVE TypeOK'
  BY <1>1 DEF PrintV, TypeOK
<1>2. ASSUME NEW t \in Threads, Lock(t) PROVE TypeOK'
  BY <1>2 DEF Lock, TypeOK
<1>3. ASSUME NEW t \in Threads, Rotate(t) PROVE TypeOK'
  BY <1>3 DEF Rotate, FirstDeleted, TypeOK
<1>4. ASSUME NEW t \in Threads, ClearOne(t) PROVE TypeOK'
  <2>1. disk' \subseteq Days
    BY <1>4 DEF ClearOne, Unlink, TypeOK
  <2>2. lines' \subseteq Line /\ file_' \in [Procs -> File \cup {None}]
    BY <1>4, UnlinkType DEF ClearOne, TypeOK
  <2>3. QED BY <1>4, <2>1, <2>2 DEF ClearOne, TypeOK
<1>5. ASSUME NEW t \in Threads, NEW ok \in BOOLEAN, Open(t, ok) PROVE TypeOK'
  <2>1. [day |-> stamp[t], linked |-> TRUE] \in File
    BY DEF File, TypeOK
  <2>2. disk' \subseteq Days
    <3>1. stamp[t] \in Days /\ disk \subseteq Days
      BY DEF TypeOK
    <3>2. QED BY <1>5, <3>1 DEF Open
  <2>3. old_suffix_' \in [Procs -> Days \cup {None}]
    BY <1>5 DEF Open, TypeOK
  <2>4. file_' \in [Procs -> File \cup {None}]
    BY <1>5, <2>1 DEF Open, TypeOK
  <2>5. QED BY <1>5, <2>2, <2>3, <2>4 DEF Open, TypeOK
<1>6. ASSUME NEW t \in Threads, AppendLine(t) PROVE TypeOK'
  <2>1. lines' \subseteq Line
    BY <1>6 DEF AppendLine, TypeOK, Line, File
  <2>2. QED BY <1>6, <2>1 DEF AppendLine, Ready, Leave, TypeOK
<1>7. ASSUME NEW t \in Threads, AppendFails(t) PROVE TypeOK'
  BY <1>7 DEF AppendFails, Ready, Leave, TypeOK
<1>8. ASSUME NEW p \in Procs, Die(p) PROVE TypeOK'
  BY <1>8 DEF Die, TypeOK
<1>9. ASSUME NEW p \in Procs, Fork(p) PROVE TypeOK'
  BY <1>9 DEF Fork, TypeOK, LogShape
<1>10. ASSUME Midnight PROVE TypeOK'
  BY <1>10 DEF Midnight, TypeOK
<1>11. CASE UNCHANGED vars
  BY <1>11 DEF vars, TypeOK
<1>12. QED
  BY <1>1, <1>2, <1>3, <1>4, <1>5, <1>6, <1>7, <1>8, <1>9, <1>10, <1>11 DEF Next, ThreadStep

(***************************************************************************)
(* The mutex is held by at most one thread of a process.                   *)
(***************************************************************************)
LEMMA OneHolder ==
  ASSUME TypeOK, NEW t \in Threads, NEW u \in Threads, Owner[t] = Owner[u],
         at[t] \notin {"out", "stamped"}, at[u] \notin {"out", "stamped"}
  PROVE  t = u
  BY DEF TypeOK

LEMMA LogShapeStep == TypeOK /\ LogShape /\ [Next]_vars => LogShape'
<1> SUFFICES ASSUME TypeOK, LogShape, [Next]_vars PROVE LogShape'
    OBVIOUS
<1>1. ASSUME NEW t \in Threads, PrintV(t) PROVE LogShape'
  BY <1>1 DEF PrintV, TypeOK, LogShape
<1>2. ASSUME NEW t \in Threads, Lock(t) PROVE LogShape'
  BY <1>2 DEF Lock, TypeOK, LogShape
<1>3. ASSUME NEW t \in Threads, Rotate(t) PROVE LogShape'
  BY <1>3 DEF Rotate, FirstDeleted, TypeOK, LogShape
<1>4. ASSUME NEW t \in Threads, ClearOne(t) PROVE LogShape'
  <2>1. \A u \in Threads : at'[u] = "clear" => cursor'[u] < day' - Reserve
    BY <1>4 DEF ClearOne, TypeOK, LogShape
  <2>2. ASSUME NEW p \in Procs, file_'[p] # None
        PROVE  /\ file_'[p].day = old_suffix_'[p]
               /\ file_'[p].day >= day' - Reserve => file_'[p].linked
    <3>1. CASE file_' = file_
      BY <1>4, <2>2, <3>1 DEF ClearOne, LogShape
    <3>2. CASE Unlink(cursor[t])
      <4>1. file_[p] \in File /\ file_[p] # None /\ cursor[t] < day - Reserve /\ day' = day
        BY <1>4, <2>2, <3>2 DEF ClearOne, Unlink, LogShape, TypeOK
      <4>2. CASE file_[p].day = cursor[t]
        <5>1. file_'[p].day = cursor[t]
          BY <3>2, <4>1, <4>2, UnlinkedFile DEF Unlink
        <5>2. QED BY <1>4, <4>1, <4>2, <5>1 DEF ClearOne, LogShape, TypeOK
      <4>3. CASE file_[p].day # cursor[t]
        BY <1>4, <3>2, <4>1, <4>3 DEF ClearOne, Unlink, LogShape
      <4>4. QED BY <4>2, <4>3
    <3>3. QED BY <1>4, <3>1, <3>2 DEF ClearOne
  <2>3. QED BY <1>4, <2>1, <2>2 DEF ClearOne, LogShape, TypeOK
<1>5. ASSUME NEW t \in Threads, NEW ok \in BOOLEAN, Open(t, ok) PROVE LogShape'
  <2>1. \A u \in Threads : at'[u] = "append" => old_suffix_'[Owner[u]] = stamp'[u]
    BY <1>5, OneHolder DEF Open, TypeOK, LogShape
  <2>2. \A p \in Procs : file_'[p] # None =>
          /\ file_'[p].day = old_suffix_'[p]
          /\ file_'[p].day >= day' - Reserve => file_'[p].linked
    BY <1>5 DEF Open, TypeOK, LogShape
  <2>3. QED BY <1>5, <2>1, <2>2 DEF Open, TypeOK, LogShape
<1>6. ASSUME NEW t \in Threads, AppendLine(t) PROVE LogShape'
  BY <1>6 DEF AppendLine, Leave, TypeOK, LogShape
<1>7. ASSUME NEW t \in Threads, AppendFails(t) PROVE LogShape'
  BY <1>7 DEF AppendFails, Leave, TypeOK, LogShape
<1>8. ASSUME NEW p \in Procs, Die(p) PROVE LogShape'
  BY <1>8 DEF Die, TypeOK, LogShape
<1>9. ASSUME NEW p \in Procs, Fork(p) PROVE LogShape'
  BY <1>9 DEF Fork, TypeOK, LogShape
<1>10. ASSUME Midnight PROVE LogShape'
  BY <1>10 DEF Midnight, TypeOK, LogShape, File
<1>11. CASE UNCHANGED vars
  BY <1>11 DEF vars, LogShape
<1>12. QED
  BY <1>1, <1>2, <1>3, <1>4, <1>5, <1>6, <1>7, <1>8, <1>9, <1>10, <1>11 DEF Next, ThreadStep

(***************************************************************************)
(* A line within the period goes to the file of its day and stays there.   *)
(***************************************************************************)
LEMMA LineStep == TypeOK /\ LogShape /\ LineKept /\ [Next]_vars => LineKept'
<1> SUFFICES ASSUME TypeOK, LogShape, LineKept, [Next]_vars PROVE LineKept'
    OBVIOUS
<1>1. CASE lines' = lines /\ day' = day
  BY <1>1 DEF LineKept
<1>2. ASSUME NEW t \in Threads, ClearOne(t), lines' # lines PROVE LineKept'
  <2>1. Unlink(cursor[t]) /\ cursor[t] < day - Reserve /\ day' = day
    BY <1>2 DEF ClearOne, LogShape
  <2>2. SUFFICES ASSUME NEW k \in lines', k.day >= day - Reserve
                 PROVE  k.file = k.day /\ k.there
    BY <2>1 DEF LineKept
  <2>3. PICK l \in lines : k = IF l.file = cursor[t] THEN [l EXCEPT !.there = FALSE] ELSE l
    BY <2>1 DEF Unlink
  <2>4. l \in Line /\ k.day = l.day
    BY <2>3, DeletedLine DEF TypeOK
  <2>5. l.file = l.day /\ l.there
    BY <2>2, <2>4 DEF LineKept
  <2>6. l.file # cursor[t]
    BY <2>1, <2>2, <2>4, <2>5 DEF Line, TypeOK
  <2>7. QED BY <2>3, <2>5, <2>6
<1>3. ASSUME NEW t \in Threads, AppendLine(t) PROVE LineKept'
  <2>1. old_suffix_[Owner[t]] = stamp[t] /\ day' = day
    BY <1>3 DEF AppendLine, Ready, NewDay, LogShape
  <2>2. file_[Owner[t]] # None =>
          /\ file_[Owner[t]].day = stamp[t]
          /\ stamp[t] >= day - Reserve => file_[Owner[t]].linked
    BY <2>1 DEF LogShape
  <2>3. QED BY <1>3, <2>1, <2>2 DEF AppendLine, LineKept
<1>4. ASSUME Midnight PROVE LineKept'
  BY <1>4 DEF Midnight, LineKept, TypeOK, Line
<1>5. QED
  BY <1>1, <1>2, <1>3, <1>4 DEF Next, ThreadStep, vars, PrintV, Lock, Rotate, ClearOne, Open, AppendFails, Die, Fork

(***************************************************************************)
(* Every reachable state satisfies LogInv.                                 *)
(***************************************************************************)
THEOREM LogInvariance == Spec => []LogInv
<1>1. LogInv /\ [Next]_vars => LogInv'
  BY LogTypeStep, LogShapeStep, LineStep DEF LogInv
<1>2. QED BY <1>1, LogInitial, PTL DEF Spec

(***************************************************************************)
(* Every state of the log is of its type.                                  *)
(***************************************************************************)
THEOREM LogTypeCorrect == Spec => []TypeOK
<1>1. LogInv => TypeOK
  BY DEF LogInv
<1>2. QED BY <1>1, LogInvariance, PTL

(***************************************************************************)
(* No line of the period to keep is lost, or in the file of another day,   *)
(* whatever processes and threads write, rotate, delete, die and fork.     *)
(***************************************************************************)
THEOREM LinesAreKept == Spec => []LineKept
<1>1. LogInv => LineKept
  BY DEF LogInv
<1>2. QED BY <1>1, LogInvariance, PTL

(***************************************************************************)
(* Only files outside the period to keep are deleted.                      *)
(***************************************************************************)
THEOREM RecentFilesAreKept == Spec => RecentKept
<1>1. LogInv /\ [Next]_vars => [\A d \in disk \ disk' : d < day - Reserve]_vars
  <2> SUFFICES ASSUME LogInv, [Next]_vars, NEW d \in disk \ disk' PROVE d < day - Reserve
      OBVIOUS
  <2>1. PICK t \in Threads : ClearOne(t)
    BY DEF Next, ThreadStep, vars, PrintV, Lock, Rotate, Open, AppendLine, AppendFails, Die, Fork, Midnight
  <2>2. d = cursor[t] /\ at[t] = "clear"
    BY <2>1 DEF ClearOne, Unlink
  <2>3. QED BY <2>2 DEF LogInv, LogShape
<1>2. QED BY <1>1, LogInvariance, PTL DEF Spec, RecentKept

(***************************************************************************)
(* What OldIsBehindGap rests on: lines are at most a day old, so that no   *)
(* file outside the period is made when at least one day is kept; and of a *)
(* thread with a line of today, what clear_files has passed is gone.       *)
(***************************************************************************)
Gap == \A d \in disk : d < day - Reserve => \E e \in (d + 1)..(day - Reserve - 1) : e \notin disk

AgeShape ==
  /\ \A t \in Threads : at[t] # "out" => stamp[t] <= day
  /\ \A t \in Threads : at[t] # "out" /\ lock_[Owner[t]] # "copied" => stamp[t] >= day - 1
  /\ \A p \in Procs : old_suffix_[p] # None => old_suffix_[p] <= day
  /\ \A t \in Threads : at[t] = "clear" /\ stamp[t] = day =>
       \A e \in (cursor[t] + 1)..(day - Reserve - 1) : e \notin disk
  /\ \A t \in Threads : at[t] = "open" /\ stamp[t] = day => Gap
  /\ \A p \in running : old_suffix_[p] = day => Gap

(***************************************************************************)
(* A gap stays when files are deleted, and when one of the period is made. *)
(***************************************************************************)
LEMMA GapStays ==
  ASSUME TypeOK, Gap, day' = day, NEW n \in Int, n >= day - Reserve, disk' \subseteq disk \cup {n}
  PROVE  Gap'
<1> SUFFICES ASSUME NEW d \in disk', d < day - Reserve
             PROVE  \E e \in (d + 1)..(day - Reserve - 1) : e \notin disk'
    BY DEF Gap
<1>1. day \in Nat /\ disk \subseteq Nat
  BY DEF TypeOK
<1>2. d # n
  BY <1>1
<1>3. d \in disk /\ d \in Nat
  BY <1>1, <1>2
<1>4. PICK e \in (d + 1)..(day - Reserve - 1) : e \notin disk
  BY <1>1, <1>3 DEF Gap
<1>5. e # n
  BY <1>1, <1>3, <1>4
<1>6. QED BY <1>4, <1>5

LEMMA AgeStep ==
  ASSUME Reserve >= 1
  PROVE  TypeOK /\ LogShape /\ AgeShape /\ [Next]_vars => AgeShape'
<1> SUFFICES ASSUME TypeOK, LogShape, AgeShape, [Next]_vars PROVE AgeShape'
    OBVIOUS
<1> USE DEF TypeOK, AgeShape
<1>1. ASSUME NEW t \in Threads, PrintV(t) PROVE AgeShape'
  BY <1>1 DEF PrintV, Gap
<1>2. ASSUME NEW t \in Threads, Lock(t) PROVE AgeShape'
  BY <1>2 DEF Lock, Gap
<1>3. ASSUME NEW t \in Threads, Rotate(t) PROVE AgeShape'
  BY <1>3 DEF Rotate, FirstDeleted, Gap
<1>4. ASSUME NEW t \in Threads, ClearOne(t) PROVE AgeShape'
  <2>1. disk' \subseteq disk \cup {day} /\ day' = day /\ UNCHANGED <<lock_, old_suffix_, stamp, running>>
    BY <1>4 DEF ClearOne, Unlink
  <2>2. Gap => Gap'
    <3>1. day \in Int /\ day >= day - Reserve
      OBVIOUS
    <3>2. HAVE Gap
    <3>3. QED BY <2>1, <3>1, <3>2, GapStays
  <2>3. ASSUME NEW u \in Threads, at'[u] = "clear", stamp'[u] = day'
        PROVE  \A e \in (cursor'[u] + 1)..(day' - Reserve - 1) : e \notin disk'
    BY <1>4, <2>3, SMTT(60) DEF ClearOne, Unlink
  <2>4. ASSUME NEW u \in Threads, at'[u] = "open", stamp'[u] = day' PROVE Gap'
    <3>1. CASE at[u] = "open"
      BY <2>1, <2>2, <2>4, <3>1
    <3>2. CASE at[u] # "open"
      <4>1. u = t /\ cursor[t] \notin disk /\ disk' = disk /\ at[t] = "clear"
        BY <1>4, <2>4, <3>2 DEF ClearOne
      <4>2. \A e \in (cursor[t] + 1)..(day - Reserve - 1) : e \notin disk
        BY <2>1, <2>4, <4>1
      <4>3. cursor[t] \in Int /\ cursor[t] < day - Reserve
        BY <4>1 DEF LogShape
      <4>4. QED BY <2>1, <4>1, <4>2, <4>3 DEF Gap
    <3>3. QED BY <3>1, <3>2
  <2>5. \A u \in Threads : at'[u] # "out" <=> at[u] # "out"
    BY <1>4 DEF ClearOne
  <2>6. QED BY <2>1, <2>2, <2>3, <2>4, <2>5
<1>5. ASSUME NEW t \in Threads, NEW ok \in BOOLEAN, Open(t, ok) PROVE AgeShape'
  <2>1. /\ lock_[Owner[t]] = t /\ Owner[t] \in running
        /\ stamp[t] \in Int /\ stamp[t] >= day - 1 /\ stamp[t] <= day
    BY <1>5 DEF Open, LogShape
  <2>2. /\ disk' \subseteq disk \cup {stamp[t]} /\ stamp[t] >= day - Reserve
        /\ UNCHANGED <<day, running, lock_, stamp, cursor>>
    BY <1>5, <2>1 DEF Open
  <2>3. Gap => Gap'
    BY <2>1, <2>2, GapStays
  <2>4. ASSUME NEW u \in Threads, at'[u] = "clear", stamp'[u] = day'
        PROVE  \A e \in (cursor'[u] + 1)..(day' - Reserve - 1) : e \notin disk'
    <3>1. at[u] = "clear"
      BY <1>5, <2>4 DEF Open
    <3>2. QED BY <2>1, <2>2, <2>4, <3>1
  <2>5. ASSUME NEW u \in Threads, at'[u] = "open", stamp'[u] = day' PROVE Gap'
    BY <1>5, <2>2, <2>3, <2>5 DEF Open
  <2>6. ASSUME NEW p \in running', old_suffix_'[p] = day' PROVE Gap'
    BY <1>5, <2>2, <2>3, <2>6 DEF Open
  <2>7. \A p \in Procs : old_suffix_'[p] # None => old_suffix_'[p] <= day'
    BY <1>5, <2>1, <2>2 DEF Open
  <2>8. \A u \in Threads : at'[u] # "out" <=> at[u] # "out"
    BY <1>5 DEF Open
  <2>9. QED BY <2>2, <2>4, <2>5, <2>6, <2>7, <2>8
<1>6. ASSUME NEW t \in Threads, AppendLine(t) PROVE AgeShape'
  BY <1>6 DEF AppendLine, Leave, Ready, Gap
<1>7. ASSUME NEW t \in Threads, AppendFails(t) PROVE AgeShape'
  BY <1>7 DEF AppendFails, Leave, Ready, Gap
<1>8. ASSUME NEW p \in Procs, Die(p) PROVE AgeShape'
  BY <1>8 DEF Die, Gap
<1>9. ASSUME NEW p \in Procs, Fork(p) PROVE AgeShape'
  BY <1>9 DEF Fork, LogShape, Gap
<1>10. ASSUME Midnight PROVE AgeShape'
  BY <1>10 DEF Midnight
<1>11. CASE UNCHANGED vars
  BY <1>11 DEF vars, Gap
<1>12. QED
  BY <1>1, <1>2, <1>3, <1>4, <1>5, <1>6, <1>7, <1>8, <1>9, <1>10, <1>11 DEF Next, ThreadStep

(***************************************************************************)
(* When at least a day is kept, a file older than the period is left only  *)
(* behind a day without a file, once some process has today's file.        *)
(***************************************************************************)
THEOREM OldFilesAreBehindGap ==
  ASSUME Reserve >= 1
  PROVE  Spec => []OldIsBehindGap
<1>1. Init => AgeShape
  BY DEF Init, AgeShape, Gap
<1>2. LogInv /\ AgeShape /\ [Next]_vars => AgeShape'
  BY AgeStep DEF LogInv
<1>3. AgeShape => OldIsBehindGap
  BY DEF AgeShape, Gap, OldIsBehindGap
<1>4. QED BY <1>1, <1>2, <1>3, LogInvariance, PTL DEF Spec
=============================================================================
