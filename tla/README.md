# Verification of the algorithm server

The algorithm server takes mesh-processing tasks from an MQTT broker, gives each to one
process of a pool, which downloads the files, runs a *flow* of algorithms on them, uploads
what the flow saved and returns a JSON reply, which the parent publishes. This directory
holds TLA+ models of its concurrent and failure-prone parts, the TLC instances that check
them, and proofs about the pool, the worker, the threads, the log, the way of a request
into the parent, the transfers, the HTTP client, the disk, and the functions on checksums,
parts and strings. Line numbers are those of the files under `src/`.

## 1. The system

```
 broker ──> MQTT thread ──sig_mqfd──> parent (run_parent) ──pipe──> worker (run_child)
   ^             ^                       │ epoll, signalfd             │ process()
   │             └──── loop() ───────────┤                             │
   └──────────── publish_to_mq ──────────┘ <─────────pipe───────────── │
                                                                       ├ 2 threads: branches of a flow
                                                                       ├ 4 threads: uploads ─> OSS client ─> HTTP
   all processes: message files, task directories, one daily log file  └ download      ─> OSS client ─> HTTP
```

| component | state | operations | interacts by |
|---|---|---|---|
| **process pool** `common/process_pool.h` | slots (pid, busy, record), pending signals, epoll marks | dispatch, refuse, publish, reap, replace, stop; the worker's loop | socket pairs, signals, fork |
| **MQTT client and ScheHandler** `business/task_handle.cpp` 21-52, 337-404 | the broker connection, the callback mutex, the socket `sig_mqfd` | init, on_connect, on_message → send_msg, publish_to_mq → loop | the library's thread and the parent |
| **TaskHandler and AlgorithmFunctions** `task_handle.cpp`, `algorithm_functions.cpp` | the task result, counters shared with branches and uploads | process, dispatch_task, upload_files | posts to TaskThread |
| **files and directories of tasks** `task_handle.cpp`, `file_system.cpp`, `process_pool.h` 587-618 | message files, save paths, download directories | store and load a request, create_directories, delete_directories | shared by workers and by runs of the service |
| **settings** `mqtt_message.h`, `config.cpp`, `config_detail.h` | – (pure) | de_serialize: message over configuration | read by every step |
| **TaskThread** `externals/ustd` | task queue, timer set, mutex and condition | post_task, set_timer, kill_timer, end | callers' and its own threads |
| **log** `externals/ustd/source/ustd/log.cpp` | open file, day, mutex per process; files shared | print, rotate, delete old | every thread of every process; copied by fork |
| **OSS transfers** `oss_handler.cpp`, `Resumable{Uploader,Downloader}.cc` | record on disk, part lists, threads; uploads and objects on the server | upload, download, retry, resume | 1-3 threads per transfer; the HTTP client |
| **HTTP client** `client/Client.cc`, `http/CurlHttpClient.cc` | pool of curl handles, retries | AttemptRequest, makeRequest, growPool, destroy | every thread of a transfer |
| **paths, strings** `path_string.cpp`, `string.cpp`, `Crc64.cc` | – (pure) | compose, split, replace, dump; checksums | read by the above |
| message formats, program start, JSON files, older pools, trial programs, rest of third-party | see `PROJECT.json` | | not modelled, see section 7 |

What is hard here: edge-triggered epoll with *one* read per event in parent and workers;
signals that merge; crashes at any point, and a slot reused after one; counters and results
shared by threads and by one task and the next; uploads that outlive the call that waits for
them; notifications that may be lost; a mutex and a stream copied by fork; a restart that
finds tasks on disk; two threads that write into one blocking socket; directories whose
names two tasks may share; requests that are repeated although they were executed; records
of parts that outlive the object they were made for. `PROJECT.json` lists each hazard at its
line and the properties that watch it. What makes each component correct:

- pool: a slot has at most one task and its record names it; no handler reads an empty
  descriptor; a dead worker is replaced, its task answered; shutdown ends every worker;
- link: a request arrives whole, once, and is read; the parent never waits for itself;
- worker: the reply is complete, honest about failure, sent after the uploads, and a task is
  lost by a death in two gaps only; tasks do not see each other's results;
- disk: a task's failure is its own, a request survives a crash but in those gaps, nothing is
  left behind;
- TaskThread: first in first out, no lost wake-up, timers fire, end() joins;
- log: a line is in the file of its day as long as that file must be kept;
- transfers: success means that the object and the file are the same, failure that something
  failed; a retry resumes; what is recorded is true;
- HTTP client: one owner per handle, none lost, no lost wake-up, a bound on executions.

## 2. Modules

| module | what it is | code |
|---|---|---|
| `TaskService` | abstract: what a broker may see of a task | docs/protocol.md, process_pool.h |
| `ProcessPool` | the parent, the workers, their pipes and signals | common/process_pool.h |
| `PoolProperties`, `MCProcessPool`, `PoolProofs` | its properties, instances, proofs | |
| `MqttLink`, `LinkProperties`, `LinkProofs` | broker, library thread, callback mutex, socket, the parent's reads and loop() | task_handle.cpp, process_pool.h 555-701 |
| `WorkQueue` | abstract: a bounded first-in-first-out pool of threads | |
| `TaskThread`, `ThreadProperties`, `ThreadProofs` | threads, queue, timers, notification | thread_queue.h, task_queue.h, timer_queue.{h,cpp}, task_thread.cpp |
| `Settings` | operators: a setting from message, configuration and memory | mqtt_message.h, config.cpp |
| `WorkerTask`, `WorkerProperties`, `MCWorkerTask`, `WorkerProofs` | one worker's tasks | task_handle.cpp, algorithm_functions.cpp, oss_handler.cpp |
| `SharedDisk`, `DiskProperties`, `FileProofs` | message files and directories of several workers | task_handle.cpp, file_system.cpp |
| `DailyLog`, `LogProperties`, `FileProofs` | the shared log files | log.cpp |
| `Strings`, `TextProperties`, `DataProofs` | operators: path and string functions, the hexadecimal dump; what they keep | path_string.cpp, string.cpp |
| `MCSharedFiles` | composes `DailyLog`, `SharedDisk` and `Strings` for TLC | |
| `RemoteCall` | abstract: a call that is executed at most so often, and before it succeeds | |
| `HttpClient`, `HttpProperties`, `HttpProofs` | retries and the pool of handles | Client.cc, CurlHttpClient.cc |
| `OssUpload`, `OssDownload`, `OssProperties`, `OssProofs` | the two transfers with their retries, threads and records | oss_handler.cpp, Resumable*.cc, OssClientImpl.cc |
| `Checksum`, `PartPlan`, `ObjectProperties`, `DataProofs` | operators: CRC-64 by tables and combined; the cutting into parts; how they fit together | Crc64.cc, Resumable*.cc |
| `MCNetwork` | composes `MqttLink`, the transfers, `HttpClient` and the operators for TLC | |

How they fit: `ProcessPool` sees a request in `sig_mqfd` as one element; `MqttLink` opens it
into a length and a body and adds the two threads that write it. `ProcessPool` sees a task as
a token that a worker holds between `ChildRead` and `ChildFinish`; `WorkerTask` opens that
interval, and `SharedDisk` opens it once more for several workers, keeping of each only what
it does to the disk. `WorkerTask` takes an upload for one outcome; `OssUpload` opens it into
attempts, parts and records, whose requests end in one of the ways of `RemoteCall`;
`HttpClient` implements that (`ImplementsCall`). `WorkerTask` takes for granted that its
thread pools start what is posted; `TaskThread` shows that they do (`PostedIsRun`,
`ImplementsQueue`).

`MCNetwork` and `MCSharedFiles` are sums, not products: a variable `part` (`topic`) chosen at
the start says which component moves, the others stay in one initial state. Those components
share no variable (they meet through the abstractions above), so their product would multiply
states without adding a behaviour.

### How state and actions correspond to the code

**ProcessPool.** `pid`, `busy`, `record` are `m_pid # -1`, `m_state.busy` and
`m_task_record`. `down` and `up` are the two directions of a slot's socket pair; a length
and its body are one element, except where a crash separates them (`"half"`). `ready` holds
the descriptors marked since the last `epoll_wait`, `batch` the events of the last one: an
event is one action (`Take`) with one read, in any order, as epoll gives no order.
A signal already pending sets no new mark (`SignalMark`), and the handler reads the lowest
one (`Lowest`). A read that finds nothing leaves `readMsg`'s length unset, so `Garbage`
says what it may hold: zero or too large (dropped), or small (`readn` loops: `spin`).
`ReapChildren` is the whole SIGCHLD handler: waitpid until nothing is left, a pipe closed,
a worker forked or the slot given up, the report published, `m_stop` when no slot is left.

**MqttLink.** `at[r]` and `msg[r]` are where each reader of the connection is in
`on_message`: the library's thread, and the parent inside the `loop()` that `publish_to_mq`
calls. `send_msg` is two actions, each of which needs room in `sock`. `mark` and `event` are
`sig_mqfd[0]` in epoll, before and in the batch; `ReadLength` and `ReadBody` are the one
`readMsg` of an event. `merged` counts requests that began to arrive while the mark was set.

**TaskThread.** All state is reached under one mutex, so what lies between two unlocks is
one action; a caller's notify comes after its unlock and is an action of its own. `deadline`
is what `wait_for` was given; spurious wake-ups may happen at any time.

**WorkerTask.** `main` is the thread of `process()`, `at[b]` the step of branch `b`,
`flying` the uploads on the four threads. `m_thread_count`, which no constructor sets,
starts with any value of `StartCounts`; `m_save_results`, `m_cr`, `m_final_cr` and
`m_err_msg` live as long as the worker, as in the code. `b_upload` is a local that uploads
refer to even after `upload_files` has returned: they may then write the local of the next
call (the stack slot is the same) or nothing that matters. `left` is what the memory of a
field holds that `de_serialize` never writes. A task comes out of the pipe (`Take`), its message
file is opened, which truncates it (`OpenMessage`), and is whole when it is closed
(`CloseMessage`); at the end the file is deleted with the directories (`CleanUp`), and only when
`process()` has returned does `run_child` send the result (`Reply`). A death may fall between any
two of these. `Die(TRUE)` is a restart of the service, which hands over what is on disk once
more; it is left out while a message is torn, because the parent then does not start
(`SharedDisk` has that). `lost` remembers the tasks whose worker died in a gap.

**SharedDisk.** A directory is a base and the second in its name, which `CheckSave` and
`NameDownload` each read from the clock anew. `create_directories` is a walk that lists what
is missing and one action per directory made, `delete_directories` a listing, one action per
entry and one for the directory, so that two workers interleave in between. `message[t]` is
torn between the opening of its file and its closing; `Restart` reads what is left, a request
after the other, and stops at the first one that finds no worker free: that one has been parsed,
and if it is torn it ends the parent like those before it.

**DailyLog.** `stamp[t]` is the time a line took before the mutex, `old_suffix_` the day of
the process's last rotation, `file_` its stream, whose file others may unlink. `Fork` copies
mutex and stream from the parent, `"copied"` being a mutex locked by a thread the child does
not have.

**OssUpload, OssDownload.** `uleft` and `dleft` are the `retries` of `OssHandle`. One action
per request to the server; what the threads of a transfer do between two locks of `lock_` is
one action. `urecord` and `drecord` are the record files, `uknown` and `dknown` are
`hasRecord_`, with the values the code leaves in memory when a record does not fit. A record file
that cannot be opened for reading is taken for none (`OverlookRecord`, `LoadParts(FALSE, w)`), and
one that cannot be opened for writing stays as it is while the transfer goes on (`"none"` in
`Prepare`, `LoadParts` and `GetRange`); a full disk cuts it short (`"cut"`). A part's
content is the version of the file or the object it came from, so that a file made of two
versions is seen. `dfirst` is the version of `outcomes[0]`, whose checksum the client compares
with. Ghost variables (`umixed`, `uunheard`, `uwaste`, `dshrunk`, `dunnamed`, `dstale`) remember what
excuses a property; no guard reads them.

**Checksum, PartPlan, Strings.** A word is the set of its bits that are 1, a byte a word of
eight bits, a string a sequence of characters. A loop of the code is the function of what there
is after each number of its rounds (`ZeroBits`, `ByBytes`, `ByEights`, `ReplaceLoop`,
`DisplayLoop`), or of what it makes from each of its states on (`AddZeros`, `PartSize`,
`DownloadPlan`, `SplitFrom`). `ObjectProperties` and `TextProperties` have one variable, the
sample that is looked at, and one step that picks it.

**HttpClient.** `hfree` is `m_resources`, `hsize` `poolSize_`, `hgrower` the holder of
`containerLock_`: `growPool` takes several actions under it while others go on with the queue.

## 3. What the runs check

| run | expect | shows | instance |
|---|---|---|---|
| `pool_faults` | pass | safety of the pool, and that it implements `TaskService` | 2 slots, 2 tasks, 2 faults anywhere (also in a send), SIGTERM, empty replies, any garbage but a large one |
| `pool_life` | pass | dead workers are reaped, tasks answered or reported, overflow is honest without crashes, termination stops | 2 slots, 3 tasks (one from disk), 2 crashes in tasks, INT and TERM |
| `task_thread` | pass | no lost wake-up; FIFO; timers; end() | 2 threads, 2 callers, 2 tasks, 2 timers, 2 ticks |
| `worker_tasks` | pass | replies complete and honest; a task is on disk until its reply but in two gaps | 2 tasks (an archive of 2 files; 2 branches), 2 crashes or restarts |
| `shared_files` | pass | the log; two tasks on one disk; path and string functions | log: 3 threads, 2 processes, 3 days, 1 kept; disk: 2 tasks, 2 seconds, bare or not, 2 slots and 1 fault or death, or 1 slot and 2; all strings up to 3 over 3 characters, dumps of 1-48 bytes |
| `network` | pass | requests arrive whole, once, and are read; transfers are true, honest, resumed and end; handles; checksums | link: 4 requests (one over MAX_BUFF), room 3, 1 lost connection; transfers: 2 threads, up to 3 parts, 0, 2 or 3 attempts, 3 failures of an upload, 2 of a download, 1 replacement; HTTP: 2 callers, 2 handles, 1 retry, 2 faults; buffers of 0-19 bytes at 8 addresses, objects of 1-19 bytes in parts of 5, plans of 1-13 bytes |
| `overflow_leak` | violation | a crash leaves its slot busy: refused with an idle worker | 2 slots, 3 tasks, 2 crashes |
| `lost_child` | violation | SIGPIPE is read in the place of SIGCHLD: the dead worker is not replaced | 2 slots, 1 task, 1 idle crash |
| `stale_result` | violation | a task's reply holds the files of an earlier one | 2 tasks |
| `upload_masked` | violation | a failed upload hidden by a later success | 2 tasks |
| `settings_order` | violation | saveStl/pubBucket is not what message or configuration say | 2 tasks |
| `disturbed_task` | violation | a task fails because another has the same method in the same second | 2 tasks, no fault |

The six violations contradict the document each finding quotes; they are the shortest
instances in which TLC shows them.

Several properties are conjunctions of named parts that say one thing of one component:
`TaskIsAnswered`, `RequestsStayWhole`, `LinkProceeds`, `TransfersAgree`,
`TransfersFailHonestly`, `TransfersResume`, `HandlesAreKept`, `CallsEnd`,
`ObjectIsItsParts`, `RequestsSurvive`, `TextIsKept`. Their parts have comments of their own.
Type invariants of proved modules, and `OneTaskPerSlot`, `TimerIsWatched`, `RecentKept` and
`BodyFromStart`, are in no run any more: they are theorems (section 5).

**Why the bounds are enough.** Two slots let one be dead, reused or idle while the other
works, and both be full; a third task is what a full pool refuses. Two faults are a crash
and a crash of the successor, or two deaths that share one SIGCHLD. Two threads and two
callers are what a notify may miss or reach wrongly; a task and a timer each need a thread.
Two branches, two uploads and two tasks are the least that can overtake or inherit from one
another. One day kept and three days of clock give a rotation inside the period, at its edge
and beyond it, with any files of earlier days on disk at the start. A socket of three units
is full in the middle of a second request, from either thread. Two seconds let two tasks
share both directories, one, or none. One slot and two tasks leave, when a worker and then the
service die, more requests on disk than slots. Two parts on two threads can be lost, stored unheard
and resumed in every order; an object that is replaced once may grow, shrink, or stay as
large, between one part and three. A third failure of an upload lets a record be lost, its
completion be unheard, and something still fail afterwards. Two handles and two callers have the pool grow, be empty
and be waited for. Nineteen bytes are two words of eight with unaligned ends on both sides. A dump of 48 bytes
has every kind of gap, and empties the buffer of 40 in the middle of a line.
The safety of pool, worker, threads, log, link, transfers, HTTP client and disk, and what
the functions on data compute, is proved without bounds (section 5).

Every named bound: `MaxFaults` (crashes and failed forks; on the disk also failed downloads
and replies, and one more for each worker fewer than tasks), `MaxTime` (ticks of the steady clock), `LastDay` (the date; a line is also
written before the day after the next begins), `LastSecond` (a service that was restarted
lives for less than a second), `MaxDrops` (lost connections), `ULosses`, `DLosses`, `HFaults`
(requests that fail; for the transfers also records that cannot be opened or are cut short), `URewrites`, `DReplaces` (new contents), `InitFaults`
(failures of `curl_easy_init`); each task and each outside signal at most once.
`StartCounts = {0, 1}` stands for memory that is zero and memory that is not; a garbage near
2^32, which would let the wait end early after a wrap, is left out.

`overflow_leak` and `pool_life` use restricted instances on purpose: with idle crashes,
failed sends or a termination between two requests the code does not keep the liveness
properties, which is what the violation runs and section 6 say. `LifeNext` lets
a signal come only when no request waits and nothing has failed (`Quiet`), and after it no
request, crash or failed fork; `TaskIsAnswered` excuses
a task whose reply a stop or a crash of its slot throws away with the pipe.

## 4. Fairness

- `ProcessPool`: weak fairness of the parent's steps, each worker's steps (a task ends) and
  the kernel's announcement of a death: these are processes the scheduler runs, and nothing
  else in the loop waits. No request, signal or crash is forced.
- `MqttLink`: weak fairness of the parent and of the library's thread. The broker, the
  connection and the workers' replies are not fair. `LinkProceeds` excuses a full socket,
  which is a deadlock of the code (section 6), and a parent that a huge request ended.
- `TaskThread`: weak fairness of each thread and of a caller's pending notify. Nothing
  advances the clock: with a fair clock the wait of an hour would hide a lost notify.
- `WorkerTask`: weak fairness of the main thread and of each branch. Uploads are not fair;
  a hanging one is given up after 500 seconds (`UploadTimeout`, which needs no clock, since
  it may come at any time of the wait).
- `SharedDisk`: weak fairness of each worker. No death, restart or tick is forced.
- Transfers and `HttpClient`: weak fairness of the transfer (each request has an outcome,
  since curl has timeouts) and of each caller. Failures are bounded, not fair.
- `DailyLog`: safety only.

## 5. What is proved

`PoolProofs`, for every number of slots, tasks, faults, any garbage and any signals, from
`PoolAssumption` (slots are finite, names are distinct):

| theorem | states |
|---|---|
| `Invariance`, `TypeCorrect` | `Spec => []PoolInv`, `TypeOK` |
| `MarksAreBacked` | `MarksBacked`: no handler's one read finds its descriptor empty |
| `OneTask`, `RecordIsRight` | `OneTaskPerSlot`, `RecordNamesTheTask` |
| `StopIsClean` | `StopLeavesNoWorker` |
| `AnswersMakeSense` | `AnswersLegal`: an overflow is the only answer, a result comes once and never after a crash report |
| `ServiceIsImplemented` | `ImplementsService`: the refinement to `TaskService` |
| `CrashReportsAreNews` | `CrashReportIsNews`, if no worker dies idle |
| `OverflowsAreHonest` | `OverflowIsHonest`, if every task has a reply |

The inductive invariant is `PoolInv == TypeOK /\ MarksBacked /\ SlotShape /\ StopShape`.
Types alone are not inductive: `Head(mq)` and `Head(down[w])` are in `Tasks` only if those
queues are not empty when their event is handled, which is `MarksBacked`; that a mark of a
worker's pipe has one item behind it holds only since a slot gets no second request before
the first is answered, which is `SlotShape`: a slot is empty, or has a request on its way,
or a task in `process()`, or one item on its way back, the last three only when busy.
`OneTaskPerSlot` and `RecordNamesTheTask` follow from it without another induction.
`StopShape` ties `m_pid` to the worker's state. There is one lemma for each part
(`TypeStep`, `MqStep`, `SigStep`, `PipeStep`, `ChildSigStep`, `SlotStep`, `StopStep`), with
a step per action under it.

The refinement needs two more inductions. `RoutesApart`: a task is outside, on disk, in
`sig_mqfd` or on the record of one slot, and in one of these only. `AnswersFit`: a task has no
answer while it is on its way, and what is on a record was not refused. `StepKinds` reduces
the actions to six kinds, seen from the routes of tasks: one comes, is given to a slot, is
refused, is answered, is lost, or the dead are reaped; `ServiceStep` maps each kind to an
action of `TaskService`. `RoomLeft` bounds what the service holds: a held task is the record
of a slot of its own, so an empty slot leaves room for one more (a surjection from the other
slots onto the held tasks).

The last two theorems need one condition each, less than `pool_life` sets: they hold with any
garbage, any signals and torn replies. `"loop" \notin CrashIn`: a
worker that dies idle is reported as a crash of the task it had answered (section 6).
`DiedInTask` says that a worker that is dead and not reaped died in the task of its record, or
was given that task when it was dead: nobody answered it, and no reply of it is on its way.
`~MaySwallow`: an empty reply leaves its slot busy for ever (section 6). `HonestShape` says
that before the first fault no worker was killed, and a busy living one has a task in its slot.

`LinkProofs`, for any requests, room of the socket and number of lost connections
(`LinkAssumption`):

| theorem | states |
|---|---|
| `LinkInvariance`, `LinkTypeCorrect` | `LinkInv`, `LinkTypeOK` |
| `RequestsArriveWhole` | `RequestsStayWhole`: every length is followed by its own body; only a huge request ends the parent |
| `UnreadRequestsWereMerged` | `UnreadWereMerged`: what stays unread came in the edge of another |
| `RequestsAreOnePlace` | `OnePlace`: a request is in one place of its way, whichever thread takes it |

`LinkInv` is types, `LinkShape` (the thread in a callback holds the mutex; the parent is in
one only within loop(); an event has something to read) and `Framing`, which says `Framed` of
the socket alone: lengths and bodies alternate, and its two ends agree with what the parent
has read and what the thread in the callback has still to send. `FramingIsFramed` leads back
to the whole stream. `UnreadWereMerged` is a second induction on top, over the number of
lengths in the socket (`LengthsIn`); `OnePlace` another, whose lemmas `AppendIn`, `TailIn` and
`SoleIsOne` say how often a request is in a queue that grows or shrinks.

`HttpProofs`, for any callers, pool limit, retries and faults (`HttpAssumption`):

| theorem | states |
|---|---|
| `HttpInvariance`, `HttpTypeCorrect` | `HttpInv`, `HttpTypeOK` |
| `HandlesStayKept` | `HandlesAreKept`: one owner, within the limit, none lost, none unnoticed |
| `BodiesStartAtStart` | `BodyFromStart`, also for a retry |
| `CallIsImplemented` | `ImplementsCall`: the refinement to `RemoteCall` |

`HttpInv == HttpTypeOK /\ HttpShape /\ HandleIsOwned`: a handle number is at most `hmade`, a
growing pool stays within the limit with what is still to be made, and handles of callers
and of the queue are pairwise different. `Counted` (made = free + used) and `Noticed` (no
lost wake-up) are inductions over it with cardinalities: each action moves at most one
handle or one caller. The refinement needs `Tried`: executions are at most attempts.

`FileProofs`, of the disk for any tasks, slots, seconds and faults (`DiskAssumption`):

| theorem | states |
|---|---|
| `DiskTypeCorrect` | `DiskTypeOK`: types, and every file and directory is in a directory that is there |
| `RequestsSurviveDeaths` | `RequestsSurvive`: a request is lost in two gaps only, and only a torn file stops a start |
| `UseInvariance` | `UseInv`: who made, filled or deleted what a task works with |
| `FailuresAreOwn` | `FailureIsOwn`: a task fails of its own fault, or shares a name with another |
| `TrashIsExplained` | `TrashHasCause`: a directory that is left has a task that was killed, failed or shared it |

`FileShape` ties the state of a message file to the place of its task, also of one that was
killed; `DirShape` says that what `create_directories` has listed is still in an order in
which a parent comes before its child, whoever else makes or deletes them meanwhile.

`UseInv` is an argument about others. `users` records which task named which directory in
which run of the service. `Claims(t)` says of each thing task t takes for granted (what it has
still to make is not there, its save path and results are there, a directory it emptied is
gone) that it is so *or there is another user* of the directory on record; `Excused(t)` says the
same of a failure. `Footprint(t)` bounds what a step of t may do to the others: whatever it
makes, fills, empties or removes, it has on record. So a step of t cannot falsify a claim of u
without being the other user (`OthersKeep`), and only t's own steps need a look at each action
(`TaskStep`). Two records of one directory are what `Shared` counts, which needs the history to
be finite. A death keeps the records; a restart makes every unfinished task of the old run
`stopped` with a `place`, which is what `TrashHasCause` asks for.

`ThreadProofs`, for any finite sets of threads and callers, any tasks, ids and intervals
(`ThreadAssumption`):

| theorem | states |
|---|---|
| `ThreadInvariance`, `ThreadTypeCorrect` | `ThreadInv`, `TypeOK` |
| `NoTaskIsLeft` | `TaskHasThread`: no lost wake-up |
| `TimersAreWatched` | `TimerIsWatched`, if there is a thread at all |
| `QueueIsImplemented` | `ImplementsQueue`: the refinement to `WorkQueue` |

`ThreadInv == TypeOK /\ DoneMeansExit /\ TaskHasThread`. A step changes the two sides of
`TaskHasThread` by at most one each, except a wake-up of all; the lemmas `Counted` and
`Larger` turn that into cardinalities. A thread that has left makes no room for a wake-up,
so `DoneMeansExit` is needed. `TimerIsWatched` holds by what the last thread to fall asleep
computed: `FirstIsFirst` and `WaitIsShort` show that its wait is at most the first timer's.
The refinement needs `OnePlace`: a task is unposted, or once in the queue, or with one
thread; so `Finish` removes one task from what runs, and `RoomForOne` bounds their number.

`FileProofs`, of the log for any processes, threads, days and period to keep (`LogAssumption`):

| theorem | states |
|---|---|
| `LogInvariance`, `LogTypeCorrect` | `LogInv`, `TypeOK` |
| `LinesAreKept` | `LineKept` |
| `RecentFilesAreKept` | `RecentKept`, an action property: only old files are deleted |
| `OldFilesAreBehindGap` | `OldIsBehindGap`, if at least one day is kept |

`LogInv == TypeOK /\ LogShape /\ LineKept`; `LogShape` says that a thread deletes only
below the period, that one past the rotation has the day of its line, and that an open
stream is its process's last file, linked while in the period: a line goes to a file that is
there. `OldIsBehindGap` needs `AgeShape` as well: how old a line may be, and what
`clear_files` has passed in each thread that deletes. With `Reserve = 0` a line taken before
midnight makes a file that is already outside the period, hence that theorem's assumption.

`WorkerProofs`, for any tasks, files, branches, steps of a flow, messages, configuration and
bounds (`WorkerAssumption`: what the settings of a switch may be, that branches are finite):

| theorem | states |
|---|---|
| `WorkerInvariance`, `WorkerTypeCorrect` | `WorkerInv`, `TypeOK` |
| `ResultsAreComplete` | `ResultComplete`: no file of a branch misses the result |
| `FailuresAreReported` | `FailureIsReported`: no failed task is answered success |
| `SuccessesWereTried` | `SuccessMeansTried`: success only after each file's upload has ended |
| `TasksAreKept` | `KeptUntilAnswered`: in the inbox or whole on disk until answered, through deaths anywhere but in the two gaps |

`WorkerInv == TypeOK /\ JobShape /\ BranchShape /\ ErrorShape /\ UploadShape`. `BranchShape`
says that `m_thread_count` is at least the number of running branches: memory that was not
zero makes the wait too long, never too short. `UploadShape` says that `m_upcounts` is the
number of uploads under way, those of an earlier task that gave up waiting included, and that
a file of the task is to be posted, under way or has ended; so a count of zero means that all
ended. `ErrorShape` follows a failure from `m_err_msg` into the reply. `JobShape` has what
makes a reply complete: the saves of the task are none before the first file is read, and in
the result from its collection on. `KeptUntilAnswered` is an equivalence: a task is answered if
and only if it is not in the inbox, on disk, in a gap, or lost in one, and then it is not torn
either; so nothing is lost, and nothing answered is repeated, by a death at another place.

`OssProofs`, for any number of parts (of an upload at least 2), threads, attempts, failures,
rewrites of the file and replacements of the object (`UploadAssumption`, `DownloadAssumption`:
among them that there is a largest number of attempts and a largest object):

| theorem | states |
|---|---|
| `UploadInvariance`, `ResumeInvariance`, `DownloadInvariance` | `UploadInv`, `ResumeInv`, `DownloadInv` |
| `UploadsAreStored` | `StoredIsLocal`: true is returned only when the object is the file, part for part |
| `DownloadsAreObjects` | `FileIsObject`: true is returned only with a file that is one version of the object |
| `TransfersAlwaysAgree` | `TransfersAgree`: one place for each part, no upload left open unnamed but those `uwaste` counts, records true |
| `FailuresAreHonest` | `TransfersFailHonestly`: false only after a failure in each attempt; a crash only of a failed rename or a replacement |
| `AttemptsResume` | `TransfersResume`: nothing stored is sent again, nothing recorded fetched again |

The theorems about both transfers are of `USpec /\ DSpec`: the two share no variable, so this
has every interleaving of one upload with one download, those of `network` among them.

*Uploads.* `UploadInv == UploadTypeOK /\ UploadBounds /\ UploadKind /\ UploadIds /\
PartsCovered /\ PartsCurrent /\ Whence`. `PartsCovered` holds `PartInOnePlace` and adds that no
part is forgotten: while no outcome is a failure each is to do, with a thread or in the list,
and the threads do not all leave while one is to do, so when they are joined the list is the
whole file. `PartsCurrent` says that what the server has under the id in use, or under the id
of a record of the file's mtime, is of the present file unless it was written under way. That
needs an id that `prepare` gets to be new (`NextIds`): the server counts, and `UploadIds` bounds
the count by the attempts and failures so far. `utodo` and `dtodo` are sets whose smallest
element is taken, as `partsToUpload` and `partsToDownload` are in ascending order.

`ResumeInv == RecordNames /\ FailuresPaid /\ UnheardStays /\ StoredNotTodo` is a second
induction. `RecordNames`: the uploads left open, the one the record names not counted, are at
most `uwaste`, the number of initiations not heard and of records outdated, cut, or not opened;
and as long as there is none of these, the record names the upload that is worked on, which is
open while no answer of a completion was lost. `FailuresPaid`: the failures so far are at least the attempts
begun, less the present one while nothing has failed in it. `UnheardStays`: after a completion
that was not heard the record, unless it was lost or could not be opened, names an upload that is
no longer open, so every later attempt ends when it lists the parts. `StoredNotTodo`: what the server has under the id is not to do.

*Downloads.* `DownloadInv` starts with types, bounds and sizes (`DownloadTypeOK`,
`DownloadBounds`, `DownloadSizes`). `RangesCovered` is the counterpart of `PartsCovered`.
`RangesWritten` says that before the rename the list is the whole of `dfirst`'s version, since
the client has compared checksums; and, unless the object ever shrank (`~dshrunk`) or the record is
of an attempt before one that could not replace it (`~dstale`), that listed parts are in the temporary file in their version and nothing is written beyond the
size asked for: after a smaller replacement the bytes beyond its end do remain (section 6). `RecordLacks` is why `outcomes` is not empty: without a replacement or a failed
rename a record lacks a part, or its transfer is past the threads. `AttemptsPaid` is the proof of
`MissHasCause` by a potential, `Spare`: failures, plus two for each replacement, less attempts
begun. A replacement spoils at most two attempts: the one under way, which sees two versions,
and the one that resumes from the record it leaves. So when nothing is to spare the record
is `PureRecord` (all of the present version), `FullRecord` (nothing left to fetch), or the object
has one part; and a run with nothing to spare is pure, full, or the mixed one that pays when
its checksum fails.

`DataProofs`, for all bytes, addresses, strings, sizes and limits (`ObjectAssumption`,
`TextAssumption` only say what a sample is; the theorems on the operators need neither):

| theorem | states |
|---|---|
| `LittleIsBitwise` | `crc64_little` is the CRC of the polynomial, bit by bit, at every length and address |
| `CombineTwo`, `CombineParts` | the checksums of two parts, or of all parts of a plan, combine to that of the object |
| `PartsFollow`, `ByteInOnePart` | the parts of an upload tile the object: no gap, no overlap, no empty part |
| `PartSizeIsEnough` | doubling the part size ends, with few enough parts and no larger than needed |
| `DownloadIsUpload` | a download cuts off the same parts |
| `ObjectsAreTheirParts` | `SampleSpec => []ObjectIsItsParts` |
| `NamesAreFound` | a name put under a path is found again, and the path |
| `EntriesAreWhole` | `split_string` loses nothing, and no entry holds the delimiter |
| `ReplaceOnce` | `replace_string` replaces each place once and never looks at what it put in |
| `DumpsAreTheSame` | the dump does not depend on the buffer, which never overflows, for any room of 8 or more |
| `TextsAreKept` | `TextSpec => []TextIsKept` |

These are inductions over data. The library's induction theorems take an operator as a
parameter, which the provers cannot instantiate, so the module goes round them: `Least` gets a
least element of every set of naturals from the well-foundedness of `<` (`WFMin`), `InductTo`
and `MeasureInduct` restate induction for *sets*, and every step is `n \in T => n + 1 \in T`
for a named set T. A recursive function of TLA+ is the
CHOOSE of a solution of its equation, so first there must be one: `Recursion` makes one for every
loop that goes from state to state and whose rounds lower a measure (`Ending`), and `Loop` for
the loops that count. The measures are also the proof that the loops of the code end (`PartSize`,
`DownloadPlan`, `SplitFrom`, `AddZeros`). What the solution computes is then an induction.

*Checksum.* `ZeroBits` is linear in the word (`ZeroBitsXor`), so a byte added to a word is eight
zero bits after their sum (`AddByteDef`), and the table of a byte k places from the end is that
byte followed by k zero bytes: eight look-ups are eight bytes one by one, whatever part of the
buffer they are done in. `CombineCRC` is the same from the other side: a matrix of 64 words is a
linear map, its square the map done twice, so the loop over the bits of the length adds as many
zero bytes as the second block has. `ByBytesXor` says that a block that starts
from another word ends with that difference followed by the block's zero bytes, and so the second
block, which was computed from all ones, is corrected by what the first one left.

*Texts.* `find` is the first place where the delimiter occurs (`FindDef`). The invariant of
`replace_string` (`Partly`) is that the source so far is what has been made of the entries before
`pos`, and after it the rest of the original, in which the entries still to come are found where
`split_string` finds them. A round of the dump empties the buffer or leaves room for 8
characters, and writes at most 4.

Only model-checked: liveness, which TLAPS 1.4.5 cannot prove, as it has neither fairness nor
ENABLED: `TaskIsAnswered`, `DeadIsReaped`, `TermStops`, `PostedIsRun`, `DueFires`, `EndJoins`,
`JobEnds`, `KeptIsAnswered`, `LinkProceeds` and `CallsEnd`. Every invariant and every
action property of the passing runs is a theorem, `OldIsBehindGap`, `CrashReportIsNews` and
`OverflowIsHonest` under the condition that theirs states.

## 6. What else the models show

Deviations the modules contain but no run of their own:

- *Waiting for oneself.* `publish_to_mq` calls loop(), which runs on_message in the parent:
  with `sig_mqfd` full its blocking send waits for the parent to read (403, 392). The same
  when the library's thread blocks in that send with the callback mutex held and the parent
  waits for the mutex.
- Two requests that arrive in one edge of `sig_mqfd`: one `readMsg` per edge leaves the second
  there until a third comes (process_pool.h:664); `UnreadWereMerged` bounds how many.
- A request longer than MAX_BUFF: `readMsg` returns -100 and the `std::string` made of it
  throws, which ends the parent (671).
- When the first connect fails, `loop_start` is never called and the service stays deaf
  (task_handle.cpp:352-368); with a clean session, requests published while the connection is
  down are lost.
- SIGTERM is read once; a SIGPIPE read in the place of a SIGCHLD after it, or a worker
  forked after the workers were told, leaves the parent waiting for ever (709, 763, 819).
- At start, unfinished tasks beyond the number of free slots stay on disk until the next
  start (594-598; docs/protocol.md:429-430 says they are executed again). A message file that
  was torn by a kill ends the parent at every start until somebody deletes it.
- The message file is deleted before the reply is sent (task_handle.cpp:225): a death of the
  service between the two loses the task. The directory of a download that failed is never
  deleted (321).
- `m_task_record` is never erased: a worker that dies idle is reported as a crash of the
  task it had answered before (776). `pool_life` has crashes in tasks only.
- When the length read is zero or impossible the slot stays busy and the task is never
  answered (847-851), which is what `process()` returning false leads to
  (task_handle.cpp:168, 183, 215; protocol.md:421 speaks of an error reply).
- A worker that exits, or a failed fork, gives the slot up without a report.
- A reply still unread when its worker's death is handled is lost with the pipe (736).
- The repaired mesh does not reach the saves after it (algorithm_functions.cpp:751).
- After a day without a line, log files older than that day are never deleted
  (log.cpp:669), though `main` sets 7 days; a process whose file cannot be opened logs
  nothing until the next day (log.cpp:651).
- Uploads: when the answer to CompleteMultipartUpload is lost, every retry of
  `OssHandle::upload` lists the parts of an upload that is no longer there and fails: a stored
  object is reported as failed (`UnheardIsFinal`), unless its record cannot be opened either:
  then a retry begins anew. An upload id whose initiation was not heard, or whose record was
  outdated, cut, or could not be opened, is never aborted on the server.
- Downloads: when all parts were in the record (for instance because only the rename had failed),
  `outcomes[0]` of an empty vector is read (ResumableDownloader.cc:199); a record of another
  size is replaced on disk but not in memory (315), and a smaller object may leave bytes of
  the larger one behind. A record that can neither be read nor written stays while
  the temporary file is written anew: from five failures on (an attempt that fails with a part
  recorded; in the next one the record opened neither for reading nor for writing, that part torn
  and the other one failed too) a retry believes it, fetches the rest, and, as the checksum compared is that of the record, returns true with a torn part, which
  `FileIsObject` excepts (`dstale`) and `network`, with two failures, does not reach. With `net_retries` 0 both transfers return true without a request.
- HTTP: `find()` of a text that is not there returns npos, which is true, so every 403 is
  retried; a `curl_easy_init` that fails for the first handles leaves Acquire waiting for
  ever; the two timeouts of the client configuration are given in the wrong order
  (CurlHttpClient.cc:401-402, 105), which a model without time does not show.
- `get_last_path` returns a text without a slash untrimmed; `replace_string` does not end when
  the old value is empty (string.cpp).
- The copy constructor of `MqRequest` drops the flow (mqtt_message.h:37), unknown methods
  are answered success (task_handle.cpp:307), `saveZip/pubBucket` is never looked at
  (task_handle.cpp:176), the pool has four workers whatever the configuration says
  (business_mgr.cpp:26).

## 7. What is not modelled, and why

- Contents: meshes, the algorithms, JSON, Boost archives: sequential code without state of
  its own, or code outside the repository.
- Message files on a full or read-only disk. An archive that cannot write throws and ends the
  worker, which is a death in the gap; that `close()` or the deletion fails unnoticed is left
  out. The record files of transfers do fail in the model; their removal does not.
- Blocking and partial sends on the pool's pipes: a message is shorter than a socket buffer.
- The MQTT library and curl: external, by their outcomes. Quality of service beyond a clean
  session, signatures, XML, headers, progress callbacks and asynchronous calls of the SDK.
- Program start, options, configuration loading, JSON data files (only `read_json` is
  called, once): straight-line code that a unit test reaches.
- `externals/ustd/include/ustd/process_pool.h` and `source/test_process_pool/process_pool.h`
  are older copies which the service does not include; trial programs.
- Most lines of the repository are vendored: RapidJSON, and of the OSS SDK some three hundred
  files of request and result classes and of operations the service never calls. They are left
  out, so the share of all lines that is modelled stays small; of the service's own code
  (`source/` and `externals/`, without the older copies and trial programs) it is about 45%.

## 8. Plan

Done: the inventory; pool, threads, worker, settings, log; the way of requests into the
parent; transfers and HTTP client; the disk shared by workers; checksums, part plans, path and
string functions; the safety proofs of all of them, with the refinements of pool, threads and
HTTP client.

Next, in order of weight:

1. A worker forked while another thread of the parent logs (log.cpp:629): `DailyLog` has the
   step; that every worker goes on would be a liveness property of log and pool together.
2. The way of a failed repair into the saves after it (algorithm_functions.cpp:751), which needs
   the meshes of a flow as data of `WorkerTask`.
