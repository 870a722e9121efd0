# BOINC: the life of a job, on the server and on a host

This directory holds TLA+ models of BOINC, the TLC runs that check them, and
proofs checked by TLAPS. Its largest part is the one whose correctness is
hardest to see from any one source file: the server back end, in which a dozen
programs advance the same rows of the same MySQL tables without transactions.
The second is the client: a dozen periodic functions that advance one job on a
host, and what a crash leaves of it. Between the two, the upload of a file.

## 1. Inventory

### The system

BOINC distributes *jobs* to volunteers' computers. A job is a row of `workunit`;
its *instances*, sent to different hosts, are rows of `result`. All programs of
the server keep their state in these rows (`db/boinc_db_types.h`) and in two
directories of files; they communicate by nothing else: a program sets a field,
another one polls for it.

| Component | State | Operations | Talks to the others through |
|---|---|---|---|
| database (`db/`) | tables `workunit`, `result`, `host`, ... | one SQL statement at a time; `UPDATE ... WHERE id=` | everything |
| transitioner (`sched/transitioner.cpp`) | copies of the rows of a batch of jobs | time out results, fail a job, create results, trigger validation, assimilation, deletion | `server_state`, `need_validate`, `assimilate_state`, `file_delete_state`, `transition_time` |
| validator (`sched/validator.cpp`, `validate_util2.cpp`) | copies of the rows, app versions' statistics | `check_set()` chooses a canonical result, `check_pair()` compares later ones with it | `validate_state`, `canonical_resultid`, `assimilate_state`, `transition_time` |
| scheduler CGI (`sched/sched_*.cpp`, `handle_request.cpp`) | one request; a lock file per host; the shared array | take in reports, send, resend, expire, give up results of detached hosts | `server_state`, `outcome`, `transition_time`; messages with the client |
| feeder (`sched/feeder.cpp`) | shared-memory array of unsent results | fill empty slots | slots |
| assimilator (`sched/assimilator.cpp`) | a copy of the job | call the project's handler | `assimilate_state`, `transition_time` |
| file deleter (`sched/file_deleter.cpp`) | none | unlink files, retry hourly | `file_delete_state` |
| purger (`sched/db_purge.cpp`) | archive files | archive and delete rows | rows disappear |
| file upload handler (`sched/file_upload_handler.cpp`) | upload directory; one process per request | tell the size of a file, write to a file from an offset on, under a lock | files |
| operator's tools (`tools/backend_lib.cpp`) | none | create and cancel jobs | rows |
| client: transfers (`client/pers_file_xfer.cpp`, `cs_files.cpp`, `file_xfer.cpp`, `async_file.cpp`) | `FILE_INFO`, `PERS_FILE_XFER`, verifications and copies in the background | make, start, retry, give up, end transfers; verify files | `FILE_INFO::status`, `uploaded` |
| client: tasks (`client/app.cpp`, `app_start.cpp`, `app_control.cpp`, `cs_apps.cpp`) | `ACTIVE_TASK`, slot directories, processes | start, suspend, quit, abort; notice that a process has ended | `task_state`, `RESULT::exit_status` |
| API in the application (`api/boinc_api.cpp`; locks: `lib/filesys.cpp`) | lock file of the slot, a finish file | lock the slot or give up; finish; end when the client's heartbeats are missed | files of the slot, exit status |
| client: results (`client/client_state.cpp`, `result.cpp`, `cs_scheduler.cpp`, `scheduler_op.cpp`) | `RESULT`, the state file | next state of a result, scheduler requests, garbage collection, restart | messages with the scheduler |
| VDA (`vda/`), trickles, locality scheduling, credit, web pages, manager | see `PROJECT.json` | | |

Not core to this project: vendored libraries, graphical programs, PHP pages,
sample applications, client-side simulation of processor scheduling.

### What is hard here

* **Interleaving.** The transitioner, validator and scheduler all read rows,
  think, and write row by row from their copy. No row is locked; no `UPDATE`
  of a daemon has a condition on what it read. Only `mark_as_sent()` checks
  `server_state` in its `WHERE` clause.
* **Writes of whole rows.** The transitioner writes only the fields of the job
  that changed; the validator writes all six fields as it read them.
* **Lost wake-ups.** `transition_time` is both a timer and the way one program
  wakes another.
* **Crashes.** Daemons `exit(1)` on many errors and are restarted by cron.
* **Lost messages.** A reply to a host may be lost with its acknowledgements
  and its new jobs; the host then reports again.
* **Time-outs.** A deadline passes while the report is under way.
* **Periodic functions.** The client's functions run once in 1, 5 or 10 seconds
  and take their cue from states others leave. What one of them would notice,
  another may have overwritten before its period is over.
* **Going back.** After a crash the client has an older state of its results
  and the newest state of its files.
* **Processes that stay.** A crash of the client kills no application. Until it
  misses its heartbeats, a client that was started again may start another one.
* **Order of deletion.** Input files, output files, the canonical output and
  the rows may go only after their last use, which is another program's.

What makes each component correct:

* transitioner: never more instances than allowed, an error once recorded
  stays, files go only when nobody needs them, every job comes to an end;
* validator: a canonical result has a quorum, valid results agree, a verdict
  does not change;
* scheduler: a result is sent at most once, a report that is acknowledged is
  on record, a success is never replaced;
* assimilator: every job is assimilated, and only with a result or an error;
* file deleter and purger: `DONE` means gone, nothing is left behind;
* file upload: the server's file has no holes and is complete when the client
  takes it to be; every upload ends;
* client: a job runs with verified files only; it has one process at a time, and
  one that an earlier client left behind does not work together with it as long as
  the slot's lock file is not deleted; a
  success is reported when the server has the output; no result is deleted
  before its report was received, and in the end each is;
* together: a result only goes forward from unsent to over to archived.

The hazards, each at its line and with the properties that cover it, are listed
in `PROJECT.json`.

## 2. Modules

```
BackendDB      the rows, one SQL statement per action
  Transitioner Validator Scheduler Assimilator FileDeleter
        \         |        |        |        /
                 Backend          all of them on one job; the properties
                    |  refines
                 JobLife          what a job is promised
     MCBackend   Backend_proofs   symmetry for quorum; theorems
                    |
                 Records_proofs   theorems about reports, files and limits
                    |
                Agreement_proofs  theorems about the validator's verdicts
                    |
                  Alone_proofs    theorems for programs that do not overlap
                    |
                 Wakeup_proofs    theorem: no wake-up is lost

WorkArray        the job cache between feeder and schedulers, on many jobs
MCWorkArray, WorkArray_proofs     jobs and symmetry for TLC; theorems

Upload           one file, its client and the upload handlers, unit by unit
Upload_proofs    theorems

Transfers        the files of a job on a host
Slot             its processes, and the lock file that keeps them apart
  Tasks          its task
    Client       the result, the loop that polls all of them; the properties
Client_proofs    theorems
```

* **BackendDB**: `wu`, `res` and `file` stand for the row of the job, the rows
  of its results, and the output files. `SetRow` and `SetWu` are `UPDATE`
  statements: they do nothing when the row has been deleted. Times are reduced
  to the comparisons the code makes (see the module's header). A `result` whose
  `server_state` is `"NONE"` does not exist yet, `"PURGED"` not any more.
* **Transitioner**: `handle_wu()`, statement by statement. `tr.wu` and
  `tr.items` are the daemon's copies; `TrTimeOut` and `TrTooLate` are the
  updates of its first scan, `TrDecide` the decisions between the scans,
  `TrClose` the updates for a failed job, `TrCreate` the batch insert,
  `TrDelete` the second scan, and `TrUpdateWorkunit` the last statement.
* **Validator**: `handle_wu()` with `check_pair()` when there is a canonical
  result and `check_set()` when there is none. The project's
  `compare_results()` is an equivalence on output files (`Answers`).
* **Scheduler**: what the CGI does to a result. `SendCheck`, `SendJob`,
  `SendMark` are the three statements of sending; `ReportCheck`, `ReportRow`,
  `ReportJob` those of taking in a report; `Resend...`, `Expire...` and
  `Detach...` likewise. `client[r]` is what the host has of the result.
* **Assimilator**, **FileDeleter** (with the purger): one action per
  statement or per deletion of files.
* **Backend**: `Next` lets every program take a step; an operator may cancel
  the job; deadlines pass and transition times come.
* **JobLife**: the abstract specification. `Backend` implements it under the
  mapping `life[r] = res[r].server_state`, `canonical = wu.canonical_resultid`.

* **WorkArray**: what `SendCheck` leaves open, the way a result takes from the
  table to a reply. `slot` is the array in shared memory (`wu_results[]`),
  `feeder` and `sched[p]` the local variables of the feeder and of the
  scheduler process `p`, `sema` and `undo` the System V semaphore and what the
  kernel undoes when a process exits. `row` and `given` are the part of the
  database and of the replies that matters here. The feeder's `scan_work_array()` is
  `FeederLook`, `FeederPurge`, `FeederFill`, `FeederResult`, `FeederPresent`
  and `FeederStat`: it does not take the semaphore, so every access to a slot
  is a step. A scheduler's `no_work()` is `Tag`, its `send_job_for_app()` the
  `Nci...` actions, its `scan_work_array()` the `Scan...` actions and its
  `restore_work()` is `Restore`. `StillSendable` and `MarkAsSent` correspond to
  `SendCheck` and to `SendJob` with `SendMark` of **Scheduler**.

* **Upload**: the contents of a file are its units `1 .. nbytes`; `disk[f]` says
  which units a file has, `path` which file has the name. `proc[p]` is a handler
  process: `sent` and `read` are what its client has sent and it has read, `open`
  whether the client is still there. Each `fread()`, `open()`, check and
  `write()` of `copy_socket_to_file()` is a step (`ReadBlock`, `OpenFile`,
  `CheckFile`, `WriteBlock`), because handlers of earlier attempts go on
  writing what they have been sent. `cl` is the client's transfer:
  `StartXfer`, `FinishXfer` and `PollXfer` are `create_xfer()`,
  `FILE_XFER_SET::poll()` and `PERS_FILE_XFER::poll()`.
* **Transfers**: what each function of the client makes of a file, as operators
  (`PollDownload`, `PollUpload`, `ScanInput`, `ScanOutput`, `FinishVerify`,
  `RestartInput`, ...). `inp` and `out` are the `FILE_INFO`s of an input and an
  output file, `stored` is what `Upload` promises: the server has the output.
* **Slot**: the process this client started (`proc`), those of earlier clients
  (`old`, a set of what they do), and the lock file. `fcntl()` locks the file a
  process has opened, but `boinc_delete_file()` deletes by name: a process may
  have locked a file that is no longer there (`"loose"`), and then nothing keeps
  another from creating and locking a new one. `Started` is a process's first
  try to lock, `Locks` and `OldLocks` its second after 35 seconds, `OldAfter` and `OldEnds` the ends,
  with or without unlocking, `Orphaned` what a crash of the client leaves.
  `exposed` is a history variable: it says that the protection was lost.
* **Tasks**: what each function makes of the `ACTIVE_TASK` (`task`). The process
  need not agree with what the task's state says of it.
* **Client**: one action for each function that `poll_slow_events()` calls, and
  for each thing that happens between two passes. `turn` makes a pass call the
  functions in the code's order; any of them may do nothing in a pass, since each has a
  period of its own. `saved` is the state file, written by `EndPass` when
  `dirty` says so. `rpc` is a scheduler request that reports the result, `got`
  what the server has received: the client's side of the messages of
  **Scheduler**, whose `client[r]` abstracts from how a result was computed.

The modules under `Backend` follow one job. Programs work on batches of jobs, but no statement
touches more than one job's rows except the operator's cancel, so what a
program does between its read and its write of this job is an interleaving
the model has anyway.

### Parameters and bounds

* `NIds`: room for result ids; the transitioner creates none beyond it. It is
  one more than `MaxTotal` so that a job that went over its limit would show.
* `MaxBusy`: how many programs may be in the middle of their work on the job.
  1 is "no overlap"; 2 lets any two programs overlap between any two
  statements, which is where all the races the runs found occur.
* `Faults`: what can go wrong in a run. `"transient"` the upload directory
  cannot be opened; `"badfile"` an output file is unreadable; `"host"` a host
  record is missing; `"credit"` no credit can be computed; `"unlink"` a
  deletion fails; `"reply"` a reply is lost or a project reset; `"crash"` any
  program is killed between two statements; `"detach"` a host seems to have
  detached; `"cancel"` the operator cancels; `"defer"` the handler defers
  assimilation; `"delay"` `delete_delay` is in force; `"purge"` a query of the
  purger fails.
* `Programs`: which of assimilator, file deleter and purger get round to this
  job in the run. `quorum` runs without them because its properties compare
  files, and of a deleted file nothing can be said. `races` runs without the
  purger to keep it short (with it, it holds too, on 1.2 million states); the
  theorems cover the purger with every overlap.
* Two results and a limit of one error are the smallest job in which results
  end differently, a job fails after a success, and the limits are reached;
  `quorum` has room for three results so that two may disagree and a third
  decides.

`liveness` starts with one result of two possible ones: the
second is the transitioner's answer to a time-out or to a result that turned
out unreadable.

For `WorkArray`:

* two processes (`Pid`), each of which serves one request and exits, as a CGI
  does; what a crash or a surplus unlock of one does to the other is seen with two.
* `NSlots` is 1 in `array`, where everything that may happen to a slot happens
  to it, and 2 in `stock`, where a result may be in two slots, a process may
  reserve two, and scans wrap round.
* Three results of two jobs of an ordinary application and one of the
  non-CPU-intensive application are the fewest for a slot to be refilled with
  another job of the same kind while a process holds a copy of the first;
  `stock` has one of each (a mix-up of jobs is for `array`).
* `EnumLimit` 2 is less than the number of results in `array`, so the feeder
  also has rows left that have been sent meanwhile.
* `MaxScans` 1: how many times a request scans the array. A second scan starts
  from the same state of the process as the first.
* `Faults`: `"crash"` kills a process; `"stale"` has the feeder run with
  `--purge_stale`; `"reread"` has the operator make it read its tables again.

`MCWorkArray` declares the processes interchangeable: the code compares process
ids for equality only. `stock`, with its liveness properties, does without.

For `Upload`:

* `BlockSize` 2 and files of 0 to `Size` = 3 units: nothing, less than a block,
  exactly one, a block and a half. `Threshold` 2: files of 0 and 1 units are
  "small" and sent without asking for the size; the code's threshold is half a
  block (8 of 16 KB), and what matters is that there are files on both sides.
* Two handlers are two attempts that overlap; `NFiles` = 2 files because the
  name may be deleted once under the handlers.
* `MaxFaults` 4 faults of any kind: killed handlers, full disks, lost
  connections, suspended or given up transfers, refusals, a deletion.
  The theorems need none of these bounds.

For `Client`: one job with one input and one output file, which is big (verified
and copied in the background) or small, and `MaxFaults` = 3 faults of any kind:
transfers that fail, damaged files, crashes of the job or the client, lost
requests or replies, a process that gives up waiting for the lock, preemption, suspension, aborts by the user or the server,
a missed deadline. Three were needed for the longest of the behaviours under 3.2
(two faults to bring about, one to show). Reporting an acknowledged result once
more counts as a fault, since the code does so only until garbage is
collected. Processes of earlier clients that do the same count as one (`old` is a
set); with three faults there are at most three of them.

`MCBackend` declares the answers interchangeable: programs only compare them
with each other. Results are not: `check_set()` takes the first candidate and new
results get the next ids.

## 3. Runs

| Run | Overlap | What it shows |
|---|---|---|
| `races` | any two | Rows follow `JobLife`; copies are stale but never wrong (`CopiesConsistent`); acknowledged reports are over; files awaiting validation are kept. |
| `quorum` | any two | With differing answers and a third result to decide: valid results agree, and the canonical one has its quorum. |
| `failures` | none | With files, hosts, handlers and the operator failing the job: it is assimilated with a result or an error, nothing is sent of a decided or failed job, verdicts are kept, errors stay, files are kept as long as they are needed and gone when the row says so, no job is forgotten, no row is orphaned. |
| `crashes` | none | Killed programs, lost replies and failing queries of the purger: acknowledged reports are on record, successes and late reports are kept, the limit of instances holds. |
| `liveness` | any two | Every job is assimilated, even if hosts never report and although wake-ups are overwritten. |
| `cleanup` | none | The input files of every job are deleted in the end. |
| `array` | any | The job cache with crashes, stale slots and rereads: no result in two replies, every result with its own job, no index outside the array. |
| `stock` | any | With two slots and under fairness: the feeder keeps the array stocked whatever it enumerated and whoever was killed, and no slot stays reserved. |

| `upload` | any | One file, two handlers, a client that gives up and tries again: no hole, nothing missing of what the client takes to be uploaded, and the upload ends, by success or by giving up. |
| `client` | any | One job on a host through any three faults: it runs with whole files only; it is started only when it has no process, and does not work together with one of an earlier client unless the lock file was lost; successes are stored; no output is lost; it is reported, acknowledged and deleted. |

"None" means `MaxBusy = 1`: programs still run in any order, but each finishes
with the job before another starts. A property is checked with overlap when it
holds with overlap; 3.1 and 3.2 list those that do not.

The runs of `Backend` have `CHECK_DEADLOCK FALSE`: the job ends, and with it
everything the programs have to do. Those of `WorkArray` check for deadlock:
processes may wait for the semaphore for ever only if nobody can release it.
The feeder never stops, so this says no more than that some program can move;
that every process gets through is part of `Released`.

### 3.1 Where the code departs from what it says

Each of these runs checks a statement of a comment in the code and finds a
behaviour in which it is false.

| Run | Statement | What happens |
|---|---|---|
| `v_success` | a success is not replaced (`sched_result.cpp:185-187`) | the transitioner times it out from a stale copy |
| `v_upload` | a file that failed to upload makes the result an error (`client_state.cpp:1361-1362`) | the scan of transfers that are done takes the failed upload for a success before garbage is collected, and the result is reported as a success |

`v_success` needs two programs to overlap within one pass; the window is as
long as it takes to work through the batch a daemon has read. `v_upload` needs
nothing but an upload that is aborted by the user, refused for good, or retried
for too long: the scan runs every second, garbage collection every ten.

### 3.2 What else was met while modelling

These are not runs of their own. On the server (all that name a property show
up by changing the named constants in a run that checks it):

* `InputsKept` with overlap and an operator: the validator writes back
  `error_mask`, `assimilate_state` and `transition_time` as it read them
  (`boinc_db.cpp:1682`). A job that was cancelled, assimilated and had its files
  deleted while the validator looked at it loses its error, and the
  transitioner creates a new result for it, whose input files are gone.
* `LateReportKept` with the fault `"detach"`: `mark_results_over()` sets
  `received_time` together with `CLIENT_DETACHED` (`handle_request.cpp:204-209`),
  so a report that comes later is refused as a duplicate and acknowledged,
  although `sched_result.cpp:204-207` says to keep it anyhow.
* `DidntNeedNotSent` with overlap: transitioner (`transitioner.cpp:396-397`) or
  validator (`validator.cpp:562-564`) call off, from a stale copy, a result a
  scheduler has just sent; its report is then ignored.
* `NotForgotten` with overlap: the `INT_MAX` the transitioner writes
  (`transitioner.cpp:603-604`) overwrites the wake-up the assimilator set
  (`assimilator.cpp:180-184`), and the job's files are never deleted.
  Without overlap it fails in three more ways; the theorem `NoWakeUpLost` has
  as its hypotheses exactly that none of them applies.
  * `MinQuorum` = 5, without any fault (`NIds` 8, `InitTarget` 6, `MaxError` 3,
    `MaxTotal` and `MaxSuccess` 7): three of five results agree, which is a
    quorum for `check_set()` (`validate_util2.cpp:116`), two are invalid, and a
    sixth comes in after the decision. "don't count invalid results as successful"
    (`transitioner.cpp:290`) leaves four, fewer than `min_quorum`, so
    `transitioner.cpp:320` does not ask for validation. The late result waits
    for it for ever, and with it the job's files.
  * `"host"` and a quorum of more than one: a result whose host was not found
    stays unvalidated, and the late one is too few for a quorum again.
  * `"crash"`: a scheduler that is killed after it wrote the report has not
    woken the transitioner (`sched_result.cpp:388`, `402`).
* `ReadyHasReason` with overlap and `"badfile"`: while the validator judges the
  only success, whose file it cannot read, a transitioner records
  `TOO_MANY_TOTAL_RESULTS` and hands the job to the assimilator. The validator
  writes `error_mask` and `assimilate_state` back as it read them, and then the
  assimilator writes `DONE`: the job has been assimilated with neither a
  result nor an error.
* `NoOrphans` with the fault `"purge"`: the value of
  `purge_and_archive_results()` is not looked at (`db_purge.cpp:525`), and a
  query that fails ends its loop as the end of the list does, so results are
  left behind. `html/ops/db_cleanse.php` exists to delete such rows.
* `InputsKept` with overlap and the purger, without an operator: the purger
  deletes results row by row (`db_purge.cpp:525`), and a transitioner that reads the
  job in between takes the job to have fewer results than it had, and creates
  another one.
* `DecidedNotSent` with overlap and `MaxTotal` = 3, `NIds` = 4: a transitioner that read
  the job undecided inserts another result while the validator writes its
  decision. Nothing calls it off before the next transition.
* `FailedNotSent` with overlap, the same limits and `"cancel"`: likewise, while the job is
  cancelled; the validator overwrites the wake-up and the error remains.
* `CanonicalFileKept` and `ErrorsSticky` with overlap: the validator undoes the
  error for which a transitioner had the job assimilated and the result's file deleted, and
  makes this result the canonical one.
* `ValidKept` with overlap: a transitioner that read the result before it was
  judged writes `NO_CHECK` over the verdict (`transitioner.cpp:396-416`).
* `AckedReceived` and `LateReportKept` with overlap: a report is acknowledged,
  and forgotten, of a result that a transitioner has called off, or writes back
  as `NO_REPLY`, from an older copy.
* `NoOrphans` with overlap and the purger: as for `InputsKept` above, the result
  is inserted after the job was deleted.
* `NO_CHECK` is documented as "we'll never get around to validating its
  results" (`boinc_db_types.h:494-495`), but a pass of the transitioner that fails the
  job may also have set `need_validate`, and the validator then validates them.
* `check_set()` is documented to get results with `validate_state` INIT only
  (`validate_util2.cpp:44-48`); it also gets inconclusive ones.
* "should never happen!" (`sched_result.cpp:200-202`) does happen: an error
  reported a second time after a lost reply.

* A slot is set empty before its `resultid` is read (`sched_array.cpp:442-448`),
  against the comment above it (`439-440`). The feeder may refill the slot in
  between; no harm is done because `result_still_sendable()` compares the job
  (`RightJob`; the mutant without the comparison breaks it). The matchmaker's
  `read_sendable_result()` does not compare.
* `send_job_for_app()` unlocks the semaphore before it looks the result up
  (`sched_array.cpp:577`) and again when the result was sent (`590`): the
  semaphore is 2 and two schedulers scan the array at once, against the comment
  at `413-415`. The surplus is taken back by the kernel when the process exits,
  except when two others are inside at that time: an undo does not take the
  semaphore below zero, and then it stays one too high until it is created
  anew. That takes three processes, one more than the runs have.
* A slot whose state is a process id is one this process "has reserved"
  (`sched_shmem.h:52-53`), yet the feeder writes the state of slots reserved since it
  read them: it empties (`feeder.cpp:456-462`) or gives back (`505-511`) a slot
  that a live process has taken. `SentOnce` and `RightJob` hold all the same.
* The slots `send_job_for_app()` takes are not emptied after sending; the
  feeder gives them back when the process has gone, and the next process finds
  their result sent.

On the host, all of them behaviours of `Client` or `Upload`:

* Two processes of one job at work in one slot (`StartedAlone` says when they are
  not): the comment "make sure we're the only app running in this slot"
  (`boinc_api.cpp:495`) rests on a file that others delete.
  * After one crash: the client starts the job and dies before `EndPass` has
    written the state file. The new client knows no task in that slot, so
    `delete_old_slot_dirs()` (`file_names.cpp:260-263`) or `get_free_slot()`
    (`app.cpp:490-493`) removes everything in it, the lock file included. The process in it goes on, and
    the job, started again in the same slot, creates and locks a file of its own.
  * After more: a process that exits closes the file it locked and deletes
    whatever has its name (`filesys.cpp:721-731`). If another has opened the file
    and waits, it locks a file that is gone, and a third is not kept out.
  * The new client maps the same `MMAPPED_FILE_NAME` when it is still there
    (`create_shmem_mmap()`), so the old process may take heartbeats meant for
    the new one and stay longer than `LOCKFILE_TIMEOUT_PERIOD`; then the new one
    gives up for ten minutes (a fault in the model).
* A process that has exited: `abort_task()` puts a task that was already told to
  quit or to abort into a state of which `common_defs.h:157` says that the
  process has exited (`app_control.cpp:808`). `handle_finished_apps()` then
  deletes the `ACTIVE_TASK`, and nobody kills or notices the process.
* An exit overwrites the status of an error: `handle_exited_app()` sets
  `exit_status` to 0 of a result that was reported as an error or aborted while
  its process went on (`app_control.cpp:444`); `app_finished()` then has its files
  uploaded. After a restart `parse_state()` (`result.cpp:121-129`) makes it
  uploaded, and a success is reported of an output that is not on the server.
  `SuccessStored` excepts it (`overwritten`).
* `result_abort_if_not_started`: what it goes by is a temporary variable of
  `make_run_list()` (`result.h:83`, undefined before the first schedule). The job
  started by that very schedule counts as not started until the next one, up to
  a minute later; its result is aborted, reported and acknowledged while the
  process runs (`AbortIfNotStarted`). Garbage collection then aborts it, "for
  some reason" (`client_state.cpp:1313`).
* A copy that ends while its job is preempted leaves the task in `COPY_PENDING`,
  in which nothing starts it any more (`async_file.cpp:117`,
  `cpu_sched.cpp:1727`), although a copy is there to "start the task again"
  (`async_file.h:40-41`). `Reported` excepts it (`CopyForgotten`).
* A crash after an uploaded file was deleted and before the state file was
  written leaves a result waiting for ever for the upload of a file that is not
  there (`cs_files.cpp:390-396`). `Reported` excepts it (`OutputLost`).
* `update_results()` and garbage collection do not mark the state dirty: after a
  crash a result may be reported a second time with a different outcome.
* A result that had been downloaded before a restart runs even if
  `check_file_existence()` found its input missing and it is downloaded again
  (in the model the disk keeps its files; a lost file is seen in the code).
* An empty output file is uploaded successfully and never created
  (`file_upload_handler.cpp:385-390`).
* Files of a job that failed are uploaded nevertheless, and a job that is
  aborted while its input is copied is started when the copy ends.
* With two large input files, `ASYNC_COPY::copy_chunk()` sets the task's
  `async_copy` to NULL and calls `start()`, which may begin the second copy and
  set `async_copy` to it; then `do_async_file_ops()` deletes the first one, whose
  destructor (`async_file.cpp:78-87`) sets it to NULL again. The second copy goes
  on, but the task no longer knows of it. The model has one large file.

## 4. Fairness

`FairSpec` assumes that the transitioner, validator, assimilator and file
deleter, which are loops, go on working; that a scheduler request that is
being served comes to its end and that hosts go on asking for work; that an
operator's cancel that was begun is finished; that time passes. It assumes
nothing of the host that has a job: it need never report. Fairness of the daemons
is strong because `MaxBusy` makes a program wait for a place that others may
take; this bound is the model's, not the code's. The purger needs no fairness.
Crashes, failing deletions, unreachable directories, missing records and
deferred assimilation are left out of these two runs: any of them may recur for ever, and
then the job does not end in the code either.

`Assimilated` depends on the safety net of `transitioner.cpp:606-614`, of which
the comment says that it is not needed in principle: without it (the mutant
`TrTransitionTime_NoSafetyNet`) a wake-up overwritten by the validator or the
transitioner leaves a job without an outcome for ever. `Cleaned` holds only
without overlap, because the safety net stops when the job has an outcome
(3.2, `NotForgotten`).

`ArrayFairSpec` assumes weak fairness of the feeder, a loop that sleeps for
seconds at most, and of each scheduler process, which the web server lets run
on to its end; a process that is killed takes no more steps. It assumes
nothing about hosts: new processes may or may not find what they look for.

`UploadFairSpec` assumes weak fairness of the client's transfer, whose poll
functions run every second, and of each handler process. Connections end when
they are lost; a handler whose client is gone sees the end of its data.
Suspending, disconnecting, deleting and dying are not fair.

`ClientFairSpec` assumes that the client's loop goes on (`PollStep`: some function
that has something to do does it) and that what it waits for ends (`Between`:
transfers, background copies, processes that were told to quit, processes of earlier
clients, which end or miss their heartbeats, requests). It is one condition, on all
of them together: there
is no fairness for one function or one event at a time; that none starves is a consequence
of the order of a pass, and of every wait being for something that ends. That a
process gives up waiting for the lock is a fault: nothing in the code bounds
how often it may. A job that can run runs in the end, unless a fault preempts it.
`Reported` names its two exceptions (3.2).

## 5. Proofs

`Backend_proofs` proves for every number of results, every limits, answers,
failures, and every amount of overlap:

* `TypeCorrect`: `Spec => []TypeOK`. `TypeOK` is inductive by itself. One lemma
  per program (`TransitionerType`, ...), one step per action.
* `Consistent`: `Spec => []CopiesConsistent`. This is the invariant the
  refinement rests on, and says what a stale copy may still be trusted for:
  a row or copy that has an outcome is over; the validator writes only rows
  that are over in its copy; what it read as over has ended in the database;
  the canonical result has ended; while the validator is at work nobody else
  sets `canonical_resultid`. It is inductive relative to `TypeOK`. The proof
  splits it into `RowsSound`, `TrSound` and `VaSound` (`ConsistentParts`).
* `Refinement`: `Spec => ImplementsJobLife`. `StepLife` shows that every
  statement of every program moves results forward or not at all. The crux is
  `WriteBackOver`: a write of `server_state` from a stale copy cannot bring a
  result back from over, because the daemons write only rows that are over in their
  copy.

The only assumption is `BackendAssumption`: the limits `create_work()` insists
on, and that there is room for the ids. It needs no assumption on `MaxBusy`,
on `Faults` or on fairness.

`Records_proofs` builds on it, under the same assumption, for four safety
properties that the runs check with one or two programs at work only:

* `Acknowledged`: `Spec => []AckedRecorded`;
* `OutputKept`: `Spec => []AwaitingFileKept`;
* `DeletionTrue`: `Spec => []DeletedMeansGone`;
* `TotalBounded`: `Spec => []TotalBound`.

The first three follow from `RecordsInv`. Its centre is `ToldSound`: a row, or a
copy of it in a daemon, that says a host reported the result, that its files
may go or that it was judged (its `validate_state` is no longer INIT), implies `HandedIn`. This predicate is stable (the
result has ended, its host is not computing, its report is marked as received and no
report is in the middle of being written), so what a copy says may be old but
is not undone by events after it was read. `AwaitingSound` then needs only that no
daemon ever writes an unchecked success (`Quiet`, one lemma per daemon), which leaves
the scheduler's `ReportRow` as the only step that makes one, when the file is
there. `HostSound` is what the requests under way and the
host's state say of the row, `FilesSound` what `DONE` says of the files.
That a statement never takes a result back a stage comes from `StepLife`.

`TotalBounded` rests on `TotalInv`: before it decides, the transitioner's copy
lists every row there is (nobody else inserts any), and afterwards the rows
there are and those it has yet to insert are within the limit together. The
count of a batch (`NextIdsBound`) maps each id to the number of free ids
below it, which is one to one (`RankGrows`).

`Agreement_proofs` proves two properties of the validator's verdicts for any
overlap of the programs and every quorum, answers and limits:

* `VerdictsAgree`: if daemons are not killed (`"crash" \notin Faults`),
  `Spec => []ValidAgree`;
* `QuorumSupports`: if no file deleter runs on the job
  (`"file_deleter" \notin Programs`), `Spec => QuorumAgrees`.

The first rests on `AgreeInv`: all that is `Good` (found valid, in a row or in
any daemon's copy, or decided, in the database or about to be written there)
has one file, and was handed in, so the file is not replaced (`RecordsInv`); and
as long as the validator may still decide, nothing is valid. A validator that is
killed after some results and before the job breaks the latter: it decides once
more, and need not decide the same. The second rests on `SupportInv`: the
candidates counted in the copy have been handed in for good (`Backers`), and so
are there when the decision is written, perhaps much later. It needs files
to stay because the property compares files; `QuorumAgrees` is checked by
`quorum`, which runs without the file deleter for the same reason.

`Alone_proofs` is about programs that work on the job one after the other
(`MaxBusy = 1`). The properties it proves are those that `failures` and `crashes`
check in this way because overlap breaks them, each of them (3.1, 3.2). It holds
for every other constant:

* `AssimilatedForReason`, `DecidedIsNotSent`, `FailedIsNotSent`, `CalledOffUnsent`,
  `AcknowledgedKept`, `InputsStay`, `CanonicalFileStays`: the invariants
  `ReadyHasReason`, `DecidedNotSent`, `FailedNotSent`, `DidntNeedNotSent`,
  `AckedReceived`, `InputsKept`, `CanonicalFileKept`, whatever fails;
* `SuccessStays`, `ErrorsStay`: the action properties `SuccessKept`,
  `ErrorsSticky`, whatever fails;
* `ValidStays`: `ValidKept`, if daemons are not killed (see above);
* `LateReportsCount`: `LateReportKept`, without `"detach"`;
* `NoOrphanResults`: `NoOrphans`, without `"purge"` (3.2 has the behaviours that
  make the last two hypotheses necessary).

They follow from two facts. `AloneInvariant` has `Exclusive` (who is at work is
at work alone), `FreshInv` (what a program has read is what the tables still hold,
except what hosts and deadlines changed, which is spelled out program by program)
and `JobInv` (how the parts of the job fit: the properties themselves, with
`SettledNotSent`, `GoneInputs`, `FilesInUse` and others that make them
inductive). `OnlyOrderlySteps` is `[][OrderlyStep]_vars`: the list of what a step
may do to a result (`RowStep`), to the job, the files and the hosts. Each program
is proved once to take orderly steps only and to keep `FreshInv`; `JobInv` is
then preserved by `OrderlyStep`, without a look at the programs
(`OrderlyKeeps`), and the action properties are read off it.

`Wakeup_proofs` proves `NoWakeUpLost`, `Spec => []NotForgotten`, for `MaxBusy = 1`,
without `"crash"` and under `LateCounts`: `MinQuorum <= 1`, or `MinQuorum <= 4`
and no missing host records. `WakeInv` says in whose hands a job is that the transitioner
has left for good (`NeverForgotten`): the assimilator's or file deleter's, or
the validator's, which has a late result to look at and will wake the transitioner
when it has. Its other parts: the purger comes last (`PurgeLast`), only results past their
deadline are given up, so a result in progress has a deadline to come (`LateInv`), the
validator hands over what it decides (`VaHandsOver`), and the transitioner sees what there is to
validate (`TrSees`). The last needs `QuorumKept`: more than half of a quorum of
results was found valid and stays so; with the late one they are a quorum again if it is at
most four (`q \div 2 + 2 >= q`). From five on they need not be, and the wake-up is
lost (3.2). TLC found this first, and that the other hypotheses are needed.

With these theorems every safety property of a passing run of `Backend` is
proved: those of `races` and `quorum`, and `TotalBound` and `DeletedMeansGone`, for
every overlap, the others for `MaxBusy = 1`; of the latter TLC finds each
violated with two programs at once.

`WorkArray_proofs` proves for every number of slots, results and processes:

* `ArrayTypeCorrect`: `ArraySpec => []ArrayTypeOK`. Not inductive by itself:
  `Counting` (in the body of a loop its counter is positive) keeps `left` from
  going below zero, and `Filling` (the feeder has a result in hand when it
  writes one) keeps the slots' type. `ArrayInv` is the conjunction.
* `SentOnceHolds` and `RightJobHolds`: with `Prepared` (a process about to mark a
  result holds the copy of that result's job; established by the look at the
  database only, `ToMarking`, and left alone by all others, `OwnRecord`) and
  `Ungiven` (an unsent result is in no reply). Neither says anything of slots
  or semaphore: that is the point, since neither of them can be relied on.

The assumption is `WorkArrayAssumption`: there is a slot, the limits are
numbers, every result has a job, and the special values differ from the others.

`Upload_proofs` proves for every size of file and block, every number of
handlers, files and faults:

* `UploadTypeCorrect`: `UploadSpec => []UploadTypeOK`;
* `NoHole`: `UploadSpec => []Contiguous`;
* `Complete`: `UploadSpec => []UploadedComplete`.

All three follow from one inductive invariant, `UploadInv`. `UploadTypeOK` does
not keep offsets in range by itself, so it is joined by `HandlersSound` (what a
handler has read and holds fits between its offset and the file's size; one that
writes has a file that reaches up to where it writes), `FilesSound` (a
file is `1 .. size`, since handlers only append or overwrite) and `ClientSound`
(what the client and the replies under way believe the server to have is at most what it has,
unless the file was deleted). The argument does not use the lock to exclude
other handlers: two that write to the same file both write its units where they
belong.

The assumption is `UploadAssumption`; `Threshold <= BlockSize` is not needed.

`Client_proofs` proves for every number of faults, from `ClientAssumption` alone:

* `ClientTypeCorrect`: `ClientSpec => []ClientTypeOK`;
* `InputWhole`: `ClientSpec => []WholeInput`;
* `NothingForgotten`: `ClientSpec => []Acknowledged`;
* `SuccessHasOutput`: `ClientSpec => []SuccessStored`;
* `OutputNeverLost`: `ClientSpec => []NeverLost`;
* `OneProcess`: `ClientSpec => StartedAlone`.

All follow from `ClientInv`, the last one together with `LockSound`. None of the properties is inductive: a crash puts
the result back to what `saved` says while the files stay as they are, so each
part of the invariant says of `saved` what it says of the state in memory.
`InputSound`: once the result, its task, or the state file of either relies on
the input file, it is whole and no transfer is under way that could write to it
(`Relied`). `AckSound`: the state file has the acknowledgement before the result
is deleted, because garbage collection comes earlier in a pass than the requests
(this needs `turn`). `ProcSound`: a process of this client without a task that accounts for it
belongs to a result that can no longer be run. `OutputSound`: as long as memory
or state file have the result uploading, the output is on the disk, or its
transfer is done (`Settled`). `SuccessSound`: a result that is ready, not failed
and has a task, or is not through yet, had its exit status set to zero.
`OneProcess` needs one more invariant, `LockSound`: unless `exposed`, there is at most one old
process, it has locked the file that has the name, and this client's process neither works nor has
opened another file (`SlotKeepsLock`, `BecomeKeepsLock`, `CrashKeepsLock`).
The steps that change files only, and those that change the result and its task
only, share a lemma each (`FilesStep`, `JobStep`); what a step contributes is
that it `Improves` the input, `Proceeds` with the output, `Advances` the result.

Only model-checked: liveness (`Assimilated`, `Cleaned`, `Stocked`, `Released`, `Finished`,
`Reported`), which is out of the prover's reach, as is what the fairness
conditions' `ENABLED` means. `v_success` and `v_upload` are counterexamples:
`SuccessKept` with overlap and `FailureReported` do not hold.

## 6. Not modelled

* Of the modelled programs: homogeneous redundancy and `app_version_id` (they
  select hosts, and the transitioner resets them without effect on any state
  above), quotas, `COULDNT_SEND` (which no program sets any more),
  `transitioner_flags`, the transitioner's delay under overload (it reacts to
  its own slowness within one pass), `report_grace_period` (taken as 0), "no delete"
  and "preserve" options, the comparison function's own errors and
  comparisons that are not transitive, credit, and the update statements'
  failure other than by a crash (it is logged and ignored).
* `check_set()` reads all files at one instant; the file deleter does not touch
  files of results that were not looked at (`AwaitingFileKept`).
* In `Backend` the job cache: `SendCheck` lets any unsent result be chosen. In
  `WorkArray` the choice is the cache's, but a job ends with being sent.
* Of the job cache: homogeneous redundancy classes, weights of applications,
  priorities, `infeasible_count` and `need_reliable` (they choose among slots
  and results, which the model leaves open: `quick_check()` and `slow_check()`
  answer as they like), FastCGI, locality scheduling and the matchmaker.
  `update_wu_on_send()` is a reason for a marking to fail. The collision check
  and `no_work()` look at all slots in one step; the slot's result is read and
  looked up in one step.
* A host has one request served at a time (`lock_sched()`), except for
  `mark_results_over()`, which runs before the lock is taken.
* Of the upload: the lock, the check of the offset and `lseek()` are one step; an
  `upload_offset` is not kept in the state file, so a restart of the client is a
  `Suspend`; one URL per file; the contents of a file do not change between
  attempts; sizes have no width (3.2); signatures and the request's syntax are
  reasons to be refused.
* Of the client: one job with one input and one output. What several jobs do to
  each other is that this one is preempted (`PreemptJob`). Compressed, signed,
  image, sticky and optional files, file-transfer applications, application
  versions (their files behave as the job's), checkpoints, resource limits (an
  abort), temporary exits and the limit of 100 premature exits, messages to
  applications over shared memory, times of back-off (any length), the
  choice of projects and several scheduler URLs. "part" is a file that is missing or has
  the wrong size. The first pass after a restart finds all functions due. When
  network activity is suspended, transfers under way are killed; that none starts
  meanwhile is a pass in which their function does nothing.
* Of the slots: locks as on Windows, where a file that is open is not deleted and
  the client takes another slot; applications without the API, which
  lock nothing; a process's first try to lock is one step with its start;
  critical sections (an old process stays as long as it likes anyway); what two
  processes do to each other's files, other than that either may leave the output;
  which of them gets a message of the client. A process of an earlier client is
  not told anything, and its exit is not noticed.
* The wait queue of background operations has a copy before a verification;
  chunks of them are not steps.
* The components listed as `not_modelled` in `PROJECT.json`, with the reasons.

## 7. Plan

In this order:

1. *(done)* `BackendDB`, the programs, `Backend`, `JobLife`, with theorems for
   all their safety properties.
2. *(done)* `WorkArray`, with its theorems. Left: the matchmaker
   (`sched_score.cpp`), whose lack of a comparison of jobs deserves its own run.
3. *(done)* `Upload`, with its theorems.
4. *(done)* `Transfers`, `Tasks`, `Client`, with theorems. Left: that the client
   implements what `Scheduler` assumes of `client[r]`.
5. Validation and assimilation under crashes: how often the handler is called
   and credit granted, stated with what does hold.
6. Trickle messages and the recovery of archived files (`vda/`) as time allows.

Theorems to come: what is left of the properties of `Alone_proofs` with overlap,
for instance those that hold as long as nothing is cancelled; that a slot
is never reserved by two processes as long as none has unlocked twice; that
the client implements `client[r]`.
