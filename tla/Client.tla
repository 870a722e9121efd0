------------------------------- MODULE Client -------------------------------
(***************************************************************************)
(* One job on a host: its files are downloaded, a task computes it, its    *)
(* output is uploaded, and it is reported.  Each poll function that        *)
(* CLIENT_STATE::poll_slow_events() calls is an action.  A pass calls them *)
(* in a fixed order, but they have periods of their own and some do        *)
(* nothing in it.  The rest happens between two passes.                    *)
(***************************************************************************)
EXTENDS Tasks, Naturals

CONSTANT MaxFaults    \* how many faults a behaviour has

ASSUME ClientAssumption == MaxFaults \in Nat

VARIABLES
    res,      \* the RESULT
    rpc,      \* the scheduler request: the report it carries, or how it ended
    got,      \* the reports of the result that the server received
    turn,     \* the last poll function that did something in this pass
    dirty,    \* client_state_dirty
    saved,    \* the state file
    faults    \* how many faults there were

clientVars == <<fileVars, taskVars, res, rpc, got, turn, dirty, saved, faults>>

\* The order of a pass.
Poll == [suspend |-> 1, network |-> 2, tasks |-> 3, garbage |-> 4, transfers |-> 5, scan |-> 6,
         finished |-> 7, results |-> 8, schedule |-> 9, rpc |-> 10]

ResState == {"new", "downloading", "downloaded", "compute_error", "uploading", "uploaded",
             "aborted", "upload_failed", "gone"}
Report == {"success", "error"}
\* exit: aborted is EXIT_ABORTED_VIA_GUI or _BY_PROJECT.
\* notStarted: a temporary variable of make_run_list(), undefined until then
\* (of a result without a task it is FALSE: AbortJob does what TRUE allows).
ResRec == [state : ResState, ready : BOOLEAN, acked : BOOLEAN, exit : {"zero", "aborted", "error"},
           notStarted : BOOLEAN]
SavedRec == [res : ResRec, inp : SavedFile, out : SavedFile, uploaded : BOOLEAN,
             task : BOOLEAN, sched : BOOLEAN]

ClientTypeOK ==
    /\ FilesTypeOK /\ TasksTypeOK
    /\ res \in ResRec /\ rpc \in Report \cup {"idle", "acked", "failed"} /\ got \subseteq Report
    /\ turn \in 0 .. Poll.rpc /\ dirty \in BOOLEAN /\ saved \in SavedRec
    /\ faults \in 0 .. MaxFaults

NewResult == [state |-> "new", ready |-> FALSE, acked |-> FALSE, exit |-> "zero",
              notStarted |-> FALSE]

Persist ==
    [res |-> [res EXCEPT !.notStarted = FALSE], inp |-> PersistFile(inp), out |-> PersistFile(out), uploaded |-> out.uploaded,
     task |-> task.st # "none", sched |-> task.sched]

\* The reply with the job has been handled and the state file written.
ClientInit ==
    /\ inp \in {NewInput(b) : b \in BOOLEAN} /\ out = NewOutput /\ stored = FALSE
    /\ task = NoTask /\ proc = "none" /\ old = {} /\ exposed = FALSE
    /\ cpuOff = FALSE /\ overwritten = FALSE
    /\ res = NewResult /\ rpc = "idle" /\ got = {} /\ turn = 0 /\ dirty = FALSE
    /\ saved = Persist /\ faults = 0

Gone == res.state = "gone"
Clean == UNCHANGED dirty
Dirty == dirty' = TRUE
Fault == faults < MaxFaults /\ faults' = faults + 1
NoFault == UNCHANGED faults

\* mistake: a pass does not end with its last function.
Turn_Overrun(k) == turn <= k /\ turn' = k + 1
\* IO: between two passes.
Turn(k) == turn < k /\ turn' = k
IO == turn = 0 /\ UNCHANGED turn
rpcVars == <<rpc, got>>

-----------------------------------------------------------------------------
(* What is done to a result. *)

ReportError(r) ==
    IF r.ready THEN r
    ELSE [r EXCEPT !.ready = TRUE,
                   !.state = CASE @ = "downloaded" -> "compute_error"
                               [] @ = "uploading" -> "upload_failed"
                               [] OTHER -> @,
                   !.exit = IF @ = "zero" /\ r.state \in {"new", "downloading", "downloaded",
                                                          "uploading"}
                            THEN "error" ELSE @]

\* RESULT::abort_inactive()
AbortInactive(r, e) ==
    IF r.state \in {"new", "downloading", "downloaded"}
    THEN [r EXCEPT !.state = "aborted", !.exit = e] ELSE r

\* ACTIVE_TASK::abort_task()
AbortTask(r, e) == [ReportError([r EXCEPT !.exit = e]) EXCEPT !.state = "aborted"]

\* What sched_result.cpp makes of the report.
Content(r) == IF r.state = "uploaded" /\ r.exit = "zero" THEN "success" ELSE "error"

-----------------------------------------------------------------------------
(* The poll functions. *)

(***************************************************************************)
(* garbage_collect_always(): a result that was acked goes, with its files, *)
(* unless it still has a task; failed files make the result an error.      *)
(***************************************************************************)
DeleteResult ==
    /\ res' = [res EXCEPT !.state = "gone"]
    /\ inp' = NewInput(inp.big) /\ out' = [NewOutput EXCEPT !.givenUp = out.givenUp]

CheckFiles ==
    LET stillActive == res.acked /\ task.st # "none"
        r1 == IF stillActive THEN AbortTask(res, "error") ELSE res
        t1 == IF stillActive THEN AbortedTask(task) ELSE task
        r2 == IF inp.status = "failed" THEN ReportError(r1) ELSE r1
        uploadError == ~r2.ready /\ out.status = "failed"
        running == uploadError /\ t1.st \in {"executing", "suspended"}
    IN
    /\ res' = IF running THEN AbortTask(r2, "error")
              ELSE IF uploadError THEN ReportError(r2) ELSE r2
    /\ task' = IF running THEN AbortedTask(t1) ELSE t1
    /\ <<res', task'>> # <<res, task>>
    /\ UNCHANGED <<inp, out, slotVars, cpuOff, overwritten>>

GarbageCollect ==
    /\ Turn(Poll.garbage)
    /\ ~Gone
    /\ \/ res.acked /\ task.st = "none" /\ DeleteResult /\ UNCHANGED taskVars
       \/ ~(res.acked /\ task.st = "none") /\ CheckFiles
    /\ UNCHANGED <<stored, rpcVars, saved>> /\ Clean /\ NoFault

(* The deadline passed before the job was started. *)
AbortUnstartedLateJobs ==
    /\ Turn(Poll.garbage)
    /\ res.state \in {"new", "downloading", "downloaded"} /\ ~res.ready /\ task.st = "none"
    /\ res' = AbortInactive(res, "error")
    /\ UNCHANGED <<fileVars, taskVars, rpcVars, saved>> /\ Clean /\ Fault

(* PERS_FILE_XFER_SET::poll() *)
PollPersFileXfers ==
    /\ Turn(Poll.transfers)
    /\ inp' \in PollDownload(inp) /\ out' \in PollUpload(out)
    /\ <<inp', out'>> # <<inp, out>>
    /\ dirty' = (dirty \/ inp.ret # "none" \/ out.ret # "none")
    /\ UNCHANGED <<stored, taskVars, res, rpcVars, saved>> /\ NoFault

CreateAndDeletePersFileXfers ==
    /\ Turn(Poll.scan)
    /\ ~Gone
    /\ inp' = ScanInput(inp) /\ out' = ScanOutput(out)
    /\ <<inp', out'>> # <<inp, out>>
    /\ UNCHANGED <<stored, taskVars, res, rpcVars, saved>> /\ Clean /\ NoFault

(***************************************************************************)
(* ACTIVE_TASK_SET::poll(): a process that has ended is noticed.  Killed   *)
(* processes leave the exit status alone.  The slot of a task that is not  *)
(* to be restarted is cleaned.                                             *)
(***************************************************************************)
PollActiveTasks ==
    /\ Turn(Poll.tasks)
    /\ proc \in How
    /\ proc' = "none"
    /\ IF task.st = "none" THEN UNCHANGED <<task, res, dirty>>
       ELSE /\ task' = ExitedTask(task, proc)
            /\ CASE task.st \in Pending -> res' = res
                 [] proc = "error" /\ task.st \notin Pending ->
                        res' = ReportError([res EXCEPT !.exit = "error"])
                 [] proc = "quit" /\ task.st \notin Pending ->
                        res' \in {res, [res EXCEPT !.exit = "zero"]}
                 [] proc = "finished" /\ task.st \notin Pending ->
                        res' = [res EXCEPT !.exit = "zero"]
            /\ Dirty
    /\ overwritten' = (overwritten \/ (res.exit # "zero" /\ res'.exit = "zero"))
    /\ IF task'.st \in Exited THEN old' = Deleted(old) /\ exposed' = (exposed \/ old # {})
       ELSE UNCHANGED oldVars
    /\ UNCHANGED <<fileVars, cpuOff, rpcVars, saved>> /\ NoFault

(***************************************************************************)
(* handle_finished_apps() and app_finished(): the output file is looked    *)
(* for, and has failed if it is missing (or too large, which is the same). *)
(***************************************************************************)
\* mistake: a missing file is not noticed.
FoundOutput_Unchecked == [out EXCEPT !.status = "present"]
FoundOutput ==
    IF res.exit = "aborted" \/ out.uploaded THEN out
    ELSE [out EXCEPT !.status = IF out.disk THEN "present" ELSE "failed"]

HandleFinishedApps ==
    /\ Turn(Poll.finished)
    /\ task.st \in Exited
    /\ out' = FoundOutput
    /\ res' = [res EXCEPT !.state = IF res.exit = "aborted" THEN "aborted"
                                    ELSE IF res.exit = "error" \/ out'.status = "failed"
                                    THEN "compute_error" ELSE "uploading"]
    /\ task' = NoTask /\ Dirty
    /\ UNCHANGED <<inp, stored, slotVars, cpuOff, overwritten, rpcVars, saved>> /\ NoFault

\* mistake: a file that has no transfer counts as uploaded.
IsUploadDone_NoXfer == out.pfx = "none"
IsUploadDone == out.status = "failed" \/ out.uploaded

\* mistake: a result that was aborted is not marked as ready to report.
UpdateResults_AbortedForgotten ==
    /\ Turn(Poll.results)
    /\ \/ res.state = "new" /\ res' = [res EXCEPT !.state = "downloading"]
       \/ /\ res.state = "downloading" /\ inp.status = "present"
          /\ res' = [res EXCEPT !.state = "downloaded"]
       \/ /\ res.state = "uploading" /\ IsUploadDone
          /\ res' = [res EXCEPT !.state = "uploaded", !.ready = TRUE]
    /\ UNCHANGED <<fileVars, taskVars, rpcVars, saved>> /\ Clean /\ NoFault

UpdateResults ==
    /\ Turn(Poll.results)
    /\ \/ res.state = "new" /\ res' = [res EXCEPT !.state = "downloading"]
       \/ /\ res.state = "downloading" /\ inp.status = "present"
          /\ res' = [res EXCEPT !.state = "downloaded"]
       \/ /\ res.state = "uploading" /\ IsUploadDone
          /\ res' = [res EXCEPT !.state = "uploaded", !.ready = TRUE]
       \/ res.state = "aborted" /\ ~res.ready /\ res' = [res EXCEPT !.ready = TRUE]
    /\ UNCHANGED <<fileVars, taskVars, rpcVars, saved>> /\ Clean /\ NoFault

Runnable == res.state = "downloaded"
ComputingDone(r) ==
    r.ready \/ r.state \in {"compute_error", "uploading", "uploaded", "aborted", "upload_failed"}

\* make_run_list()
Listed(r, t) == [r EXCEPT !.notStarted = ~ComputingDone(r) /\ t.st = "none"]

\* The task was t and becomes u, or could not be started; the result is r.
Become(t, u, r) ==
    \/ task' = u /\ proc' = ProcOf(t, u) /\ res' = r /\ NoFault
    \/ /\ u.st = "executing" /\ t.st \notin {"executing", "suspended"}
       /\ task' = [t EXCEPT !.st = "couldnt_start"] /\ proc' = proc
       /\ res' = ReportError(r) /\ Fault

(* schedule_cpus() and enforce_schedule(), when the job is to run. *)
RunJob ==
    /\ Turn(Poll.schedule)
    /\ ~cpuOff /\ Runnable
    /\ LET t == IF task.st = "none" THEN NewTask ELSE task
           u == [ResumeOrStart(t) EXCEPT !.sched = TRUE]
           r == Listed(res, task)
       IN <<u, r>> # <<task, res>> /\ Become(t, u, r) /\ dirty' = (dirty \/ u.st # t.st)
    /\ UNCHANGED <<fileVars, oldVars, cpuOff, overwritten, rpcVars, saved>>

(* The same when it is not: it cannot, or other jobs go first. *)
PreemptJob ==
    /\ Turn(Poll.schedule)
    /\ ~cpuOff /\ task.st # "none"
    /\ \E t \in Preempted(task) : task' = [t EXCEPT !.sched = FALSE]
    /\ res' = Listed(res, task)
    /\ <<task', res'>> # <<task, res>>
    /\ dirty' = (dirty \/ task'.st # task.st)
    /\ UNCHANGED <<fileVars, slotVars, cpuOff, overwritten, rpcVars, saved>>
    /\ IF Runnable THEN Fault ELSE NoFault

(* suspend_tasks() and resume_tasks() *)
SuspendTasks ==
    /\ Turn(Poll.suspend)
    /\ ~cpuOff /\ cpuOff' = TRUE
    /\ task' \in IF task.st = "executing" THEN Preempted(task) ELSE {task}
    /\ UNCHANGED <<fileVars, slotVars, overwritten, res, rpcVars, saved>> /\ Clean /\ Fault

ResumeTasks ==
    /\ Turn(Poll.suspend)
    /\ cpuOff /\ cpuOff' = FALSE
    /\ IF task.sched THEN Become(task, ResumeOrStart(task), res)
       ELSE UNCHANGED <<task, proc, res>> /\ NoFault
    /\ UNCHANGED <<fileVars, oldVars, overwritten, rpcVars, saved>> /\ Clean

(* PERS_FILE_XFER_SET::suspend() *)
SuspendTransfers ==
    /\ Turn(Poll.network)
    /\ inp' = Suspended(inp) /\ out' = Suspended(out)
    /\ <<inp', out'>> # <<inp, out>>
    /\ UNCHANGED <<stored, taskVars, res, rpcVars, saved>> /\ Clean /\ Fault

(* scheduler_rpc_poll(): a request begins, or its reply is handled. *)
StartRpc ==
    /\ Turn(Poll.rpc)
    /\ rpc = "idle" /\ res.ready /\ ~Gone
    /\ rpc' = Content(res)
    /\ UNCHANGED <<fileVars, taskVars, res, got, saved>> /\ Clean
    /\ IF res.acked THEN Fault ELSE NoFault

\* mistake: a request that failed acknowledges what it reported.
HandleReply_AckOnFailure ==
    /\ Turn(Poll.rpc)
    /\ rpc \in {"acked", "failed"} /\ rpc' = "idle" /\ Dirty
    /\ res' = IF Gone THEN res ELSE [res EXCEPT !.acked = TRUE]
    /\ UNCHANGED <<fileVars, taskVars, got, saved>> /\ NoFault

HandleReply ==
    /\ Turn(Poll.rpc)
    /\ rpc \in {"acked", "failed"} /\ rpc' = "idle" /\ Dirty
    /\ res' = IF rpc = "acked" /\ ~Gone THEN [res EXCEPT !.acked = TRUE] ELSE res
    /\ UNCHANGED <<fileVars, taskVars, got, saved>> /\ NoFault

(***************************************************************************)
(* The reply to some request tells the client to abort the job unless it   *)
(* was started.  What it goes by may be a minute old: the job may have     *)
(* been started since, and then goes on.                                   *)
(***************************************************************************)
AbortIfNotStarted ==
    /\ Turn(Poll.rpc)
    /\ rpc = "idle" /\ ~Gone /\ res.notStarted
    /\ res' = AbortInactive(res, "aborted") /\ res' # res
    /\ Dirty /\ Fault
    /\ UNCHANGED <<fileVars, taskVars, rpcVars, saved>>

(* The pass ends: write_state_file_if_needed() *)
EndPass ==
    /\ turn # 0 \/ dirty
    /\ turn' = 0 /\ dirty' = FALSE /\ saved' = IF dirty THEN Persist ELSE saved
    /\ UNCHANGED <<fileVars, taskVars, res, rpcVars>> /\ NoFault

-----------------------------------------------------------------------------
(* Between two passes: do_async_file_ops(), transfers, processes, the user. *)

others == <<res, rpcVars, dirty, saved>>

DownloadEnds ==
    /\ IO /\ \E r \in Ended, d \in Disk :
                EndDownload(r, d) /\ IF r = "ok" /\ d = "whole" THEN NoFault ELSE Fault
    /\ UNCHANGED <<taskVars, others>>
UploadEnds ==
    /\ IO /\ \E r \in Ended : EndUpload(r) /\ IF r = "ok" THEN NoFault ELSE Fault
    /\ UNCHANGED <<taskVars, others>>

(* ASYNC_COPY::copy_chunk(), the last one: a scheduled task is started. *)
CopyEnds ==
    /\ IO /\ task.copy
    /\ LET t == [task EXCEPT !.copy = FALSE, !.slot = TRUE] IN
       IF t.sched THEN Become(t, Start(t), res)
       ELSE task' = t /\ UNCHANGED <<proc, res>> /\ NoFault
    /\ UNCHANGED <<fileVars, oldVars, cpuOff, overwritten, rpcVars, dirty, saved>>

CopyFails ==
    /\ IO /\ task.copy
    /\ task' = [task EXCEPT !.copy = FALSE, !.st = "couldnt_start"] /\ res' = ReportError(res)
    /\ UNCHANGED <<fileVars, slotVars, cpuOff, overwritten, rpcVars, dirty, saved>> /\ Fault

VerifyEnds ==
    /\ IO /\ inp.verify /\ ~task.copy
    /\ inp' = FinishVerify(inp)
    /\ UNCHANGED <<out, stored, taskVars, others>> /\ NoFault

(* The job's process ends; one that finished has written the output, or not. *)
Finishes(there) ==
    /\ IO /\ EndProcess("finished")
    /\ out' = [out EXCEPT !.disk = there]
    /\ UNCHANGED <<inp, stored, others>>
    /\ IF there THEN NoFault ELSE Fault
Quits ==
    /\ IO /\ EndProcess("quit") /\ UNCHANGED <<fileVars, others>>
    /\ IF task.st \in Pending \/ task.st = "none" THEN NoFault ELSE Fault
Crashes == IO /\ EndProcess("error") /\ UNCHANGED <<fileVars, others>> /\ Fault

(***************************************************************************)
(* A process tries again to lock the slot's lock file, or gives up; one of *)
(* an earlier client ends, and may have written the output.                *)
(***************************************************************************)
slotOnly == <<task, cpuOff, overwritten, others>>
LocksSlot ==
    /\ IO /\ \E p \in Phase \cup How : Locks(p) /\ IF p \in Phase THEN NoFault ELSE Fault
    /\ UNCHANGED <<fileVars, slotOnly>>
OldLocksSlot == IO /\ OldLocks /\ UNCHANGED <<fileVars, slotOnly>> /\ NoFault
OldProcessEnds ==
    /\ IO /\ \E p \in Phase :
          /\ OldEnds(p)
          /\ out' \in {out} \cup IF p \in AtWork THEN {[out EXCEPT !.disk = TRUE]} ELSE {}
    /\ UNCHANGED <<inp, stored, slotOnly>> /\ NoFault

(* The server takes the report in; the reply may be lost, or the request. *)
ServerReplies ==
    /\ IO /\ rpc \in Report
    /\ got' = got \cup {rpc}
    /\ \/ rpc' = "acked" /\ NoFault
       \/ rpc' = "failed" /\ Fault
    /\ UNCHANGED <<fileVars, taskVars, res, dirty, saved>>
RequestLost ==
    /\ IO /\ rpc \in Report /\ rpc' = "failed" /\ Fault
    /\ UNCHANGED <<fileVars, taskVars, res, got, dirty, saved>>

(* The user aborts a transfer, or the job; so does the server the job. *)
AbortTransfer ==
    /\ \/ inp.pfx # "none" /\ inp' = GivenUp(inp) /\ UNCHANGED out
       \/ out.pfx # "none" /\ out' = UploadGivenUp(out) /\ UNCHANGED inp
    /\ IO /\ Dirty /\ Fault
    /\ UNCHANGED <<stored, taskVars, res, rpcVars, saved>>

AbortJob ==
    /\ IO /\ ~Gone
    /\ IF task.st = "none" THEN res' = AbortInactive(res, "aborted") /\ task' = task
       ELSE res' = AbortTask(res, "aborted") /\ task' = AbortedTask(task)
    /\ <<res', task'>> # <<res, task>>
    /\ Dirty /\ Fault
    /\ UNCHANGED <<fileVars, slotVars, cpuOff, overwritten, rpcVars, saved>>

(***************************************************************************)
(* The client dies and is started again; its processes may live on.  The   *)
(* request it was sending may have been received.                          *)
(***************************************************************************)
RestartedResult(r) ==
    IF (r.acked \/ r.ready) /\ r.state \in {"new", "downloading", "downloaded", "uploading"}
    THEN [r EXCEPT !.state = "uploaded"] ELSE r

Restarted ==
    /\ inp' = RestartInput(inp, saved.inp)
    /\ out' = RestartOutput(out, saved.out, saved.uploaded)
    /\ task' = IF saved.task /\ ~saved.res.ready /\ saved.res.state = "downloaded"
               THEN [NewTask EXCEPT !.sched = saved.sched, !.slot = task.slot] ELSE NoTask
    /\ \E b \in {FALSE, task' # NoTask} :
          res' = [RestartedResult(saved.res) EXCEPT !.notStarted = b]

\* Every poll function is due in the first pass: a result that was acked goes in it.
ClientCrash ==
    /\ \/ ~saved.res.acked /\ Restarted
       \/ saved.res.acked /\ DeleteResult /\ task' = NoTask
    /\ Orphaned(task.st # "none" /\ task' # NoTask)
    /\ cpuOff' = FALSE /\ UNCHANGED overwritten
    /\ got' \in {got, got \cup IF turn = Poll.rpc THEN {} ELSE {rpc} \cap Report}
    /\ rpc' = "idle"
    /\ turn' = 0 /\ dirty' = TRUE /\ UNCHANGED <<stored, saved>> /\ Fault

-----------------------------------------------------------------------------
Polls == \/ GarbageCollect \/ PollPersFileXfers \/ CreateAndDeletePersFileXfers
         \/ PollActiveTasks \/ HandleFinishedApps \/ UpdateResults \/ RunJob \/ PreemptJob
         \/ ResumeTasks \/ StartRpc \/ HandleReply \/ EndPass
Between == \/ DownloadEnds \/ UploadEnds
           \/ CopyEnds \/ VerifyEnds \/ \E there \in BOOLEAN : Finishes(there)
           \/ Quits \/ ServerReplies \/ LocksSlot \/ OldLocksSlot \/ OldProcessEnds
Faults == \/ AbortUnstartedLateJobs \/ SuspendTasks \/ SuspendTransfers \/ CopyFails \/ Crashes
          \/ RequestLost \/ AbortIfNotStarted \/ AbortTransfer \/ AbortJob \/ ClientCrash

ClientNext == Polls \/ Between \/ Faults
ClientSpec == ClientInit /\ [][ClientNext]_clientVars

\* The loop goes on, and what it waits for comes to an end.
PollStep == \/ GarbageCollect \/ PollPersFileXfers \/ CreateAndDeletePersFileXfers
            \/ PollActiveTasks \/ HandleFinishedApps \/ UpdateResults \/ RunJob
            \/ (~Runnable /\ PreemptJob)
            \/ ResumeTasks \/ StartRpc \/ HandleReply \/ EndPass

ClientFairSpec == ClientSpec /\ WF_clientVars(PollStep \/ Between)

-----------------------------------------------------------------------------
(***************************************************************************)
(* A file that failed its checksum, is incomplete or is missing is never   *)
(* taken to be present, and the job never runs with it: although big files *)
(* are verified and copied in the background, transfers are aborted and    *)
(* repeated, and a restarted client goes by what its state file says.      *)
(***************************************************************************)
WholeInput ==
    inp.status = "present" \/ task.st \in {"executing", "suspended"} => inp.disk = "whole"

(***************************************************************************)
(* A result is acknowledged, and its files deleted, only after the server  *)
(* received a report of it: whatever requests, replies and state files     *)
(* were lost.                                                              *)
(***************************************************************************)
Acknowledged == res.acked \/ Gone => got # {}

(***************************************************************************)
(* The server is told of a success only if the upload server has the       *)
(* output.  There are two exceptions: an upload that was given up (see     *)
(* FailureReported), and an error status that handle_exited_app() had set  *)
(* to zero.                                                                *)
(***************************************************************************)
SuccessStored == "success" \in got => stored \/ out.givenUp \/ overwritten

(***************************************************************************)
(* A result that waits for its output to be uploaded still has the output, *)
(* or the upload server has it: the file is deleted when its upload ended, *)
(* and a crash goes back to a state file written before that.              *)
(***************************************************************************)
NeverLost ==
    res.state = "uploading" /\ out.status # "failed" => out.disk \/ stored \/ out.givenUp

(***************************************************************************)
(* A client starts a process for the job only when it has none: neither    *)
(* after a copy in the background ended, nor when a task that was told to  *)
(* quit or to abort is to run again.  A process that an earlier client     *)
(* left behind does not work together with it either, because of the lock  *)
(* file (boinc_init_options_general(), "make sure we're the only app       *)
(* running in this slot"), unless that is exposed: when the earlier client *)
(* died the process had not locked the file, or others were left already,  *)
(* or the slot with the file has been given up since.                      *)
(***************************************************************************)
StartedAlone ==
    [][ /\ task'.st = "executing" /\ task.st \notin {"executing", "suspended"} => proc = "none"
        /\ proc' \in AtWork /\ old' \cap AtWork # {} => exposed' ]_clientVars

(***************************************************************************)
(* Once faults cease, the result is reported, acknowledged and deleted,    *)
(* with two exceptions, in which the code waits for ever: the output file  *)
(* was deleted and the state file not written before a crash, and a copy   *)
(* ended while the job was preempted.                                      *)
(***************************************************************************)
OutputLost ==
    res.state = "uploading" /\ out.status = "absent" /\ out.pfx = "none" /\ ~out.uploaded
CopyForgotten == task.st = "copy_pending" /\ ~task.copy
Reported == <>(Gone \/ OutputLost \/ CopyForgotten)

(***************************************************************************)
(* "If one of the output files had an upload failure, mark the result as   *)
(* done and report the error" (garbage_collect_always()): what is reported *)
(* as a success had none, unless the server has the file for all that.     *)
(***************************************************************************)
FailureReported == "success" \in got /\ ~stored => ~out.givenUp
=============================================================================
