------------------------------- MODULE Tasks -------------------------------
(***************************************************************************)
(* The client's task of one job: the ACTIVE_TASK, and what becomes of it   *)
(* and of the process in its slot.                                         *)
(***************************************************************************)
EXTENDS Transfers, Slot

VARIABLES
    task,     \* the ACTIVE_TASK
    cpuOff,   \* tasks_suspended: computing is suspended
    overwritten  \* the exit status of an error or an abort was set to zero (history)

taskVars == <<task, slotVars, cpuOff, overwritten>>

\* States in which the process has exited, says common_defs.h.
Exited == {"exited", "aborted", "couldnt_start"}

\* sched: CPU_SCHED_SCHEDULED; slot: the input file is in the slot directory;
\* copy: an ASYNC_COPY is in the queue.
TaskRec == [st : {"none", "uninitialized", "executing", "suspended", "abort_pending",
                  "quit_pending", "copy_pending"} \cup Exited,
            sched : BOOLEAN, slot : BOOLEAN, copy : BOOLEAN]

TasksTypeOK ==
    task \in TaskRec /\ SlotTypeOK /\ cpuOff \in BOOLEAN /\ overwritten \in BOOLEAN

NoTask == [st |-> "none", sched |-> FALSE, slot |-> FALSE, copy |-> FALSE]
NewTask == [NoTask EXCEPT !.st = "uninitialized"]

(***************************************************************************)
(* ACTIVE_TASK::start(), if nothing fails.  The copy of a big input file   *)
(* is left to the background.                                              *)
(***************************************************************************)
Start(t) ==
    IF t.copy THEN t
    ELSE IF inp.big /\ ~t.slot THEN [t EXCEPT !.st = "copy_pending", !.copy = TRUE]
    ELSE [t EXCEPT !.st = "executing", !.slot = TRUE]

\* The process there is when a task that was t has become u.
ProcOf(t, u) ==
    IF u.st = "executing" /\ t.st \notin {"executing", "suspended"} THEN Started ELSE proc

\* resume_or_start()
ResumeOrStart(t) ==
    CASE t.st = "uninitialized" -> Start(t)
      [] t.st = "suspended" -> [t EXCEPT !.st = "executing"]
      [] OTHER -> t

\* preempt(): what is preempted stays in memory, or is asked to quit.
Preempted(t) ==
    CASE t.st = "executing" -> {[t EXCEPT !.st = "suspended"], [t EXCEPT !.st = "quit_pending"]}
      [] t.st = "suspended" -> {t, [t EXCEPT !.st = "quit_pending"]}
      [] OTHER -> {t}

\* What abort_task() does to the task.
AbortedTask(t) ==
    [t EXCEPT !.st = IF @ \in {"executing", "suspended"} THEN "abort_pending" ELSE "aborted"]

(***************************************************************************)
(* handle_exited_app(): what the task becomes when its process has exited  *)
(* in the way how.  If it will not restart, its slot is cleaned.           *)
(***************************************************************************)
Pending == {"abort_pending", "quit_pending"}
ExitedState(st, how) ==
    CASE st = "abort_pending" -> "aborted"
      [] st = "quit_pending" -> "uninitialized"
      [] st \notin Pending /\ how = "quit" -> "uninitialized"
      [] OTHER -> "exited"
ExitedTask(t, how) ==
    LET st == ExitedState(t.st, how) IN
    [t EXCEPT !.st = st, !.slot = @ /\ st = "uninitialized"]

(***************************************************************************)
(* The process ends.  One that was told to quit or to abort does, if need  *)
(* be because it is killed when it has not after some time.                *)
(***************************************************************************)
EndProcess(how) ==
    /\ proc \in IF how = "finished" THEN AtWork ELSE Phase
    /\ proc' = how /\ old' \in OldAfter(proc)
    /\ task.st = "suspended" => how = "quit"
    /\ UNCHANGED <<task, exposed, cpuOff, overwritten>>
=============================================================================
