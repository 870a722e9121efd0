------------------------------ MODULE Backend ------------------------------
(***************************************************************************)
(* The server back end: all programs at work on the same job at once.      *)
(***************************************************************************)
EXTENDS Transitioner, Validator, Scheduler, Assimilator, FileDeleter

CONSTANTS
    MaxBusy,     \* how many programs may be in the middle of their work on the job
    Programs     \* which of assimilator, file deleter and purger get round to it

VARIABLE cancel   \* an operator cancelling the job: "no", "half-way", "yes"

vars == <<dbVars, tr, va, schedVars, as, deleterVars, cancel>>

TypeOK ==
    /\ DBTypeOK /\ TrTypeOK /\ VaTypeOK /\ SchedTypeOK /\ AsTypeOK /\ FdTypeOK
    /\ cancel \in {"no", "half-way", "yes"}

Init ==
    /\ DBInit /\ TrInit /\ VaInit /\ SchedInit /\ AsInit /\ FdInit
    /\ cancel = "no"

-----------------------------------------------------------------------------
(* cancel_jobs(): first the unsent results, then the job. *)

CancelResults ==
    /\ "cancel" \in Faults /\ cancel = "no"
    /\ res' = [r \in Result |-> IF res[r].server_state = "UNSENT"
                                THEN [res[r] EXCEPT !.server_state = "OVER", !.outcome = "DIDNT_NEED"]
                                ELSE res[r]]
    /\ cancel' = "half-way"
    /\ UNCHANGED <<wu, file, tr, va, schedVars, as, deleterVars>>

CancelJob ==
    /\ cancel = "half-way" /\ cancel' = "yes"
    /\ SetWu([wu EXCEPT !.error_mask = @ \cup {"CANCELLED"}, !.transition_time = "due"])
    /\ UNCHANGED <<res, file, tr, va, schedVars, as, deleterVars>>

-----------------------------------------------------------------------------
(* Time passes. *)

(***************************************************************************)
(* A deadline passes: also in the copy of a transitioner that has yet to   *)
(* look at it.                                                             *)
(***************************************************************************)
DeadlinePasses(r) ==
    /\ ~res[r].late
    /\ \/ res[r].server_state = "IN_PROGRESS"
       \/ Over(res[r]) /\ res[r].outcome = "NO_REPLY"
    /\ res' = [res EXCEPT ![r].late = TRUE]
    /\ tr' = IF tr.pc = "fetched" THEN [tr EXCEPT !.items[r].late = TRUE] ELSE tr
    /\ UNCHANGED <<wu, file, va, schedVars, as, deleterVars, cancel>>

(***************************************************************************)
(* transition_time comes: a deadline, the end of delete_delay, a retry, or *)
(* the safety net of ten days, which may come before any of them.          *)
(***************************************************************************)
TransitionTimeComes ==
    /\ wu.exists /\ wu.transition_time = "wait"
    /\ wu' = [wu EXCEPT !.transition_time = "due"]
    /\ UNCHANGED <<res, file, tr, va, schedVars, as, deleterVars, cancel>>

-----------------------------------------------------------------------------
(* How many programs are in the middle of handling the job. *)
One(busy) == IF busy THEN 1 ELSE 0
BusyCount ==
    One(tr.pc # "idle") + One(va.pc # "idle") + One(as.pc # "idle")
      + One(fd.pc # "idle") + One(purge.pc # "idle") + One(cancel = "half-way")
      + Cardinality({r \in Result : cgi[r].pc # "idle"})
      + Cardinality({r \in Result : detach[r] # "idle"})

Step ==
    \/ TrNext /\ UNCHANGED <<va, schedVars, as, deleterVars, cancel>>
    \/ VaNext /\ UNCHANGED <<tr, schedVars, as, deleterVars, cancel>>
    \/ SchedNext /\ UNCHANGED <<tr, va, as, deleterVars, cancel>>
    \/ "assimilator" \in Programs /\ AsNext /\ UNCHANGED <<tr, va, schedVars, deleterVars, cancel>>
    \/ "file_deleter" \in Programs /\ FdNext /\ UNCHANGED <<tr, va, schedVars, as, cancel>>
    \/ "purger" \in Programs /\ PurgeNext /\ UNCHANGED <<tr, va, schedVars, as, cancel>>
    \/ CancelResults \/ CancelJob \/ TransitionTimeComes
    \/ \E r \in Result : DeadlinePasses(r)

Next == Step /\ BusyCount' <= MaxBusy

Spec == Init /\ [][Next]_vars

(***************************************************************************)
(* Fairness.  Every daemon runs for ever and a request that is served is   *)
(* served to the end; hosts ask for work; time passes.  Nothing makes a    *)
(* host report.  MaxBusy is no part of the code, so whoever waits for      *)
(* others to finish gets its turn: strong fairness.                        *)
(***************************************************************************)
Turn(A) == A /\ BusyCount' <= MaxBusy

TrTurn == Turn(TrStep /\ UNCHANGED <<va, schedVars, as, deleterVars, cancel>>)
VaTurn == Turn(VaStep /\ UNCHANGED <<tr, schedVars, as, deleterVars, cancel>>)
AsTurn == Turn("assimilator" \in Programs /\ AsStep /\ UNCHANGED <<tr, va, schedVars, deleterVars, cancel>>)
FdTurn == Turn("file_deleter" \in Programs /\ FdStep /\ UNCHANGED <<tr, va, schedVars, as, cancel>>)
SendTurn(r) == Turn((SendCheck(r) \/ CgiStep(r)) /\ UNCHANGED <<tr, va, as, deleterVars, cancel>>)

Fairness ==
    /\ SF_vars(TrTurn) /\ SF_vars(VaTurn) /\ SF_vars(AsTurn) /\ SF_vars(FdTurn)
    /\ \A r \in Result : SF_vars(SendTurn(r)) /\ WF_vars(DeadlinePasses(r))
    /\ SF_vars(Turn(CancelJob)) /\ WF_vars(TransitionTimeComes)

FairSpec == Spec /\ Fairness

-----------------------------------------------------------------------------
(***************************************************************************)
(* What holds however the programs overlap.                                *)
(***************************************************************************)

(***************************************************************************)
(* The rows follow the life the job is promised: no result is sent again   *)
(* once it is over or unsent once it was sent, although transitioner,      *)
(* validator and schedulers write server_state from copies read earlier;   *)
(* and the canonical result is an ended one, chosen once and for all.      *)
(***************************************************************************)
Life == INSTANCE JobLife WITH
          Ids <- Result, canonical <- wu.canonical_resultid,
          life <- [r \in Result |-> res[r].server_state]
ImplementsJobLife == Life!LifeSpec

(***************************************************************************)
(* The copies the daemons work from may be stale, yet what they write is   *)
(* never wrong about how far a result has come: a row with an outcome is   *)
(* over, the validator only has rows to write that are over, what it read  *)
(* as over still is, and it knows of the canonical result if there is one. *)
(***************************************************************************)
Ended(r) == res[r].server_state \in {"OVER", "PURGED"}
Sound(row) == row.outcome # "INIT" => Over(row)

CopiesConsistent ==
    /\ \A r \in Result : Sound(res[r]) /\ Sound(tr.items[r]) /\ Sound(va.items[r])
    /\ \A r \in va.todo : Over(va.items[r])
    /\ va.pc = "fetched" => \A r \in Result : Over(va.items[r]) => Ended(r)
    /\ \A c \in {wu.canonical_resultid, va.wu.canonical_resultid} \ {0} : Ended(c)
    /\ va.pc # "idle" /\ wu.canonical_resultid # 0
         => va.wu.canonical_resultid = wu.canonical_resultid

(***************************************************************************)
(* The job never has more instances than max_total_results, however often  *)
(* the transitioner looks at it and wherever it is stopped.                *)
(***************************************************************************)
TotalBound == Cardinality({r \in Result : Exists(res[r])}) <= MaxTotal

(***************************************************************************)
(* A host that is told that its report arrived forgets the result: by then *)
(* the server has it down as over.                                         *)
(***************************************************************************)
AckedRecorded == \A r \in Result : client[r] = "acked" => Ended(r)

(***************************************************************************)
(* The output file of a successful result the validator has not looked at  *)
(* is still there, whatever the file deleter was told about other results. *)
(***************************************************************************)
AwaitingFileKept ==
    \A r \in Result : Success(res[r]) /\ res[r].validate_state = "INIT" => file[r] # "none"

(***************************************************************************)
(* Results the validator declared valid have equivalent output files, also *)
(* when one was compared in check_set() and another with check_pair().     *)
(***************************************************************************)
ValidAgree ==
    \A r, q \in Result :
      /\ res[r].validate_state = "VALID" /\ res[q].validate_state = "VALID"
      /\ file[r] # "none" /\ file[q] # "none"
      => file[r] = file[q]

(***************************************************************************)
(* When a canonical result is chosen, more than half of a quorum of        *)
(* results that hosts have reported agree with it.                         *)
(***************************************************************************)
QuorumAgrees ==
    [][wu.canonical_resultid = 0 /\ wu'.canonical_resultid # 0 =>
         Cardinality({r \in Result : /\ res[r].received
                                     /\ file[r] = file[wu'.canonical_resultid]})
           > MinQuorum \div 2]_vars

(***************************************************************************)
(* file_delete_state DONE means what it says: the files are gone, whether  *)
(* or not an earlier attempt failed or was interrupted.                    *)
(***************************************************************************)
DeletedMeansGone ==
    /\ wu.exists /\ wu.file_delete_state = "DONE" => ~inputs
    /\ \A r \in Result : res[r].file_delete_state = "DONE" => file[r] = "none"

-----------------------------------------------------------------------------
(***************************************************************************)
(* What holds when a program's work on the job is not overlapped by that   *)
(* of another (MaxBusy = 1), and what overlapping breaks.                  *)
(***************************************************************************)

(***************************************************************************)
(* The assimilator is never handed a job that has neither a canonical      *)
(* result nor an error, although validator and transitioner both set       *)
(* assimilate_state.                                                       *)
(***************************************************************************)
ReadyHasReason ==
    wu.assimilate_state # "INIT" => wu.canonical_resultid # 0 \/ wu.error_mask # {}

(***************************************************************************)
(* A failed job the transitioner has left for good has no unsent result a  *)
(* scheduler could still pick up.                                          *)
(***************************************************************************)
FailedNotSent ==
    wu.error_mask # {} /\ wu.transition_time = "never"
      => \A r \in Result : res[r].server_state # "UNSENT"

(***************************************************************************)
(* A successful result stays one unless the validator rejects it: neither  *)
(* a time-out nor a second report nor a detached host replaces it.         *)
(***************************************************************************)
SuccessKept ==
    [][\A r \in Result : Success(res[r]) =>
         \/ Success(res'[r])
         \/ res'[r].outcome = "VALIDATE_ERROR" /\ res'[r].validate_state = "INVALID"
         \/ res'[r].server_state = "PURGED"]_vars

(***************************************************************************)
(* What the validator found valid stays valid: also when the job fails or  *)
(* is cancelled afterwards.                                                *)
(***************************************************************************)
ValidKept ==
    [][\A r \in Result : res[r].validate_state = "VALID" =>
         res'[r].validate_state = "VALID" \/ res'[r].server_state = "PURGED"]_vars

(***************************************************************************)
(* A result called off as not needed was never given to a host.            *)
(***************************************************************************)
DidntNeedNotSent ==
    \A r \in Result : res[r].outcome = "DIDNT_NEED" => client[r] = "none"

(***************************************************************************)
(* A host that was told its report arrived finds it on record, unless the  *)
(* row is archived: no report is acknowledged and then lost.               *)
(***************************************************************************)
AckedReceived ==
    \A r \in Result : client[r] = "acked" => res[r].received \/ res[r].server_state = "PURGED"

(***************************************************************************)
(* An error of the job, once recorded, stays recorded: a cancelled job     *)
(* stays cancelled whatever the daemons write to error_mask.               *)
(***************************************************************************)
ErrorsSticky == [][wu.error_mask \subseteq wu'.error_mask]_vars

(***************************************************************************)
(* The input files are there as long as a host may still be given the job  *)
(* or is working on it.                                                    *)
(***************************************************************************)
InputsKept ==
    ~inputs => \A r \in Result : res[r].server_state \notin {"UNSENT", "IN_PROGRESS"}

(***************************************************************************)
(* The output file of the canonical result is there until the assimilator  *)
(* is done with it.                                                        *)
(***************************************************************************)
CanonicalFileKept ==
    wu.canonical_resultid # 0 /\ wu.assimilate_state # "DONE" /\ wu.error_mask = {}
      => file[wu.canonical_resultid] # "none"

(***************************************************************************)
(* Once the job has its canonical result no further result waits to be     *)
(* sent for it.                                                            *)
(***************************************************************************)
DecidedNotSent ==
    wu.canonical_resultid # 0 /\ wu.exists
      => \A r \in Result : res[r].server_state # "UNSENT"

(***************************************************************************)
(* No result outlives its job in the database: the purger removes the      *)
(* workunit last, and nobody creates a result for it in the meantime.      *)
(***************************************************************************)
NoOrphans == ~wu.exists => \A r \in Result : ~Exists(res[r])

(***************************************************************************)
(* No lost wake-up: a job the transitioner will not look at again by       *)
(* itself is in another program's hands, has its files deleted, or has a   *)
(* report to come that will wake the transitioner.  (For quorums up to     *)
(* four: see NoWakeUpLost in Wakeup_proofs.)                               *)
(***************************************************************************)
NotForgotten ==
    wu.exists /\ wu.transition_time = "never" /\ BusyCount = 0 =>
      \/ wu.need_validate \/ wu.assimilate_state = "READY" \/ wu.file_delete_state # "INIT"
      \/ \E r \in Result : client[r] \in {"computing", "success", "error"}

(***************************************************************************)
(* A result that was given up is taken in if its report comes after all.   *)
(***************************************************************************)
LateReportKept ==
    [][\A r \in Result :
         /\ Over(res[r]) /\ res[r].outcome \in {"NO_REPLY", "CLIENT_DETACHED"}
         /\ client[r] \in {"success", "error"} /\ client'[r] = "acked"
         => res'[r].outcome \in {"SUCCESS", "CLIENT_ERROR"}]_vars

-----------------------------------------------------------------------------
(***************************************************************************)
(* Every job is assimilated, with a result or with an error, even if hosts *)
(* never report and wake-ups are overwritten: the safety net of            *)
(* transition_time sees to it.                                             *)
(***************************************************************************)
Assimilated == <>(wu.assimilate_state = "DONE")

(***************************************************************************)
(* In the end the input files of every job are deleted.                    *)
(***************************************************************************)
Cleaned == <>(wu.file_delete_state = "DONE")
=============================================================================
