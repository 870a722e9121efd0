---------------------------- MODULE Transitioner ----------------------------
(***************************************************************************)
(* The transitioner daemon (sched/transitioner.cpp).  It reads jobs that   *)
(* are due together with their results, keeps that copy in memory while it *)
(* works through the batch, and writes back row by row: timed-out results, *)
(* results that came too late, results of failed jobs, new results,        *)
(* results whose files may go, and last the job itself.  Between any two   *)
(* of these statements other programs change the same rows.                *)
(***************************************************************************)
EXTENDS BackendDB

VARIABLE tr    \* the daemon: its place in handle_wu() and its copies of the rows

TrPc == {"idle", "fetched", "scan", "act"}

TrTypeOK ==
    tr \in [pc : TrPc, wu : WuRow, items : [Result -> ResultRow],
            need_validate : BOOLEAN, error_mask : SUBSET ErrorFlag,
            new : Nat, settled : BOOLEAN]

TrIdle == [pc |-> "idle",
           wu |-> [exists |-> FALSE, need_validate |-> FALSE, canonical_resultid |-> 0,
                   error_mask |-> {}, assimilate_state |-> "INIT",
                   file_delete_state |-> "INIT", target_nresults |-> 0,
                   transition_time |-> "never"],
           items |-> [r \in Result |-> UnusedRow],
           need_validate |-> FALSE, error_mask |-> {}, new |-> 0, settled |-> TRUE]

TrInit == tr = TrIdle

(* DB_TRANSITIONER_ITEM_SET::enumerate(): the job with all its results. *)
TrEnumerate ==
    /\ tr.pc = "idle" /\ wu.exists /\ wu.transition_time = "due"
    /\ tr' = [TrIdle EXCEPT !.pc = "fetched", !.wu = wu, !.items = res]
    /\ UNCHANGED dbVars

-----------------------------------------------------------------------------
(* First scan of handle_wu(): time-outs and late arrivals. *)

CanonicalFilesDeleted ==
    LET c == tr.wu.canonical_resultid
    IN  c # 0 /\ Exists(tr.items[c]) /\ tr.items[c].file_delete_state = "DONE"

\* mistake: a late result is given up although it has been reported
TimedOut_AnyLate == {r \in Result : Exists(tr.items[r]) /\ tr.items[r].late}

TimedOut == {r \in Result : tr.items[r].server_state = "IN_PROGRESS" /\ tr.items[r].late}
Awaiting == {r \in Result : Success(tr.items[r]) /\ tr.items[r].validate_state = "INIT"}
TooLate  == IF CanonicalFilesDeleted THEN Awaiting ELSE {}

\* mistake: two arguments of the statement are exchanged
TrWriteResult_Exchanged(r, item) ==
    /\ SetRow(r, [res[r] EXCEPT !.server_state = item.server_state,
                                !.outcome = item.validate_state,
                                !.validate_state = item.outcome,
                                !.file_delete_state = item.file_delete_state])
    /\ UNCHANGED <<wu, file>>

(***************************************************************************)
(* DB_TRANSITIONER_ITEM_SET::update_result(): four fields of the row are   *)
(* overwritten with those of the copy, whatever the row holds by now.      *)
(***************************************************************************)
TrWriteResult(r, item) ==
    /\ SetRow(r, [res[r] EXCEPT !.server_state = item.server_state,
                                !.outcome = item.outcome,
                                !.validate_state = item.validate_state,
                                !.file_delete_state = item.file_delete_state])
    /\ UNCHANGED <<wu, file>>

TrTimeOut(r) ==
    /\ tr.pc \in {"fetched", "scan"} /\ r \in TimedOut
    /\ LET item == [tr.items[r] EXCEPT !.server_state = "OVER", !.outcome = "NO_REPLY"]
       IN  /\ tr' = [tr EXCEPT !.pc = "scan", !.items[r] = item]
           /\ TrWriteResult(r, item)

TrTooLate(r) ==
    /\ tr.pc \in {"fetched", "scan"} /\ r \in TooLate
    /\ LET item == [tr.items[r] EXCEPT !.validate_state = "TOO_LATE"]
       IN  /\ tr' = [tr EXCEPT !.pc = "scan", !.items[r] = item]
           /\ TrWriteResult(r, item)

-----------------------------------------------------------------------------
(* What the counts of the first scan lead to. *)

Existing  == {r \in Result : Exists(tr.items[r])}
Successes == {r \in Result : Success(tr.items[r]) /\ tr.items[r].validate_state # "INVALID"}
Errors    == {r \in Result : /\ Over(tr.items[r])
                             /\ tr.items[r].outcome \in {"CLIENT_ERROR", "VALIDATE_ERROR"}}
Pending   == {r \in Result : tr.items[r].server_state \in {"UNSENT", "IN_PROGRESS"}}

(* n_new_results_needed, n_new_results_allowed, and the limit on both. *)
Needed  == LET have == Cardinality(Pending) + Cardinality(Successes)
           IN  IF tr.wu.target_nresults > have THEN tr.wu.target_nresults - have ELSE 0

\* mistake: results that failed do not count
NTotal_Live == Cardinality(Pending) + Cardinality(Successes)
NTotal  == Cardinality(Existing)
TooMany == NTotal > MaxTotal \/ (NTotal = MaxTotal /\ Needed > 0)
NewResults == IF NTotal >= MaxTotal THEN 0
              ELSE IF Needed > MaxTotal - NTotal THEN MaxTotal - NTotal ELSE Needed

\* mistake: errors recorded earlier are forgotten
TrErrors_Afresh ==
    IF Cardinality(Errors) > MaxError THEN {"TOO_MANY_ERROR_RESULTS"} ELSE {}

TrErrors ==
    tr.wu.error_mask
      \cup (IF Cardinality(Errors) > MaxError THEN {"TOO_MANY_ERROR_RESULTS"} ELSE {})
      \cup (IF TooMany THEN {"TOO_MANY_TOTAL_RESULTS"} ELSE {})

(***************************************************************************)
(* `settled': delete_delay has passed since the last result was returned.  *)
(***************************************************************************)
Returned == {r \in Result : Over(tr.items[r]) /\ tr.items[r].received}

TrDecide ==
    /\ tr.pc \in {"fetched", "scan"} /\ TimedOut = {} /\ TooLate = {}
    /\ \E settled \in {TRUE} \cup (IF "delay" \in Faults /\ Returned # {} THEN {FALSE} ELSE {}) :
         tr' = [tr EXCEPT !.pc = "act",
                  !.need_validate = @ \/ tr.wu.need_validate
                                      \/ (Awaiting # {} /\ Cardinality(Successes) >= MinQuorum),
                  !.error_mask = TrErrors,
                  !.new = IF TrErrors = {} /\ tr.wu.canonical_resultid = 0
                          THEN NewResults ELSE 0,
                  !.settled = settled]
    /\ UNCHANGED dbVars

-----------------------------------------------------------------------------
(* A job with an error: nothing more is sent, nothing more is validated. *)


\* mistake: a result in progress is called off like an unsent one
Unneeded_Pending == Pending
Unneeded  == {r \in Result : tr.items[r].server_state = "UNSENT"}

\* mistake: every successful result is marked, checked or not
Unchecked_All == {r \in Result : Success(tr.items[r]) /\ tr.items[r].validate_state # "NO_CHECK"}
Unchecked == {r \in Result : /\ Success(tr.items[r])
                             /\ tr.items[r].validate_state \in {"INIT", "INCONCLUSIVE"}}

\* mistake: unsent results of a failed job are left to be sent
ToClose_KeepsUnsent == IF tr.error_mask # {} THEN Unchecked ELSE {}
ToClose   == IF tr.error_mask # {} THEN Unneeded \cup Unchecked ELSE {}

TrClose(r) ==
    /\ tr.pc = "act" /\ r \in ToClose
    /\ LET item == IF r \in Unneeded
                   THEN [tr.items[r] EXCEPT !.server_state = "OVER", !.outcome = "DIDNT_NEED"]
                   ELSE [tr.items[r] EXCEPT !.validate_state = "NO_CHECK"]
       IN  /\ tr' = [tr EXCEPT !.items[r] = item]
           /\ TrWriteResult(r, item)

(* insert_batch(): one statement inserts all new results, under fresh ids. *)
Fresh == {r \in Result : res[r].server_state = "NONE"}
NextIds(n) == {r \in Fresh : Cardinality({q \in Fresh : q < r}) < n}

TrCreate ==
    /\ tr.pc = "act" /\ ToClose = {} /\ tr.new > 0 /\ tr.new <= Cardinality(Fresh)
    /\ res' = [r \in Result |-> IF r \in NextIds(tr.new) THEN NewRow ELSE res[r]]
    /\ tr' = [tr EXCEPT !.new = 0]
    /\ UNCHANGED <<wu, file>>

-----------------------------------------------------------------------------
(* Second scan: assimilation and file deletion. *)

AllOverAndValidated ==
    \A r \in Result : Exists(tr.items[r]) =>
        /\ Over(tr.items[r])
        /\ tr.items[r].outcome = "SUCCESS" => tr.items[r].validate_state # "INIT"
        /\ tr.items[r].outcome = "NO_REPLY" => tr.items[r].late

AllOverAndReadyToAssimilate ==
    \A r \in Result : Exists(tr.items[r]) =>
        /\ Over(tr.items[r])
        /\ tr.items[r].outcome = "SUCCESS" => tr.items[r].validate_state # "INIT"

\* mistake: the job need not have a canonical result
TrAssimilate_NoCanonical ==
    IF tr.wu.assimilate_state = "INIT" /\ (tr.error_mask # {} \/ AllOverAndReadyToAssimilate)
    THEN "READY" ELSE tr.wu.assimilate_state

TrAssimilate ==
    IF /\ tr.wu.assimilate_state = "INIT"
       /\ \/ tr.error_mask # {}
          \/ AllOverAndReadyToAssimilate /\ tr.wu.canonical_resultid # 0
    THEN "READY" ELSE tr.wu.assimilate_state

\* mistake: the job need not have been assimilated
DeletableNow_Early == TrAssimilate # "INIT" /\ tr.settled
DeletableNow == TrAssimilate = "DONE" /\ tr.settled

\* mistake: the validator need not have seen the result
Deletable_Unseen ==
    {r \in Result : /\ DeletableNow /\ Exists(tr.items[r])
                    /\ tr.items[r].file_delete_state = "INIT"
                    /\ tr.items[r].outcome \in {"CLIENT_ERROR", "SUCCESS"}
                    /\ r = tr.wu.canonical_resultid => AllOverAndValidated}

(* Results whose output files may go; the canonical one only with the last. *)
Deletable ==
    IF DeletableNow
    THEN {r \in Result :
            LET item == tr.items[r] IN
            /\ Exists(item) /\ item.file_delete_state = "INIT"
            /\ \/ item.outcome = "CLIENT_ERROR"
               \/ item.outcome = "SUCCESS" /\ item.validate_state # "INIT"
            /\ r = tr.wu.canonical_resultid => AllOverAndValidated}
    ELSE {}

TrDelete(r) ==
    /\ tr.pc = "act" /\ ToClose = {} /\ tr.new = 0 /\ r \in Deletable
    /\ LET item == [tr.items[r] EXCEPT !.file_delete_state = "READY"]
       IN  /\ tr' = [tr EXCEPT !.items[r] = item]
           /\ TrWriteResult(r, item)

\* mistake: results may still be in progress
TrFileDelete_NotAllOver ==
    IF DeletableNow /\ tr.wu.file_delete_state = "INIT" THEN "READY" ELSE tr.wu.file_delete_state

TrFileDelete ==
    IF DeletableNow /\ AllOverAndValidated /\ tr.wu.file_delete_state = "INIT"
    THEN "READY" ELSE tr.wu.file_delete_state

\* mistake: no safety net for a job without outcome
TrTransitionTime_NoSafetyNet ==
    IF \/ \E r \in Result : tr.items[r].server_state = "IN_PROGRESS"
       \/ TrAssimilate = "DONE" /\ ~tr.settled
    THEN "wait" ELSE "never"

TrTransitionTime ==
    IF \/ tr.wu.canonical_resultid = 0 /\ tr.error_mask = {}
       \/ \E r \in Result : tr.items[r].server_state = "IN_PROGRESS"
       \/ TrAssimilate = "DONE" /\ ~tr.settled
    THEN "wait" ELSE "never"

(***************************************************************************)
(* DB_TRANSITIONER_ITEM_SET::update_workunit(): only the fields that       *)
(* differ from the copy that was read are written.                         *)
(***************************************************************************)
Changed(new, old, current) == IF new # old THEN new ELSE current

TrUpdateWorkunit ==
    /\ tr.pc = "act" /\ ToClose = {} /\ tr.new = 0 /\ Deletable = {}
    /\ SetWu([wu EXCEPT
         !.need_validate = Changed(tr.need_validate, tr.wu.need_validate, @),
         !.error_mask = Changed(tr.error_mask, tr.wu.error_mask, @),
         !.assimilate_state = Changed(TrAssimilate, tr.wu.assimilate_state, @),
         !.file_delete_state = Changed(TrFileDelete, tr.wu.file_delete_state, @),
         !.transition_time = TrTransitionTime])
    /\ tr' = TrIdle
    /\ UNCHANGED <<res, file>>

(* exit(1) on an error, or a kill: the copy in memory is lost. *)
TrCrash ==
    /\ "crash" \in Faults /\ tr.pc # "idle"
    /\ tr' = TrIdle /\ UNCHANGED dbVars

TrStep ==
    \/ TrEnumerate \/ TrDecide \/ TrCreate \/ TrUpdateWorkunit
    \/ \E r \in Result : TrTimeOut(r) \/ TrTooLate(r) \/ TrClose(r) \/ TrDelete(r)

TrNext == TrStep \/ TrCrash
=============================================================================
