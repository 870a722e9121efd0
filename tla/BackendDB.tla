----------------------------- MODULE BackendDB -----------------------------
(***************************************************************************)
(* The tables every program of the BOINC server back end reads and writes: *)
(* one row of `workunit', its rows of `result', and the output files of    *)
(* those results in the upload directory.  The programs never hold a lock  *)
(* or a transaction over more than one SQL statement, so every action of   *)
(* the modules that extend this one performs at most one statement.        *)
(*                                                                         *)
(* Times are abstracted to what the programs compare: transition_time is   *)
(* "due" (in the past), "wait" (some time to come) or "never" (INT_MAX);   *)
(* `late' says that report_deadline has passed; `received' says that       *)
(* received_time is not 0.                                                 *)
(***************************************************************************)
EXTENDS Naturals, FiniteSets

CONSTANTS
    NIds,            \* number of result ids the model has room for
    MinQuorum,       \* workunit.min_quorum
    InitTarget,      \* workunit.target_nresults when the job is created
    MaxError,        \* workunit.max_error_results
    MaxTotal,        \* workunit.max_total_results
    MaxSuccess,      \* workunit.max_success_results
    Answers,         \* equivalence classes of output files
    Faults           \* which failures the run injects

FaultKinds == {"transient", "badfile", "host", "credit", "unlink", "reply",
               "crash", "detach", "cancel", "defer", "delay", "purge"}

(***************************************************************************)
(* The limits create_work() insists on, and room for every result the      *)
(* transitioner may create.                                                *)
(***************************************************************************)
ASSUME BackendAssumption ==
    /\ {NIds, MinQuorum, InitTarget, MaxError, MaxTotal, MaxSuccess} \subseteq Nat
    /\ InitTarget <= MaxSuccess /\ MaxSuccess <= MaxTotal /\ MaxError <= MaxTotal
    /\ MaxTotal < NIds
    /\ "none" \notin Answers
    /\ Faults \subseteq FaultKinds

Result == 1 .. NIds

ServerState   == {"NONE", "UNSENT", "IN_PROGRESS", "OVER", "PURGED"}
Outcome       == {"INIT", "SUCCESS", "CLIENT_ERROR", "NO_REPLY", "DIDNT_NEED",
                  "VALIDATE_ERROR", "CLIENT_DETACHED"}
ValidateState == {"INIT", "VALID", "INVALID", "NO_CHECK", "INCONCLUSIVE", "TOO_LATE"}
FileDelete    == {"INIT", "READY", "DONE", "ERROR"}
Assimilate    == {"INIT", "READY", "DONE"}
ErrorFlag     == {"TOO_MANY_ERROR_RESULTS", "TOO_MANY_SUCCESS_RESULTS",
                  "TOO_MANY_TOTAL_RESULTS", "CANCELLED", "NO_CANONICAL_RESULT"}
TransitionTime == {"due", "wait", "never"}

ResultRow == [server_state : ServerState, outcome : Outcome,
              validate_state : ValidateState, file_delete_state : FileDelete,
              late : BOOLEAN, received : BOOLEAN]

WuRow == [exists : BOOLEAN, need_validate : BOOLEAN,
          canonical_resultid : Result \cup {0}, error_mask : SUBSET ErrorFlag,
          assimilate_state : Assimilate, file_delete_state : FileDelete,
          target_nresults : Nat, transition_time : TransitionTime]

VARIABLES
    wu,      \* the workunit row
    res,     \* the result rows; "NONE" is an id never used, "PURGED" a deleted row
    file     \* the output file of each result: "none", or its content

dbVars == <<wu, res, file>>

DBTypeOK ==
    /\ wu \in WuRow
    /\ res \in [Result -> ResultRow]
    /\ file \in [Result -> Answers \cup {"none"}]

(* A row of the table, in the database or in a program's copy of it. *)
Exists(row) == row.server_state \in {"UNSENT", "IN_PROGRESS", "OVER"}
Over(row)   == row.server_state = "OVER"
Success(row) == Over(row) /\ row.outcome = "SUCCESS"

UnusedRow == [server_state |-> "NONE", outcome |-> "INIT", validate_state |-> "INIT",
              file_delete_state |-> "INIT", late |-> FALSE, received |-> FALSE]

(* initialize_result(): the row of a result that is created. *)
NewRow == [UnusedRow EXCEPT !.server_state = "UNSENT"]

(* create_work(): the job starts without results and due for a transition. *)
DBInit ==
    /\ wu = [exists |-> TRUE, need_validate |-> FALSE, canonical_resultid |-> 0,
             error_mask |-> {}, assimilate_state |-> "INIT",
             file_delete_state |-> "INIT", target_nresults |-> InitTarget,
             transition_time |-> "due"]
    /\ res = [r \in Result |-> UnusedRow]
    /\ file = [r \in Result |-> "none"]

(***************************************************************************)
(* UPDATE ... WHERE id=r changes nothing when the row is not there.        *)
(***************************************************************************)
SetRow(r, row) == res' = IF Exists(res[r]) THEN [res EXCEPT ![r] = row] ELSE res
SetWu(row)     == wu' = IF wu.exists THEN row ELSE wu

(* transition_time = min(transition_time, a time to come). *)
NotLaterThan(t) == IF t = "never" THEN "wait" ELSE t
=============================================================================
