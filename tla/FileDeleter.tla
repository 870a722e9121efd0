---------------------------- MODULE FileDeleter ----------------------------
(***************************************************************************)
(* The file deleter and the purger (sched/file_deleter.cpp,                *)
(* sched/db_purge.cpp): the end of a job.  Id 0 stands for the workunit    *)
(* and its input files.                                                    *)
(***************************************************************************)
EXTENDS BackendDB

VARIABLES
    fd,       \* the file deleter: the id it works on, and how deletion went
    purge,    \* the purger and the results it has yet to delete
    inputs    \* the input files of the job are in the download directory

deleterVars == <<fd, purge, inputs>>

FdTypeOK ==
    /\ fd \in [pc : {"idle", "fetched", "done", "failed"}, id : Result \cup {0}]
    /\ purge \in [pc : {"idle", "fetched", "results"}, todo : SUBSET Result]
    /\ inputs \in BOOLEAN

FdIdle == [pc |-> "idle", id |-> 0]
PurgeIdle == [pc |-> "idle", todo |-> {}]
FdInit == fd = FdIdle /\ purge = PurgeIdle /\ inputs = TRUE

(* do_pass(): READY, or ERROR in the hourly retry. *)
FdEnumerate ==
    /\ fd.pc = "idle"
    /\ \E id \in Result \cup {0} :
         /\ IF id = 0 THEN wu.exists /\ wu.file_delete_state \in {"READY", "ERROR"}
            ELSE Exists(res[id]) /\ res[id].file_delete_state \in {"READY", "ERROR"}
         /\ fd' = [pc |-> "fetched", id |-> id]
    /\ UNCHANGED <<dbVars, purge, inputs>>

(* wu_delete_files(), result_delete_files(): a file already gone is no error. *)
FdUnlink ==
    /\ fd.pc = "fetched"
    /\ \/ /\ fd' = [fd EXCEPT !.pc = "done"]
          /\ IF fd.id = 0 THEN inputs' = FALSE /\ UNCHANGED file
             ELSE file' = [file EXCEPT ![fd.id] = "none"] /\ UNCHANGED inputs
       \/ /\ "unlink" \in Faults /\ fd' = [fd EXCEPT !.pc = "failed"]
          /\ UNCHANGED <<file, inputs>>
    /\ UNCHANGED <<wu, res, purge>>

\* mistake: the outcome of the deletion is ignored
FdOutcome_Ignored == "DONE"
FdOutcome == IF fd.pc = "done" THEN "DONE" ELSE "ERROR"

FdUpdate ==
    /\ fd.pc \in {"done", "failed"}
    /\ IF fd.id = 0
       THEN SetWu([wu EXCEPT !.file_delete_state = FdOutcome]) /\ UNCHANGED res
       ELSE SetRow(fd.id, [res[fd.id] EXCEPT !.file_delete_state = FdOutcome]) /\ UNCHANGED wu
    /\ fd' = FdIdle
    /\ UNCHANGED <<file, purge, inputs>>

FdCrash ==
    /\ "crash" \in Faults /\ fd.pc # "idle"
    /\ fd' = FdIdle /\ UNCHANGED <<dbVars, purge, inputs>>

-----------------------------------------------------------------------------
(* db_purge: the input files are deleted, so the rows can be archived. *)

PurgeEnumerate ==
    /\ purge.pc = "idle" /\ wu.exists /\ wu.file_delete_state = "DONE"
    /\ purge' = [purge EXCEPT !.pc = "fetched"]
    /\ UNCHANGED <<dbVars, fd, inputs>>

(* purge_and_archive_results(): the results as they are listed now ... *)
PurgeQuery ==
    /\ purge.pc = "fetched"
    /\ purge' = [pc |-> "results", todo |-> {r \in Result : Exists(res[r])}]
    /\ UNCHANGED <<dbVars, fd, inputs>>

(* ... are deleted row by row. *)
PurgeResult ==
    /\ purge.pc = "results"
    /\ \E r \in purge.todo :
         /\ purge' = [purge EXCEPT !.todo = @ \ {r}]
         /\ SetRow(r, [UnusedRow EXCEPT !.server_state = "PURGED"])
    /\ UNCHANGED <<wu, file, fd, inputs>>

(* A query fails: the rest of the results is skipped, the job is not. *)
PurgeSkip ==
    /\ "purge" \in Faults /\ purge.pc = "results" /\ purge.todo # {}
    /\ purge' = [purge EXCEPT !.todo = {}]
    /\ UNCHANGED <<dbVars, fd, inputs>>

\* mistake: the job is removed whether or not its results are
PurgeJob_First ==
    /\ purge.pc = "fetched" /\ purge' = PurgeIdle
    /\ wu' = [wu EXCEPT !.exists = FALSE]
    /\ UNCHANGED <<res, file, fd, inputs>>

PurgeJob ==
    /\ purge.pc = "results" /\ purge.todo = {} /\ purge' = PurgeIdle
    /\ wu' = [wu EXCEPT !.exists = FALSE]
    /\ UNCHANGED <<res, file, fd, inputs>>

PurgeCrash ==
    /\ "crash" \in Faults /\ purge.pc # "idle"
    /\ purge' = PurgeIdle /\ UNCHANGED <<dbVars, fd, inputs>>

FdStep == FdEnumerate \/ FdUnlink \/ FdUpdate
PurgeStep == PurgeEnumerate \/ PurgeQuery \/ PurgeResult \/ PurgeSkip \/ PurgeJob
FdNext == FdStep \/ FdCrash
PurgeNext == PurgeStep \/ PurgeCrash
=============================================================================
