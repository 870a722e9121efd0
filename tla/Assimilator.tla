---------------------------- MODULE Assimilator ----------------------------
(***************************************************************************)
(* The assimilator daemon (sched/assimilator.cpp): hands the outcome of a  *)
(* finished job to the project, then has the transitioner look at the job  *)
(* once more so that its files are deleted.                                *)
(***************************************************************************)
EXTENDS BackendDB

VARIABLE as    \* the daemon and its copy of the job

AsTypeOK == as \in [pc : {"idle", "fetched", "handled"}, canonical_resultid : Result \cup {0},
                    error_mask : SUBSET ErrorFlag]

AsIdle == [pc |-> "idle", canonical_resultid |-> 0, error_mask |-> {}]
AsInit == as = AsIdle

(* wu.enumerate("where assimilate_state=READY"). *)
AsEnumerate ==
    /\ as.pc = "idle" /\ wu.exists /\ wu.assimilate_state = "READY"
    /\ as' = [pc |-> "fetched", canonical_resultid |-> wu.canonical_resultid,
              error_mask |-> wu.error_mask]
    /\ UNCHANGED dbVars

(***************************************************************************)
(* The results are read; a job that has neither a canonical result nor an  *)
(* error gets one.  Then assimilate_handler() is called.                   *)
(***************************************************************************)
AsHandle ==
    /\ as.pc = "fetched"
    /\ LET c == as.canonical_resultid
           found == c # 0 /\ Exists(res[c])
       IN  SetWu(IF ~found /\ as.error_mask = {}
                 THEN [wu EXCEPT !.error_mask = {"NO_CANONICAL_RESULT"}] ELSE wu)
    /\ as' = [as EXCEPT !.pc = "handled"]
    /\ UNCHANGED <<res, file>>

\* mistake: the transitioner is not told
AsDone_Silent ==
    /\ as.pc = "handled"
    /\ SetWu([wu EXCEPT !.assimilate_state = "DONE"])
    /\ as' = AsIdle
    /\ UNCHANGED <<res, file>>

(* DEFER_ASSIMILATION: not before all results are over and validated. *)
AsDone ==
    /\ as.pc = "handled"
    /\ \E state \in {"DONE"} \cup (IF "defer" \in Faults THEN {"INIT"} ELSE {}) :
         SetWu([wu EXCEPT !.assimilate_state = state, !.transition_time = "due"])
    /\ as' = AsIdle
    /\ UNCHANGED <<res, file>>

(* The handler failed, or the daemon was killed: the job stays ready. *)
AsCrash ==
    /\ "crash" \in Faults /\ as.pc # "idle"
    /\ as' = AsIdle /\ UNCHANGED dbVars

AsStep == AsEnumerate \/ AsHandle \/ AsDone
AsNext == AsStep \/ AsCrash
=============================================================================
