----------------------------- MODULE Scheduler -----------------------------
(***************************************************************************)
(* The scheduler CGI as far as it touches results: it sends a job, takes   *)
(* in a report, resends a job the host lost, and gives up the jobs of a    *)
(* host that detached.  A host has one request served at a time            *)
(* (lock_sched()), so one CGI process per result is enough; marking the    *)
(* results of a detached host happens before that lock is taken and is a   *)
(* process of its own.  The client side is what the messages make visible. *)
(***************************************************************************)
EXTENDS BackendDB

VARIABLES
    cgi,      \* the request being served for a result
    detach,   \* mark_results_over() at work on a result
    client    \* what the host the result was sent to has of it

schedVars == <<cgi, detach, client>>

ClientState == {"none", "computing", "success", "error", "lost", "acked"}
CgiPc == {"idle", "report", "reported", "failed",
          "send", "mark", "resend", "remark", "expire", "expired"}

SchedTypeOK ==
    /\ cgi \in [Result -> [pc : CgiPc, validate_state : ValidateState]]
    /\ detach \in [Result -> {"idle", "row", "job"}]
    /\ client \in [Result -> ClientState]

CgiIdle == [pc |-> "idle", validate_state |-> "INIT"]

SchedInit ==
    /\ cgi = [r \in Result |-> CgiIdle]
    /\ detach = [r \in Result |-> "idle"]
    /\ client = [r \in Result |-> "none"]

CgiGoes(r, pc) == cgi' = [cgi EXCEPT ![r].pc = pc]
CgiEnds(r)     == cgi' = [cgi EXCEPT ![r] = CgiIdle]

-----------------------------------------------------------------------------
(* Sending a job. *)

(***************************************************************************)
(* scan_work_array(): a result from the job cache is read again to see     *)
(* that it is unsent; its job is not.  Any result that is unsent may be in *)
(* the cache, with its job as it was when the feeder put it there.         *)
(***************************************************************************)
SendCheck(r) ==
    /\ cgi[r].pc = "idle" /\ res[r].server_state = "UNSENT"
    /\ CgiGoes(r, "send")
    /\ UNCHANGED <<dbVars, detach, client>>

(* update_wu_on_send(): fails, and ends the attempt, if the job is gone. *)
SendJob(r) ==
    /\ cgi[r].pc = "send"
    /\ IF wu.exists THEN CgiGoes(r, "mark") ELSE CgiEnds(r)
    /\ SetWu([wu EXCEPT !.transition_time = NotLaterThan(@)])
    /\ UNCHANGED <<res, file, detach, client>>

(* The reply with the job reaches the host or is lost on the way. *)
Delivered == {"computing"} \cup (IF "reply" \in Faults THEN {"lost"} ELSE {})

\* mistake: the statement lacks its condition on server_state
SendMark_Unchecked(r) ==
    /\ cgi[r].pc = "mark" /\ CgiEnds(r)
    /\ SetRow(r, [res[r] EXCEPT !.server_state = "IN_PROGRESS", !.late = FALSE])
    /\ \E d \in Delivered : client' = [client EXCEPT ![r] = d]
    /\ UNCHANGED <<wu, file, detach>>

(* mark_as_sent(): only a result that is still unsent. *)
SendMark(r) ==
    /\ cgi[r].pc = "mark" /\ CgiEnds(r)
    /\ IF res[r].server_state = "UNSENT"
       THEN /\ res' = [res EXCEPT ![r].server_state = "IN_PROGRESS", ![r].late = FALSE]
            /\ \E d \in Delivered : client' = [client EXCEPT ![r] = d]
       ELSE UNCHANGED <<res, client>>
    /\ UNCHANGED <<wu, file, detach>>

-----------------------------------------------------------------------------
(* Resending a job the host does not have (resend_lost_work()). *)

(* Not wanted any more, or it could not be done in time: let it time out. *)
ResendCheck(r) ==
    /\ "reply" \in Faults
    /\ cgi[r].pc = "idle" /\ client[r] = "lost" /\ res[r].server_state = "IN_PROGRESS"
    /\ \/ wu.exists /\ wu.error_mask = {} /\ wu.canonical_resultid = 0 /\ CgiGoes(r, "resend")
       \/ CgiGoes(r, "expire")
    /\ UNCHANGED <<dbVars, detach, client>>

ResendJob(r) ==
    /\ cgi[r].pc = "resend"
    /\ IF wu.exists THEN CgiGoes(r, "remark") ELSE CgiEnds(r)
    /\ SetWu([wu EXCEPT !.transition_time = NotLaterThan(@)])
    /\ UNCHANGED <<res, file, detach, client>>

(* mark_as_sent() again, with a new deadline. *)
ResendMark(r) ==
    /\ cgi[r].pc = "remark" /\ CgiEnds(r)
    /\ IF res[r].server_state = "IN_PROGRESS"
       THEN /\ res' = [res EXCEPT ![r].late = FALSE]
            /\ \E d \in Delivered : client' = [client EXCEPT ![r] = d]
       ELSE UNCHANGED <<res, client>>
    /\ UNCHANGED <<wu, file, detach>>

(* report_deadline = now-1, if the result is still in progress ... *)
ExpireMark(r) ==
    /\ cgi[r].pc = "expire"
    /\ IF res[r].server_state = "IN_PROGRESS"
       THEN res' = [res EXCEPT ![r].late = TRUE] /\ CgiGoes(r, "expired")
       ELSE CgiEnds(r) /\ UNCHANGED res
    /\ UNCHANGED <<wu, file, detach, client>>

(* ... and the job is due at that time. *)
ExpireJob(r) ==
    /\ cgi[r].pc = "expired" /\ CgiEnds(r)
    /\ SetWu([wu EXCEPT !.transition_time = "due"])
    /\ UNCHANGED <<res, file, detach, client>>

-----------------------------------------------------------------------------
(* A host reports a result (handle_results()). *)

\* mistake: a result given up is not taken in any more
Accepts_InTime(row) == ~row.received /\ row.server_state = "IN_PROGRESS"

(* Rows whose report is taken in: in progress, or given up as lost. *)
Accepts(row) ==
    /\ ~row.received
    /\ \/ row.server_state = "IN_PROGRESS"
       \/ Over(row) /\ row.outcome \in {"NO_REPLY", "CLIENT_DETACHED"}

(* The client learns that the server has its report, or the reply is lost. *)
Acknowledge(r) ==
    \/ client' = [client EXCEPT ![r] = "acked"]
    \/ "reply" \in Faults /\ UNCHANGED client

\* mistake: the report is acknowledged before it is written
ReportCheck_AckFirst(r) ==
    /\ cgi[r].pc = "idle" /\ client[r] \in {"success", "error"}
    /\ cgi' = [cgi EXCEPT ![r] = [pc |-> IF Accepts(res[r]) THEN "report" ELSE "idle",
                                   validate_state |-> res[r].validate_state]]
    /\ Acknowledge(r)
    /\ UNCHANGED <<dbVars, detach>>

(* Any report that is not accepted is ignored, and acknowledged. *)
ReportCheck(r) ==
    /\ cgi[r].pc = "idle" /\ client[r] \in {"success", "error"}
    /\ IF Accepts(res[r])
       THEN /\ cgi' = [cgi EXCEPT ![r] = [pc |-> "report",
                                          validate_state |-> res[r].validate_state]]
            /\ UNCHANGED client
       ELSE Acknowledge(r) /\ UNCHANGED cgi
    /\ UNCHANGED <<dbVars, detach>>

\* mistake: server_state is not set
Reported_NotOver(r) ==
    [res[r] EXCEPT !.received = TRUE,
                   !.outcome = IF client[r] = "success" THEN "SUCCESS" ELSE "CLIENT_ERROR"]

Reported(r) ==
    [res[r] EXCEPT
       !.server_state = "OVER", !.received = TRUE,
       !.outcome = IF client[r] = "success" THEN "SUCCESS" ELSE "CLIENT_ERROR",
       !.validate_state = IF client[r] = "success" THEN cgi[r].validate_state ELSE "INVALID"]

(* DB_SCHED_RESULT_ITEM_SET::update_result(), by id and without condition. *)
ReportRow(r) ==
    /\ cgi[r].pc = "report"
    /\ SetRow(r, Reported(r))
    /\ CgiGoes(r, IF Exists(res[r]) THEN "reported" ELSE "failed")
    /\ UNCHANGED <<wu, file, detach, client>>

(* update_workunits(); a result whose update failed is not acknowledged. *)
ReportJob(r) ==
    /\ cgi[r].pc \in {"reported", "failed"} /\ CgiEnds(r)
    /\ SetWu([wu EXCEPT !.transition_time = "due"])
    /\ IF cgi[r].pc = "reported" THEN Acknowledge(r) ELSE UNCHANGED client
    /\ UNCHANGED <<res, file, detach>>

(* The CGI is killed or loses its connection: the host gets no reply. *)
CgiCrash(r) ==
    /\ "crash" \in Faults /\ cgi[r].pc # "idle" /\ CgiEnds(r)
    /\ UNCHANGED <<dbVars, detach, client>>

-----------------------------------------------------------------------------
(* A host that seems to have detached (mark_results_over()). *)

DetachCheck(r) ==
    /\ "detach" \in Faults
    /\ detach[r] = "idle" /\ res[r].server_state = "IN_PROGRESS"
    /\ detach' = [detach EXCEPT ![r] = "row"]
    /\ UNCHANGED <<dbVars, cgi, client>>

DetachRow(r) ==
    /\ detach[r] = "row"
    /\ SetRow(r, [res[r] EXCEPT !.server_state = "OVER", !.outcome = "CLIENT_DETACHED",
                                !.received = TRUE])
    /\ detach' = [detach EXCEPT ![r] = "job"]
    /\ UNCHANGED <<wu, file, cgi, client>>

DetachJob(r) ==
    /\ detach[r] = "job"
    /\ SetWu([wu EXCEPT !.transition_time = "due"])
    /\ detach' = [detach EXCEPT ![r] = "idle"]
    /\ UNCHANGED <<res, file, cgi, client>>

-----------------------------------------------------------------------------
(* The client (external): it finishes the job and uploads its output. *)

ClientFinish(r) ==
    /\ client[r] = "computing"
    /\ \/ \E a \in Answers : /\ client' = [client EXCEPT ![r] = "success"]
                             /\ file' = [file EXCEPT ![r] = a]
       \/ client' = [client EXCEPT ![r] = "error"] /\ UNCHANGED file
    /\ UNCHANGED <<wu, res, cgi, detach>>

(* The project is reset on the host: the job is not there any more. *)
ClientLoses(r) ==
    /\ "reply" \in Faults /\ client[r] \in {"computing", "success", "error"} /\ cgi[r].pc = "idle"
    /\ client' = [client EXCEPT ![r] = "lost"]
    /\ UNCHANGED <<dbVars, cgi, detach>>

(* The rest of a request once it is being served. *)
CgiStep(r) ==
    \/ SendJob(r) \/ SendMark(r)
    \/ ResendJob(r) \/ ResendMark(r) \/ ExpireMark(r) \/ ExpireJob(r)
    \/ ReportRow(r) \/ ReportJob(r)
    \/ DetachRow(r) \/ DetachJob(r)

SchedNext ==
    \E r \in Result :
      \/ SendCheck(r) \/ ResendCheck(r) \/ ReportCheck(r) \/ DetachCheck(r)
      \/ CgiStep(r) \/ CgiCrash(r) \/ ClientFinish(r) \/ ClientLoses(r)
=============================================================================
