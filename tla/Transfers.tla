------------------------------ MODULE Transfers ------------------------------
(***************************************************************************)
(* The client's files of one job, its input file and its output file, and  *)
(* the transfers they need.  The client does all of its work in one thread *)
(* that calls poll functions over and over; what a poll function makes of  *)
(* a file is an operator here, and module Client says when it is called.   *)
(***************************************************************************)

VARIABLES
    inp,      \* FILE_INFO of the input file, its PERS_FILE_XFER and its ASYNC_VERIFY
    out,      \* FILE_INFO of the output file and its PERS_FILE_XFER
    stored    \* the upload server has all of the output file

fileVars == <<inp, out, stored>>

Disk == {"part", "bad", "whole"}
Status == {"absent", "present", "verifying", "failed"}

\* done: pers_xfer_done, to be removed by the next scan.
Pfx == {"none", "wait", "active", "done"}

\* How the HTTP operation of an active transfer ended.
Ended == {"ok", "transient", "permanent", "range"}
Ret == Ended \cup {"none"}

\* disk: "part" is missing or of the wrong size, "bad" fails its checksum;
\* big: larger than ASYNC_FILE_THRESHOLD, and copied to where the job runs.
InpRec == [status : Status, disk : Disk, pfx : Pfx, ret : Ret,
           verify : BOOLEAN, big : BOOLEAN]
\* givenUp: some transfer of it was given up (to state properties with).
OutRec == [status : Status \ {"verifying"}, disk : BOOLEAN, pfx : Pfx, ret : Ret,
           uploaded : BOOLEAN, givenUp : BOOLEAN]

FilesTypeOK == inp \in InpRec /\ out \in OutRec /\ stored \in BOOLEAN

NewInput(big) == [status |-> "absent", disk |-> "part", pfx |-> "none", ret |-> "none",
                  verify |-> FALSE, big |-> big]
NewOutput == [status |-> "absent", disk |-> FALSE, pfx |-> "none", ret |-> "none",
              uploaded |-> FALSE, givenUp |-> FALSE]

-----------------------------------------------------------------------------
(***************************************************************************)
(* verify_file(true, ..., true): a big file of the right size is verified  *)
(* in the background.                                                      *)
(***************************************************************************)
InBackground(f) == f.status = "verifying" \/ (f.big /\ f.disk # "part")
Valid(f) == f.disk = "whole"
VerifyPending(f) == [f EXCEPT !.status = "verifying", !.verify = TRUE]

(***************************************************************************)
(* PERS_FILE_XFER::create_xfer(): a download is not started if the file is *)
(* there already; an upload cannot start if it is not.                     *)
(***************************************************************************)
CreateDownload(f) ==
    IF InBackground(f) THEN [VerifyPending(f) EXCEPT !.pfx = "done"]
    ELSE IF Valid(f) THEN [f EXCEPT !.status = "present", !.pfx = "done"]
    ELSE [f EXCEPT !.status = "absent", !.pfx = "active", !.disk = "part"]

\* permanent_failure(); abort(), of the user's, does the same.
GivenUp(f) ==
    [f EXCEPT !.status = "failed", !.pfx = "done", !.ret = "none"]
UploadGivenUp(f) == [GivenUp(f) EXCEPT !.givenUp = TRUE]

Retried(f) == [f EXCEPT !.pfx = "wait", !.ret = "none"]

(***************************************************************************)
(* PERS_FILE_XFER::poll(): what becomes of a transfer that waits, or whose *)
(* HTTP operation has ended.  A transient failure is retried, or given up  *)
(* when it has been retried for too long.                                  *)
(***************************************************************************)
PollDownload(f) ==
    CASE f.pfx = "wait" -> {CreateDownload(f)}
      [] f.pfx = "active" /\ f.ret = "ok" -> {[f EXCEPT !.pfx = "done", !.ret = "none"]}
      [] f.pfx = "active" /\ f.ret = "permanent" -> {GivenUp(f)}
      [] f.pfx = "active" /\ f.ret = "transient" -> {Retried(f), GivenUp(f)}
      [] f.pfx = "active" /\ f.ret = "range" ->
             {[Retried(f) EXCEPT !.status = "absent", !.disk = "part"]}
      [] OTHER -> {f}

PollUpload(f) ==
    CASE f.pfx = "wait" /\ f.disk -> {[f EXCEPT !.pfx = "active"]}
      [] f.pfx = "wait" /\ ~f.disk -> {f, UploadGivenUp(f)}
      [] f.pfx = "active" /\ f.ret = "ok" -> {[f EXCEPT !.pfx = "done", !.ret = "none"]}
      [] f.pfx = "active" /\ f.ret = "permanent" -> {UploadGivenUp(f)}
      [] f.pfx = "active" /\ f.ret = "transient" -> {Retried(f), UploadGivenUp(f)}
      [] OTHER -> {f}

(***************************************************************************)
(* create_and_delete_pers_file_xfers(): a transfer is made for each file   *)
(* that needs one, and the transfers that are done are removed.  An upload *)
(* that is done is a file uploaded, however it ended.                      *)
(***************************************************************************)
ScanInput(f) ==
    IF f.pfx = "none" /\ f.status = "absent" THEN [f EXCEPT !.pfx = "wait"]
    ELSE IF f.pfx = "done" THEN
        LET g == [f EXCEPT !.pfx = "none"] IN
        IF f.status = "failed" THEN g
        ELSE IF InBackground(f) THEN VerifyPending(g)
        ELSE [g EXCEPT !.status = IF Valid(f) THEN "present" ELSE "failed"]
    ELSE f

ScanOutput(f) ==
    IF f.pfx = "none" /\ f.status = "present" /\ ~f.uploaded THEN [f EXCEPT !.pfx = "wait"]
    ELSE IF f.pfx = "done"
    THEN [f EXCEPT !.pfx = "none", !.status = "absent", !.disk = FALSE, !.uploaded = TRUE]
    ELSE f

\* PERS_FILE_XFER::suspend()
Suspended(f) == IF f.pfx = "active" THEN Retried(f) ELSE f

\* mistake: the checksum of a big file is not compared.
FinishVerify_Unchecked(f) == [f EXCEPT !.verify = FALSE, !.status = "present"]
\* ASYNC_VERIFY::finish()
FinishVerify(f) ==
    [f EXCEPT !.verify = FALSE, !.status = IF Valid(f) THEN "present" ELSE "failed"]

-----------------------------------------------------------------------------
(* The HTTP operations. *)

\* d: what there is of the file when all the data promised has come.
EndDownload(r, d) ==
    /\ inp.pfx = "active" /\ inp.ret = "none"
    /\ r # "ok" => d = inp.disk
    /\ inp' = [inp EXCEPT !.ret = r, !.disk = d]
    /\ UNCHANGED <<out, stored>>

\* What the server has when an upload fails is not known.
EndUpload(r) ==
    /\ out.pfx = "active" /\ out.ret = "none" /\ r # "range"
    /\ out' = [out EXCEPT !.ret = r]
    /\ stored' \in IF r = "ok" THEN {TRUE} ELSE {stored, TRUE}
    /\ UNCHANGED inp

-----------------------------------------------------------------------------
(***************************************************************************)
(* What the state file keeps of the files, and what a restarted client     *)
(* makes of it: transfers wait again, a verification has to be repeated,   *)
(* and check_file_existence() looks for the files.                         *)
(***************************************************************************)
PersistFile(f) == [status |-> f.status, pfx |-> f.pfx # "none"]
SavedFile == [status : Status, pfx : BOOLEAN]

RestartedStatus(s, there) ==
    IF s = "verifying" \/ (s = "present" /\ ~there) THEN "absent" ELSE s
RestartedPfx(s) == IF s.pfx /\ s.status # "failed" THEN "wait" ELSE "none"
RestartInput(f, s) ==
    [f EXCEPT !.status = RestartedStatus(s.status, f.disk # "part"),
              !.pfx = RestartedPfx(s), !.ret = "none", !.verify = FALSE]
RestartOutput(f, s, up) ==
    [f EXCEPT !.status = RestartedStatus(s.status, f.disk), !.uploaded = up,
              !.pfx = RestartedPfx(s), !.ret = "none"]
=============================================================================
