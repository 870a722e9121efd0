--------------------------- MODULE Client_proofs ---------------------------
(***************************************************************************)
(* Proofs about one job on a host, for any number of faults.  ClientInv    *)
(* has five parts besides the types: most relate what is in memory to what *)
(* the state file says, so that a crash at any time keeps them.            *)
(***************************************************************************)
EXTENDS Client, TLAPS

Early == {"new", "downloading", "downloaded"}
Late == {"uploading", "uploaded", "upload_failed"}

(***************************************************************************)
(* Once somebody relies on the input file, it is whole and nobody writes   *)
(* to it any more; the state file relies on it too.                        *)
(***************************************************************************)
Relied ==
    \/ inp.status = "present" \/ res.state = "downloaded" \/ task.st # "none"
    \/ saved.inp.status = "present" \/ saved.res.state = "downloaded"
Safe(f) == f.disk = "whole" /\ f.pfx # "active"
Checked(f) == f.verify => f.status # "absent" /\ f.pfx \notin {"wait", "active"}
InputSound ==
    /\ ~Gone /\ Relied => Safe(inp)
    /\ Checked(inp)
    /\ Gone => inp = NewInput(inp.big)

(* A result is deleted only when the state file says that it was acked. *)
AckSound ==
    /\ rpc = "acked" \/ res.acked => got # {}
    /\ rpc # "idle" \/ res.acked => res.ready
    /\ saved.res.acked => res.acked
    /\ saved.res.acked => saved.res.ready
    /\ res.acked /\ ~saved.res.acked => turn = Poll.rpc /\ dirty
    /\ Gone \/ saved.res.state = "gone" => saved.res.acked

(* A process without a task that may start it belongs to a job that failed. *)
ProcSound ==
    /\ task.st = "none" => task = NoTask
    /\ Gone \/ res.state \in {"new", "downloading"} \cup Late => task.st = "none"
    /\ proc # "none" => /\ res.state \notin {"new", "downloading"} \cup Late
                        /\ task.st # "uninitialized" /\ ~task.copy
    /\ proc # "none" /\ task.st \in Exited \cup {"none"} => res.state \notin Early
    /\ proc # "none" /\ task.st \in Exited => res.exit # "zero"

(* What became of the output. *)
Settled(o) == stored \/ o.givenUp
Usable(o) == Settled(o) \/ (o.status # "failed" /\ o.disk)
Honest(o) ==
    /\ o.ret = "ok" => stored
    /\ o.pfx = "done" \/ o.uploaded => Settled(o)
OutputSound ==
    /\ Honest(out)
    /\ saved.uploaded => Settled(out)
    /\ res.state = "uploading" => Usable(out)
    /\ saved.res.state = "uploading" /\ ~saved.res.acked =>
         res.state \in Late /\ (Settled(out) \/ (saved.out.status # "failed" /\ out.disk))

(* A result that will be reported as a success. *)
Successful(r) == r.state = "uploaded" /\ r.exit = "zero"
ResultSound(r) ==
    /\ Successful(r) => Settled(out) \/ overwritten
    /\ r.ready /\ r.exit = "zero" /\ r.state \in Early \cup {"uploading"} => overwritten
SuccessSound ==
    /\ ResultSound(res) /\ ResultSound(saved.res)
    /\ rpc = "success" \/ "success" \in got => Settled(out) \/ overwritten
    /\ task.st # "none" /\ res.exit = "zero" =>
         overwritten \/ (res.state = "downloaded" /\ ~res.ready)

ClientInv == /\ ClientTypeOK /\ InputSound /\ AckSound /\ ProcSound /\ OutputSound
             /\ SuccessSound

-----------------------------------------------------------------------------
(* What the operators of the model return. *)

LEMMA ReportErrorIs ==
  ASSUME NEW r \in ResRec
  PROVE  LET s == ReportError(r) IN
         /\ s \in ResRec /\ s.ready /\ s.acked = r.acked
         /\ \/ s.state = r.state
            \/ r.state = "downloaded" /\ s.state = "compute_error"
            \/ r.state = "uploading" /\ s.state = "upload_failed"
         /\ s.exit = "zero" => /\ r.exit = "zero"
                               /\ r.ready \/ r.state \notin Early \cup {"uploading"}
  BY DEF ReportError, ResRec, ResState, Early

LEMMA AbortTaskIs ==
  ASSUME NEW r \in ResRec, NEW e \in {"aborted", "error"}
  PROVE  LET s == AbortTask(r, e) IN
         /\ s \in ResRec /\ s.ready /\ s.acked = r.acked /\ s.state = "aborted"
         /\ s.exit # "zero"
<1> DEFINE q == [r EXCEPT !.exit = e]
<1>1. q \in ResRec /\ q.acked = r.acked /\ q.exit = e
  BY DEF ResRec
<1>2. /\ ReportError(q) \in ResRec /\ ReportError(q).ready
      /\ ReportError(q).acked = r.acked /\ ReportError(q).exit # "zero"
  BY <1>1, ReportErrorIs
<1> HIDE DEF q
<1> QED
  BY <1>2 DEF AbortTask, ResRec, ResState, q

LEMMA AbortInactiveIs ==
  ASSUME NEW r \in ResRec, NEW e \in {"aborted", "error"}
  PROVE  LET s == AbortInactive(r, e) IN
         /\ s \in ResRec /\ s.ready = r.ready /\ s.acked = r.acked
         /\ \/ r.state \in Early /\ s.state = "aborted" /\ s.exit = e
            \/ r.state \notin Early /\ s = r
  BY DEF AbortInactive, ResRec, ResState, Early

LEMMA AbortedTaskIs ==
  ASSUME NEW t \in TaskRec
  PROVE  LET u == AbortedTask(t) IN
         /\ u \in TaskRec /\ u.copy = t.copy /\ u.st \in {"abort_pending", "aborted"}
  BY DEF AbortedTask, TaskRec, Exited

LEMMA StartIs ==
  ASSUME NEW t \in TaskRec
  PROVE  LET u == Start(t) IN
         /\ u \in TaskRec
         /\ \/ u = t
            \/ ~t.copy /\ u.st = "copy_pending" /\ u.copy
            \/ ~t.copy /\ u.st = "executing" /\ ~u.copy
<1>1. CASE t.copy
  BY <1>1 DEF Start
<1>2. CASE ~t.copy /\ inp.big /\ ~t.slot
  <2>1. Start(t) = [t EXCEPT !.st = "copy_pending", !.copy = TRUE]
    BY <1>2 DEF Start
  <2>2. Start(t) \in TaskRec
    BY <2>1 DEF TaskRec
  <2>3. Start(t).st = "copy_pending" /\ Start(t).copy
    BY <2>1 DEF TaskRec
  <2> QED
    BY <1>2, <2>2, <2>3
<1>3. CASE ~t.copy /\ ~(inp.big /\ ~t.slot)
  <2>1. Start(t) = [t EXCEPT !.st = "executing", !.slot = TRUE]
    BY <1>3 DEF Start
  <2> QED
    BY <1>3, <2>1 DEF TaskRec
<1> QED
  BY <1>1, <1>2, <1>3

LEMMA ResumeOrStartIs ==
  ASSUME NEW t \in TaskRec
  PROVE  LET u == ResumeOrStart(t) IN
         /\ u \in TaskRec
         /\ \/ u = t
            \/ t.st = "uninitialized" /\ ~t.copy /\ u.st = "copy_pending" /\ u.copy
            \/ t.st = "uninitialized" /\ ~t.copy /\ u.st = "executing" /\ ~u.copy
            \/ t.st = "suspended" /\ u.st = "executing" /\ u.copy = t.copy
<1>1. CASE t.st = "uninitialized"
  BY <1>1, StartIs DEF ResumeOrStart
<1>2. CASE t.st # "uninitialized"
  BY <1>2 DEF ResumeOrStart, TaskRec
<1> QED
  BY <1>1, <1>2

LEMMA PreemptedIs ==
  ASSUME NEW t \in TaskRec, NEW u \in Preempted(t)
  PROVE  /\ u \in TaskRec /\ u.copy = t.copy
         /\ u.st = t.st \/ (t.st \in {"executing", "suspended"}
                             /\ u.st \in {"suspended", "quit_pending"})
  BY DEF Preempted, TaskRec

LEMMA ExitedTaskIs ==
  ASSUME NEW t \in TaskRec, NEW how
  PROVE  LET u == ExitedTask(t, how) IN
         u \in TaskRec /\ u.copy = t.copy /\ u.st \in {"uninitialized", "exited", "aborted"}
<1>1. ExitedState(t.st, how) \in {"uninitialized", "exited", "aborted"}
  BY DEF ExitedState
<1> QED
  BY <1>1 DEF ExitedTask, TaskRec, Exited

(* What a step may do to the input file. *)
Improves(f, g) ==
    /\ g \in InpRec /\ g.big = f.big /\ Checked(g)
    /\ Safe(f) \/ g.status = "present" => Safe(g)

LEMMA CreateDownloadIs ==
  ASSUME NEW f \in InpRec, Checked(f), f.status = "present" => Safe(f), f.pfx = "wait"
  PROVE  Improves(f, CreateDownload(f))
  BY DEF CreateDownload, InBackground, VerifyPending, Valid, Improves, Checked, Safe, InpRec,
     Status, Disk, Pfx, Ret

LEMMA PollDownloadIs ==
  ASSUME NEW f \in InpRec, Checked(f), f.status = "present" => Safe(f), NEW g \in PollDownload(f)
  PROVE  Improves(f, g)
<1>1. CASE f.pfx = "wait"
  BY <1>1, CreateDownloadIs DEF PollDownload
<1>2. CASE f.pfx # "wait"
  BY <1>2 DEF PollDownload, Retried, GivenUp, Improves, Checked, Safe, InpRec,
     Status, Disk, Pfx, Ret, Ended
<1> QED
  BY <1>1, <1>2

LEMMA ScanInputIs ==
  ASSUME NEW f \in InpRec, Checked(f), f.status = "present" => Safe(f)
  PROVE  Improves(f, ScanInput(f))
  BY DEF ScanInput, InBackground, VerifyPending, Valid, Improves, Checked, Safe, InpRec,
     Status, Disk, Pfx, Ret

LEMMA SmallInputSteps ==
  ASSUME NEW f \in InpRec, Checked(f), f.status = "present" => Safe(f)
  PROVE  /\ Improves(f, Suspended(f)) /\ Improves(f, GivenUp(f))
         /\ f.verify => Improves(f, FinishVerify(f))
<1>1. Improves(f, Suspended(f))
  BY DEF Suspended, Retried, Improves, Checked, Safe, InpRec, Pfx, Ret
<1>2. Improves(f, GivenUp(f))
  BY DEF GivenUp, Improves, Checked, Safe, InpRec, Status, Pfx, Ret
<1>3. f.verify => Improves(f, FinishVerify(f))
  BY DEF FinishVerify, Valid, Improves, Checked, Safe, InpRec, Status
<1> QED
  BY <1>1, <1>2, <1>3

LEMMA DownloadIs ==
  ASSUME NEW f \in InpRec, Checked(f), f.status = "present" => Safe(f), f.pfx = "active",
         NEW r \in Ended, NEW d \in Disk
  PROVE  Improves(f, [f EXCEPT !.ret = r, !.disk = d])
<1> DEFINE g == [f EXCEPT !.ret = r, !.disk = d]
<1>1. /\ g \in InpRec /\ g.big = f.big /\ g.pfx = f.pfx /\ g.status = f.status
      /\ g.verify = f.verify
  BY DEF InpRec, Ret
<1> HIDE DEF g
<1>2. Improves(f, g)
  BY <1>1 DEF Improves, Checked, Safe
<1> QED
  BY <1>2 DEF g

(* What a step may do to the output file, if the server keeps what it has. *)
Proceeds(o, p) ==
    /\ p \in OutRec /\ Honest(p)
    /\ o.givenUp => p.givenUp
    /\ Usable(o) => Usable(p)
    /\ o.disk => p.disk \/ Settled(p)

LEMMA UploadGivenUpIs ==
  ASSUME NEW o \in OutRec
  PROVE  Proceeds(o, UploadGivenUp(o))
<1>1. /\ UploadGivenUp(o) \in OutRec /\ UploadGivenUp(o).givenUp
      /\ UploadGivenUp(o).disk = o.disk /\ UploadGivenUp(o).pfx = "done"
      /\ UploadGivenUp(o).ret = "none"
  BY DEF UploadGivenUp, GivenUp, OutRec, Status, Pfx, Ret
<1> QED
  BY <1>1 DEF Proceeds, Honest, Usable, Settled

LEMMA PollUploadIs ==
  ASSUME NEW o \in OutRec, Honest(o), NEW p \in PollUpload(o)
  PROVE  Proceeds(o, p)
<1>2. Proceeds(o, UploadGivenUp(o))
  BY UploadGivenUpIs
<1>3. Proceeds(o, o)
  BY DEF Proceeds
<1>4. o.pfx # "done" => Proceeds(o, Retried(o))
  BY DEF Retried, Proceeds, Honest, Usable, Settled, OutRec, Pfx, Ret
<1>5. CASE o.pfx = "wait"
  <2>1. o.disk => p = [o EXCEPT !.pfx = "active"]
    BY <1>5 DEF PollUpload
  <2>2. Proceeds(o, [o EXCEPT !.pfx = "active"])
    BY <1>5 DEF Proceeds, Honest, Usable, Settled, OutRec, Pfx
  <2> QED
    BY <1>2, <1>3, <1>5, <2>1, <2>2 DEF PollUpload
<1>6. CASE o.pfx = "active" /\ o.ret = "ok"
  <2>1. p = [o EXCEPT !.pfx = "done", !.ret = "none"]
    BY <1>6 DEF PollUpload
  <2> QED
    BY <1>6, <2>1 DEF Proceeds, Honest, Usable, Settled, OutRec, Pfx, Ret
<1>7. CASE ~(o.pfx = "wait") /\ ~(o.pfx = "active" /\ o.ret = "ok")
  BY <1>2, <1>3, <1>4, <1>7 DEF PollUpload
<1> QED
  BY <1>5, <1>6, <1>7

LEMMA ScanOutputIs ==
  ASSUME NEW o \in OutRec, Honest(o)
  PROVE  Proceeds(o, ScanOutput(o))
<1>1. CASE o.pfx = "none" /\ o.status = "present" /\ ~o.uploaded
  <2>1. ScanOutput(o) = [o EXCEPT !.pfx = "wait"]
    BY <1>1 DEF ScanOutput
  <2> QED
    BY <2>1 DEF Proceeds, Honest, Usable, Settled, OutRec, Pfx
<1>2. CASE o.pfx = "done"
  <2>1. ScanOutput(o) = [o EXCEPT !.pfx = "none", !.status = "absent", !.disk = FALSE,
                                  !.uploaded = TRUE]
    BY <1>2 DEF ScanOutput
  <2>2. ScanOutput(o) \in OutRec /\ ScanOutput(o).ret = o.ret
        /\ ScanOutput(o).givenUp = o.givenUp
    BY <2>1 DEF OutRec, Pfx, Status
  <2> QED
    BY <1>2, <2>2 DEF Proceeds, Honest, Usable, Settled
<1>3. CASE ~(o.pfx = "none" /\ o.status = "present" /\ ~o.uploaded) /\ o.pfx # "done"
  BY <1>3 DEF ScanOutput, Proceeds
<1> QED
  BY <1>1, <1>2, <1>3

LEMMA SuspendedUploadIs ==
  ASSUME NEW o \in OutRec, Honest(o)
  PROVE  Proceeds(o, Suspended(o))
  BY DEF Suspended, Retried, Proceeds, Honest, Usable, Settled, OutRec, Pfx, Ret

(* What the operators on processes return. *)
LEMMA DeletedIs == ASSUME NEW S, S \subseteq Phase PROVE Deleted(S) \subseteq Phase
  BY DEF Deleted, FileDeleted, Phase

LEMMA LockIs ==
  ASSUME NEW p, NEW S, NEW q \in Lock(p, S)
  PROVE  /\ p \in {"waiting", "lost"} /\ q \in AtWork \cup {"quit"}
         /\ q \in {"none"} \cup Phase \cup How
         /\ p = "waiting" => q = "quit" \/ (q = "running" /\ "running" \notin S)
  BY DEF Lock, AtWork, Phase, How

LEMMA UnchangedOutput == ASSUME out \in OutRec, Honest(out) PROVE Proceeds(out, out)
  BY DEF Proceeds

LEMMA InitInv == ClientInit => ClientInv
<1> SUFFICES ASSUME ClientInit PROVE ClientInv
  OBVIOUS
<1> USE DEF ClientInit, NewOutput, NoTask, NewResult
<1>1. inp \in InpRec /\ inp.status = "absent" /\ ~inp.verify
  <2>1. PICK b \in BOOLEAN : inp = NewInput(b)
    OBVIOUS
  <2> QED
    BY <2>1 DEF NewInput, InpRec, Status, Disk, Pfx, Ret
<1>2. out \in OutRec /\ stored \in BOOLEAN
  BY DEF OutRec, Status, Pfx, Ret
<1>3. task \in TaskRec /\ res \in ResRec /\ res.state = "new" /\ ~res.ready /\ ~res.acked
  BY DEF TaskRec, ResRec, ResState
<1>4. /\ saved \in SavedRec /\ saved.inp.status = "absent" /\ ~saved.uploaded
      /\ saved.res.state = "new" /\ ~saved.res.ready /\ ~saved.res.acked
  BY <1>1, <1>3 DEF Persist, PersistFile, SavedRec, SavedFile, ResRec, ResState, Status
<1>5. ClientTypeOK
  <2>1. FilesTypeOK
    BY <1>1, <1>2 DEF FilesTypeOK
  <2>2. TasksTypeOK
    BY <1>3 DEF TasksTypeOK, SlotTypeOK
  <2>3. rpc \in Report \cup {"idle", "acked", "failed"} /\ got \subseteq Report /\ dirty \in BOOLEAN
    OBVIOUS
  <2>4. turn \in 0 .. Poll.rpc /\ faults \in 0 .. MaxFaults
    <3>1. turn = 0 /\ faults = 0
      OBVIOUS
    <3> HIDE DEF ClientInit
    <3> QED
      BY <3>1, ClientAssumption DEF Poll
  <2> QED
    BY <1>3, <1>4, <2>1, <2>2, <2>3, <2>4 DEF ClientTypeOK
<1>6. InputSound
  BY <1>1, <1>4 DEF InputSound, Checked, Relied, Gone
<1>7. AckSound
  BY <1>3, <1>4 DEF AckSound, Gone
<1>8. ProcSound
  BY DEF ProcSound
<1>9. OutputSound
  BY <1>4 DEF OutputSound, Honest
<1>10. SuccessSound
  BY <1>3, <1>4 DEF SuccessSound, ResultSound, Successful
<1> QED
  BY <1>5, <1>6, <1>7, <1>8, <1>9, <1>10 DEF ClientInv

-----------------------------------------------------------------------------
(* Steps that change the files only. *)

LEMMA FilesStep ==
  ASSUME ClientInv, UNCHANGED <<stored, taskVars, res, rpcVars, saved>>,
         Improves(inp, inp'), Gone => inp' = inp, Proceeds(out, out'),
         turn # Poll.rpc, turn' \in 0 .. Poll.rpc, dirty' \in BOOLEAN, faults' \in 0 .. MaxFaults
  PROVE  ClientInv'
<1> USE DEF ClientInv, taskVars, slotVars, oldVars, rpcVars, Improves, Proceeds
<1>1. ClientTypeOK'
  BY DEF ClientTypeOK, FilesTypeOK, TasksTypeOK, SlotTypeOK
<1>2. InputSound'
  BY DEF InputSound, Relied, Gone
<1>3. AckSound'
  BY DEF AckSound, Gone
<1>4. ProcSound'
  BY DEF ProcSound, Gone
<1>5. OutputSound'
  BY DEF OutputSound, Honest, Usable, Settled
<1>6. SuccessSound'
  BY DEF SuccessSound, ResultSound, Successful, Settled
<1> QED
  BY <1>1, <1>2, <1>3, <1>4, <1>5, <1>6

(* What is known of the files before a step. *)
LEMMA Files ==
  ASSUME ClientInv
  PROVE  /\ inp \in InpRec /\ Checked(inp) /\ (inp.status = "present" => Safe(inp))
         /\ out \in OutRec /\ Honest(out) /\ Proceeds(out, out) /\ Improves(inp, inp)
         /\ Gone => inp = NewInput(inp.big)
<1>1. Gone => inp.status # "present"
  BY DEF ClientInv, InputSound, NewInput
<1> QED
  BY <1>1 DEF ClientInv, ClientTypeOK, FilesTypeOK, InputSound, Relied, OutputSound, Proceeds,
     Improves

LEMMA GoneInput ==
  ASSUME ClientInv, Gone
  PROVE  inp.pfx = "none" /\ ~inp.verify /\ inp.status = "absent"
  BY Files DEF NewInput

LEMMA Counters ==
  ASSUME ClientInv
  PROVE  /\ turn \in 0 .. Poll.rpc /\ dirty \in BOOLEAN /\ faults \in 0 .. MaxFaults
         /\ \A k \in 1 .. Poll.rpc : Turn(k) => turn # Poll.rpc /\ turn' \in 0 .. Poll.rpc
         /\ IO => turn # Poll.rpc /\ turn' = turn
         /\ Fault \/ NoFault => faults' \in 0 .. MaxFaults
  BY ClientAssumption DEF ClientInv, ClientTypeOK, Poll, Turn, IO, Fault, NoFault

LEMMA PollPersFileXfersKeeps == ASSUME ClientInv, PollPersFileXfers PROVE ClientInv'
<1>1. Improves(inp, inp')
  BY Files, PollDownloadIs DEF PollPersFileXfers
<1>2. Gone => inp' = inp
  BY GoneInput DEF PollPersFileXfers, PollDownload
<1>3. Proceeds(out, out')
  BY Files, PollUploadIs DEF PollPersFileXfers
<1> QED
  BY <1>1, <1>2, <1>3, Counters, FilesStep DEF PollPersFileXfers, Poll

LEMMA CreateAndDeletePersFileXfersKeeps ==
  ASSUME ClientInv, CreateAndDeletePersFileXfers PROVE ClientInv'
<1>1. Improves(inp, inp')
  BY Files, ScanInputIs DEF CreateAndDeletePersFileXfers
<1>2. Proceeds(out, out')
  BY Files, ScanOutputIs DEF CreateAndDeletePersFileXfers
<1> QED
  BY <1>1, <1>2, Counters, FilesStep DEF CreateAndDeletePersFileXfers, Poll, Clean

LEMMA SuspendTransfersKeeps == ASSUME ClientInv, SuspendTransfers PROVE ClientInv'
<1>1. Improves(inp, inp')
  BY Files, SmallInputSteps DEF SuspendTransfers
<1>2. Gone => inp' = inp
  BY GoneInput DEF SuspendTransfers, Suspended
<1>3. Proceeds(out, out')
  BY Files, SuspendedUploadIs DEF SuspendTransfers
<1> QED
  BY <1>1, <1>2, <1>3, Counters, FilesStep DEF SuspendTransfers, Poll, Clean

LEMMA DownloadEndsKeeps == ASSUME ClientInv, DownloadEnds PROVE ClientInv'
<1>1. Improves(inp, inp')
  BY Files, DownloadIs DEF DownloadEnds, EndDownload
<1>2. ~Gone
  BY GoneInput DEF DownloadEnds, EndDownload
<1> QED
  BY <1>1, <1>2, Files, Counters, FilesStep DEF DownloadEnds, EndDownload, others, rpcVars

LEMMA VerifyEndsKeeps == ASSUME ClientInv, VerifyEnds PROVE ClientInv'
<1>1. Improves(inp, inp')
  BY Files, SmallInputSteps DEF VerifyEnds
<1>2. ~Gone
  BY GoneInput DEF VerifyEnds
<1> QED
  BY <1>1, <1>2, Files, Counters, FilesStep DEF VerifyEnds, others, rpcVars

LEMMA AbortTransferKeeps == ASSUME ClientInv, AbortTransfer PROVE ClientInv'
<1>1. Improves(inp, inp')
  BY Files, SmallInputSteps DEF AbortTransfer
<1>2. Gone => inp' = inp
  BY GoneInput DEF AbortTransfer
<1>3. Proceeds(out, out')
  BY Files, UploadGivenUpIs DEF AbortTransfer
<1> QED
  BY <1>1, <1>2, <1>3, Counters, FilesStep DEF AbortTransfer, Dirty

LEMMA UploadEndsKeeps == ASSUME ClientInv, UploadEnds PROVE ClientInv'
<1>1. PICK r \in Ended : EndUpload(r)
  BY DEF UploadEnds
<1>2. /\ out' \in OutRec /\ out'.pfx = "active" /\ out'.status = out.status
      /\ out'.ret = r /\ out'.disk = out.disk
      /\ out'.uploaded = out.uploaded /\ out'.givenUp = out.givenUp
  BY <1>1, Files DEF EndUpload, OutRec, Ret
<1>3. stored' \in BOOLEAN /\ (stored => stored') /\ (r = "ok" => stored') /\ out.pfx = "active"
      /\ inp' = inp
  BY <1>1 DEF EndUpload, ClientInv, ClientTypeOK, FilesTypeOK
<1> USE <1>2, <1>3, Counters DEF UploadEnds, others, taskVars, slotVars, oldVars, rpcVars, ClientInv
<1>4. ClientTypeOK'
  BY DEF ClientTypeOK, FilesTypeOK, TasksTypeOK, SlotTypeOK
<1>5. InputSound'
  BY DEF InputSound, Relied, Gone
<1>6. AckSound'
  BY DEF AckSound, Gone
<1>7. ProcSound'
  BY DEF ProcSound, Gone
<1>8. OutputSound'
  BY DEF OutputSound, Honest, Usable, Settled
<1>9. SuccessSound'
  BY DEF SuccessSound, ResultSound, Successful, Settled
<1> QED
  BY <1>4, <1>5, <1>6, <1>7, <1>8, <1>9

-----------------------------------------------------------------------------
(* Steps that change the result, its task and its process. *)

LEMMA Job ==
  ASSUME ClientInv
  PROVE  /\ res \in ResRec /\ task \in TaskRec /\ SlotTypeOK /\ cpuOff \in BOOLEAN
         /\ (UNCHANGED slotVars => SlotTypeOK')
         /\ (UNCHANGED oldVars /\ proc' \in {"none"} \cup Phase => SlotTypeOK')
         /\ overwritten \in BOOLEAN /\ (task.st = "none" => task = NoTask)
         /\ (Gone => task.st = "none")
         /\ (res.state \in {"new", "downloading"} \cup Late => task.st = "none")
         /\ (task.copy => proc = "none")
         /\ (task.st # "none" => ~Gone /\ Safe(inp))
  BY DEF ClientInv, ClientTypeOK, TasksTypeOK, SlotTypeOK, slotVars, oldVars, ProcSound, InputSound,
     Relied

(* How the result may become. *)
Advances ==
    /\ res' \in ResRec /\ res'.acked = res.acked /\ (res.ready => res'.ready)
    /\ Gone' <=> Gone
    /\ res'.state \in {"new", "downloading"} => res.state \in {"new", "downloading"}
    /\ res'.state = "downloaded" => res.state = "downloaded" \/ inp.status = "present"
    /\ res'.state = "uploading" => res.state = "uploading"
    /\ res.state \in Late => res'.state \in Late
    /\ overwritten' \in BOOLEAN /\ (overwritten => overwritten')
(* Whether it may still become a success. *)
Promising ==
    /\ Successful(res') => Settled(out) \/ overwritten'
    /\ res'.ready /\ res'.exit = "zero" /\ res'.state \in Early \cup {"uploading"} => overwritten'
    /\ task'.st # "none" /\ res'.exit = "zero" =>
         overwritten' \/ (res'.state = "downloaded" /\ ~res'.ready)

LEMMA JobStep ==
  ASSUME ClientInv, UNCHANGED <<fileVars, rpcVars, saved>>, Advances, Promising, ProcSound',
         task' \in TaskRec, SlotTypeOK', cpuOff' \in BOOLEAN,
         task'.st # "none" => task.st # "none" \/ res.state = "downloaded",
         turn # Poll.rpc, turn' \in 0 .. Poll.rpc, dirty' \in BOOLEAN, faults' \in 0 .. MaxFaults
  PROVE  ClientInv'
<1> USE DEF ClientInv, fileVars, rpcVars, Advances
<1>1. ClientTypeOK'
  BY DEF ClientTypeOK, FilesTypeOK, TasksTypeOK, SlotTypeOK
<1>2. InputSound'
  BY DEF InputSound, Relied, Gone
<1>3. AckSound'
  BY DEF AckSound, Gone
<1>4. OutputSound'
  BY DEF OutputSound, Honest, Usable, Settled
<1>5. SuccessSound'
  BY DEF SuccessSound, ResultSound, Successful, Settled, Promising
<1> QED
  BY <1>1, <1>2, <1>3, <1>4, <1>5

LEMMA AbortUnstartedLateJobsKeeps ==
  ASSUME ClientInv, AbortUnstartedLateJobs PROVE ClientInv'
<1> DEFINE s == AbortInactive(res, "error")
<1>1. /\ s \in ResRec /\ s.ready = res.ready /\ s.acked = res.acked
      /\ s.state = "aborted" /\ res.state \in Early /\ res' = s /\ UNCHANGED taskVars
      /\ UNCHANGED <<fileVars, rpcVars, saved>> /\ task.st = "none"
  BY Job, AbortInactiveIs DEF AbortUnstartedLateJobs, Early
<1>2. Advances
  BY <1>1, Job DEF Advances, taskVars, slotVars, oldVars, Gone, Early, Late
<1>3. Promising
  BY <1>1 DEF Promising, taskVars, slotVars, oldVars, Successful, Early
<1>4. ProcSound'
  BY <1>1, Job DEF ClientInv, ProcSound, taskVars, slotVars, oldVars, Gone, Late, Early
<1> QED
  BY <1>1, <1>2, <1>3, <1>4, Job, Counters, JobStep
     DEF AbortUnstartedLateJobs, taskVars, slotVars, oldVars, Poll, Clean

LEMMA AbortIfNotStartedKeeps == ASSUME ClientInv, AbortIfNotStarted PROVE ClientInv'
<1> DEFINE s == AbortInactive(res, "aborted")
<1>1. /\ s \in ResRec /\ s.ready = res.ready /\ s.acked = res.acked
      /\ s.state = "aborted" /\ s.exit = "aborted" /\ res.state \in Early /\ res' = s
      /\ UNCHANGED taskVars /\ UNCHANGED <<fileVars, rpcVars, saved>>
  BY Job, AbortInactiveIs DEF AbortIfNotStarted
<1>2. Advances
  BY <1>1, Job DEF Advances, taskVars, slotVars, oldVars, Gone, Early, Late
<1>3. Promising
  BY <1>1 DEF Promising, taskVars, slotVars, oldVars, Successful, Early
<1>4. ProcSound'
  BY <1>1, Job DEF ClientInv, ProcSound, taskVars, slotVars, oldVars, Gone, Late, Early
<1> QED
  BY <1>1, <1>2, <1>3, <1>4, Job, Counters, JobStep
     DEF AbortIfNotStarted, taskVars, slotVars, oldVars, Poll, Dirty

LEMMA AbortJobKeeps == ASSUME ClientInv, AbortJob PROVE ClientInv'
<1> USE Job, Counters DEF AbortJob, slotVars, oldVars
<1>1. CASE task.st = "none"
  <2> DEFINE s == AbortInactive(res, "aborted")
  <2>1. /\ s \in ResRec /\ s.ready = res.ready /\ s.acked = res.acked
        /\ s.state = "aborted" /\ s.exit = "aborted" /\ res.state \in Early /\ res' = s
        /\ task' = task
    BY <1>1, AbortInactiveIs
  <2>2. Advances
    BY <2>1 DEF Advances, Gone, Early, Late
  <2>3. Promising
    BY <1>1, <2>1 DEF Promising, Successful, Early
  <2>4. ProcSound'
    BY <2>1 DEF ClientInv, ProcSound, Gone, Late, Early
  <2> QED
    BY <1>1, <2>1, <2>2, <2>3, <2>4, JobStep DEF Dirty
<1>2. CASE task.st # "none"
  <2> DEFINE s == AbortTask(res, "aborted")
             u == AbortedTask(task)
  <2>1. /\ s \in ResRec /\ s.ready /\ s.acked = res.acked /\ s.state = "aborted"
        /\ s.exit # "zero" /\ res' = s
    BY <1>2, AbortTaskIs
  <2>2. /\ u \in TaskRec /\ u.copy = task.copy /\ u.st \in {"abort_pending", "aborted"}
        /\ task' = u
    BY <1>2, AbortedTaskIs
  <2>3. Advances
    BY <1>2, <2>1 DEF Advances, Gone, Late
  <2>4. Promising
    BY <2>1 DEF Promising, Successful, Early
  <2>5. ProcSound'
    BY <1>2, <2>1, <2>2 DEF ClientInv, ProcSound, Gone, Late, Early
  <2> QED
    BY <1>2, <2>1, <2>2, <2>3, <2>4, <2>5, JobStep DEF Dirty
<1> QED
  BY <1>1, <1>2

LEMMA UpdateResultsKeeps == ASSUME ClientInv, UpdateResults PROVE ClientInv'
<1> USE Job, Files DEF UpdateResults
<1>1. /\ res' \in ResRec /\ res'.acked = res.acked /\ res'.exit = res.exit
      /\ res.ready => res'.ready
  BY DEF ResRec, ResState
<1>2. \/ res.state = "new" /\ res'.state = "downloading" /\ res'.ready = res.ready
      \/ /\ res.state = "downloading" /\ inp.status = "present"
         /\ res'.state = "downloaded" /\ res'.ready = res.ready
      \/ res.state = "uploading" /\ IsUploadDone /\ res'.state = "uploaded"
      \/ res.state = "aborted" /\ res'.state = "aborted"
  BY DEF ResRec
<1>3. Advances
  BY <1>1, <1>2 DEF Advances, taskVars, slotVars, oldVars, Gone, Early, Late
<1>4. IsUploadDone /\ res.state = "uploading" => Settled(out)
  BY DEF IsUploadDone, ClientInv, OutputSound, Honest, Usable
<1>5. Promising
  BY <1>1, <1>2, <1>4
     DEF Promising, taskVars, slotVars, oldVars, Successful, Early, ClientInv, SuccessSound, ResultSound
<1>6. ProcSound'
  BY <1>1, <1>2 DEF ClientInv, ProcSound, taskVars, slotVars, oldVars, Gone, Late, Early, Exited
<1> QED
  BY <1>3, <1>5, <1>6, Counters, JobStep DEF taskVars, slotVars, oldVars, Poll, Clean

LEMMA PreemptJobKeeps == ASSUME ClientInv, PreemptJob PROVE ClientInv'
<1> USE Job DEF PreemptJob, slotVars, oldVars
<1>1. PICK t \in Preempted(task) : task' = [t EXCEPT !.sched = FALSE]
  OBVIOUS
<1>2. /\ task' \in TaskRec /\ task'.copy = task.copy /\ task.st # "none"
      /\ task'.st = task.st \/ (task.st \in {"executing", "suspended"}
                                /\ task'.st \in {"suspended", "quit_pending"})
  <2>1. /\ t \in TaskRec /\ t.copy = task.copy
        /\ t.st = task.st \/ (task.st \in {"executing", "suspended"}
                              /\ t.st \in {"suspended", "quit_pending"})
    BY PreemptedIs
  <2>2. task' \in TaskRec /\ task'.copy = t.copy /\ task'.st = t.st
    BY <1>1, <2>1 DEF TaskRec
  <2> QED
    BY <2>1, <2>2
<1>3. /\ res' \in ResRec /\ res'.state = res.state /\ res'.exit = res.exit
      /\ res'.ready = res.ready /\ res'.acked = res.acked
  BY DEF Listed, ComputingDone, ResRec
<1>4. Advances
  BY <1>3 DEF Advances, Gone
<1>5. Promising
  BY <1>2, <1>3 DEF Promising, Successful, ClientInv, SuccessSound, ResultSound
<1>6. ProcSound'
  BY <1>2, <1>3 DEF ClientInv, ProcSound, Gone, Exited
<1>7. dirty' \in BOOLEAN
  BY Counters
<1> QED
  BY <1>2, <1>4, <1>5, <1>6, <1>7, Counters, JobStep DEF Poll

LEMMA SuspendTasksKeeps == ASSUME ClientInv, SuspendTasks PROVE ClientInv'
<1> USE Job DEF SuspendTasks, slotVars, oldVars
<1>1. /\ task' \in TaskRec /\ task'.copy = task.copy
      /\ \/ task' = task
         \/ /\ task.st = "executing"
            /\ task'.st \in {"executing", "suspended", "quit_pending"}
  BY PreemptedIs
<1>2. Advances
  BY DEF Advances, Gone
<1>3. Promising
  BY <1>1 DEF Promising, Successful, ClientInv, SuccessSound, ResultSound
<1>4. ProcSound'
  BY <1>1 DEF ClientInv, ProcSound, Gone, Exited
<1> QED
  BY <1>1, <1>2, <1>3, <1>4, Counters, JobStep DEF Poll, Clean

(* A task with no process is started, or cannot be. *)
LEMMA BecomeKeeps ==
  ASSUME ClientInv, NEW t \in TaskRec, NEW u \in TaskRec, NEW r \in ResRec, Become(t, u, r),
         UNCHANGED <<fileVars, oldVars, rpcVars, saved, overwritten>>, cpuOff' \in BOOLEAN,
         r.state = res.state, r.exit = res.exit, r.ready = res.ready, r.acked = res.acked,
         t.st # "none", task.st # "none" \/ res.state = "downloaded",
         task.st = "none" => t.st = "uninitialized" /\ ~t.copy,
         task.st # "none" => t.st = task.st /\ (t.copy => task.copy),
         \/ u.st = t.st /\ u.copy = t.copy
         \/ proc = "none" /\ u.st = "copy_pending"
         \/ proc = "none" /\ u.st = "executing" /\ ~u.copy
         \/ t.st = "suspended" /\ u.st = "executing" /\ u.copy = t.copy,
         turn # Poll.rpc, turn' \in 0 .. Poll.rpc, dirty' \in BOOLEAN
  PROVE  ClientInv'
<1> USE Job
<1>1. proc # "none" => task.st # "none"
  BY DEF ClientInv, ProcSound, Early
<1>2. faults' \in 0 .. MaxFaults
  BY Counters DEF Become
<1>3. CASE task' = u /\ proc' = ProcOf(t, u) /\ res' = r
  <2>1. SlotTypeOK'
    <3>1. proc' \in {"none"} \cup Phase \cup How /\ UNCHANGED oldVars
      BY <1>3, Job DEF ProcOf, Started, Phase, SlotTypeOK
    <3> QED
      BY <3>1, Job DEF SlotTypeOK, oldVars
  <2>2. proc' # "none" => /\ proc # "none" \/ u.st = "executing"
                          /\ ~u.copy /\ u.st # "uninitialized"
                          /\ u.st = t.st \/ u.st = "executing"
    BY <1>1, <1>3 DEF ProcOf, ClientInv, ProcSound
  <2>3. Advances
    BY <1>3 DEF Advances, Gone
  <2>4. Promising
    BY <1>3 DEF Promising, Successful, ClientInv, SuccessSound, ResultSound, Early
  <2>5. ProcSound'
    BY <1>1, <1>3, <2>2 DEF ClientInv, ProcSound, Gone, Exited, Late, Early
  <2> QED
    BY <1>2, <1>3, <2>1, <2>3, <2>4, <2>5, JobStep
<1>4. CASE /\ u.st = "executing" /\ t.st \notin {"executing", "suspended"}
           /\ task' = [t EXCEPT !.st = "couldnt_start"] /\ proc' = proc
           /\ res' = ReportError(r)
  <2>1. task' \in TaskRec /\ task'.st = "couldnt_start" /\ proc' = "none"
    BY <1>4 DEF TaskRec, Exited
  <2>2. /\ res' \in ResRec /\ res'.ready /\ res'.acked = r.acked
        /\ \/ res'.state = r.state
           \/ r.state = "downloaded" /\ res'.state = "compute_error"
           \/ r.state = "uploading" /\ res'.state = "upload_failed"
        /\ res'.exit = "zero" => /\ r.exit = "zero"
                                 /\ r.ready \/ r.state \notin Early \cup {"uploading"}
    BY <1>4, ReportErrorIs
  <2>3. Advances
    BY <2>2 DEF Advances, Gone, Late
  <2>4. Promising
    BY <2>2 DEF Promising, Successful, ClientInv, SuccessSound, ResultSound, Early
  <2>5. ProcSound'
    BY <2>1, <2>2 DEF ClientInv, ProcSound, Gone, Exited, Late, Early
  <2> QED
    BY <1>2, <1>4, <2>1, <2>3, <2>4, <2>5, JobStep
<1> QED
  BY <1>3, <1>4 DEF Become

LEMMA RunJobKeeps == ASSUME ClientInv, RunJob PROVE ClientInv'
<1> USE Job DEF RunJob
<1> DEFINE t == IF task.st = "none" THEN NewTask ELSE task
           v == ResumeOrStart(t)
           u == [v EXCEPT !.sched = TRUE]
           r == Listed(res, task)
<1>1. /\ t \in TaskRec /\ t.st # "none" /\ (task.st # "none" => t = task)
      /\ task.st = "none" => t.st = "uninitialized" /\ ~t.copy
  BY DEF NewTask, NoTask, TaskRec
<1>2. /\ v \in TaskRec
      /\ \/ v = t
         \/ t.st = "uninitialized" /\ ~t.copy /\ v.st = "copy_pending" /\ v.copy
         \/ t.st = "uninitialized" /\ ~t.copy /\ v.st = "executing" /\ ~v.copy
         \/ t.st = "suspended" /\ v.st = "executing" /\ v.copy = t.copy
  BY <1>1, ResumeOrStartIs
<1>3. u \in TaskRec /\ u.st = v.st /\ u.copy = v.copy
  <2> HIDE DEF v
  <2> QED
    BY <1>2 DEF TaskRec
<1>4. /\ r \in ResRec /\ r.state = res.state /\ r.exit = res.exit
      /\ r.ready = res.ready /\ r.acked = res.acked
  BY DEF Listed, ComputingDone, ResRec
<1>5. t.st = "uninitialized" => proc = "none"
  BY <1>1 DEF ClientInv, ProcSound, Early, Runnable
<1>6. Become(t, u, r) /\ dirty' = (dirty \/ u.st # t.st)
  OBVIOUS
<1> HIDE DEF t, v, u, r
<1> QED
  BY <1>1, <1>2, <1>3, <1>4, <1>5, <1>6, Counters, BecomeKeeps DEF Runnable, Poll

LEMMA ResumeTasksKeeps == ASSUME ClientInv, ResumeTasks PROVE ClientInv'
<1> DEFINE u == ResumeOrStart(task)
<1> USE Job
<1>3. /\ UNCHANGED <<fileVars, oldVars, rpcVars, saved, overwritten>> /\ cpuOff' \in BOOLEAN
      /\ turn # Poll.rpc /\ turn' \in 0 .. Poll.rpc /\ dirty' \in BOOLEAN
  <2>1. UNCHANGED <<fileVars, oldVars, rpcVars, saved, overwritten>>
    BY DEF ResumeTasks
  <2>2. cpuOff' = FALSE /\ dirty' = dirty /\ Turn(Poll.suspend)
    BY DEF ResumeTasks, Clean
  <2>3. turn # Poll.rpc /\ turn' \in 0 .. Poll.rpc
    BY <2>2, Counters DEF Poll
  <2>4. cpuOff' \in BOOLEAN /\ dirty' \in BOOLEAN
    BY <2>2, Counters
  <2> QED
    BY <2>1, <2>3, <2>4
<1>1. CASE task.sched
  <2>1. task.st # "none"
    BY <1>1 DEF NoTask
  <2>2. /\ u \in TaskRec
        /\ \/ u = task
           \/ task.st = "uninitialized" /\ ~task.copy /\ u.st = "copy_pending" /\ u.copy
           \/ task.st = "uninitialized" /\ ~task.copy /\ u.st = "executing" /\ ~u.copy
           \/ task.st = "suspended" /\ u.st = "executing" /\ u.copy = task.copy
    BY ResumeOrStartIs
  <2>3. task.st = "uninitialized" => proc = "none"
    BY DEF ClientInv, ProcSound
  <2>4. Become(task, u, res)
    BY <1>1 DEF ResumeTasks
  <2> HIDE DEF u
  <2> QED
    BY <1>3, <2>1, <2>2, <2>3, <2>4, BecomeKeeps
<1>2. CASE ~task.sched
  <2>1. UNCHANGED <<task, slotVars, res>> /\ NoFault
    BY <1>2, <1>3 DEF ResumeTasks, slotVars
  <2>2. Advances /\ Promising /\ ProcSound'
    BY <1>3, <2>1 DEF Advances, Promising, Successful, ClientInv, SuccessSound, ResultSound,
       ProcSound, Gone, slotVars
  <2> QED
    BY <1>3, <2>1, <2>2, Counters, JobStep
<1> QED
  BY <1>1, <1>2

LEMMA CopyEndsKeeps == ASSUME ClientInv, CopyEnds PROVE ClientInv'
<1> USE Job DEF CopyEnds, slotVars, oldVars
<1> DEFINE t == [task EXCEPT !.copy = FALSE, !.slot = TRUE]
           u == Start(t)
<1>1. t \in TaskRec /\ t.st = task.st /\ ~t.copy /\ task.st # "none" /\ proc = "none"
  <2>1. task.copy
    OBVIOUS
  <2> HIDE DEF CopyEnds
  <2>2. t \in TaskRec /\ t.st = task.st /\ t.copy = FALSE
    BY DEF TaskRec
  <2> QED
    BY <2>1, <2>2 DEF NoTask
<1>2. CASE t.sched
  <2>1. /\ u \in TaskRec
        /\ \/ u = t
           \/ u.st = "copy_pending" /\ u.copy
           \/ u.st = "executing" /\ ~u.copy
    BY <1>1, StartIs
  <2>2. Become(t, u, res)
    BY <1>2
  <2> HIDE DEF t, u
  <2> QED
    BY <1>1, <2>1, <2>2, Counters, BecomeKeeps
<1>3. CASE ~t.sched
  <2>1. task' = t /\ UNCHANGED <<slotVars, res>> /\ NoFault
    BY <1>3
  <2>2. Advances
    BY <2>1 DEF Advances, Gone
  <2> HIDE DEF t
  <2>3. Promising
    BY <1>1, <2>1 DEF Promising, Successful, ClientInv, SuccessSound, ResultSound
  <2>4. ProcSound'
    BY <1>1, <2>1 DEF ClientInv, ProcSound, Gone
  <2> QED
    BY <1>1, <2>1, <2>2, <2>3, <2>4, Counters, JobStep
<1> QED
  BY <1>2, <1>3

LEMMA CopyFailsKeeps == ASSUME ClientInv, CopyFails PROVE ClientInv'
<1> USE Job DEF CopyFails, slotVars, oldVars
<1>1. task.st # "none" /\ proc = "none"
  BY DEF NoTask
<1>2. task' \in TaskRec /\ task'.st = "couldnt_start"
  BY DEF TaskRec, Exited
<1>3. /\ res' \in ResRec /\ res'.ready /\ res'.acked = res.acked
      /\ \/ res'.state = res.state
         \/ res.state = "downloaded" /\ res'.state = "compute_error"
         \/ res.state = "uploading" /\ res'.state = "upload_failed"
      /\ res'.exit = "zero" => /\ res.exit = "zero"
                               /\ res.ready \/ res.state \notin Early \cup {"uploading"}
  BY ReportErrorIs
<1>4. Advances
  BY <1>3 DEF Advances, Gone, Late
<1>5. Promising
  BY <1>1, <1>3 DEF Promising, Successful, ClientInv, SuccessSound, ResultSound, Early
<1>6. ProcSound'
  BY <1>1, <1>2, <1>3 DEF ClientInv, ProcSound, Gone, Exited, Late, Early
<1> QED
  BY <1>1, <1>2, <1>4, <1>5, <1>6, Counters, JobStep

LEMMA PollActiveTasksKeeps == ASSUME ClientInv, PollActiveTasks PROVE ClientInv'
<1>1. /\ proc \in How /\ proc # "none" /\ proc' = "none" /\ Turn(Poll.tasks)
      /\ overwritten' = (overwritten \/ (res.exit # "zero" /\ res'.exit = "zero"))
      /\ UNCHANGED <<fileVars, cpuOff, rpcVars, saved>> /\ NoFault
  BY DEF PollActiveTasks, How
<1>2. dirty' \in BOOLEAN
  BY Counters DEF PollActiveTasks, Dirty
<1>3. /\ turn # Poll.rpc /\ turn' \in 0 .. Poll.rpc /\ faults' \in 0 .. MaxFaults
      /\ SlotTypeOK' /\ cpuOff' \in BOOLEAN /\ overwritten' \in BOOLEAN
  <2>1. SlotTypeOK'
    <3>1. Deleted(old) \subseteq Phase /\ exposed \in BOOLEAN
      BY Job, DeletedIs DEF SlotTypeOK
    <3>2. old' \in {old, Deleted(old)} /\ exposed' \in BOOLEAN
      BY <3>1 DEF PollActiveTasks, oldVars
    <3> QED
      BY <1>1, <3>1, <3>2, Job DEF SlotTypeOK
  <2> QED
    BY <1>1, <2>1, Counters, Job DEF Poll
<1>4. CASE task.st = "none"
  <2>1. UNCHANGED <<task, res>>
    BY <1>4 DEF PollActiveTasks
  <2>2. Advances /\ Promising /\ ProcSound'
    BY <1>1, <1>3, <2>1, Job DEF Advances, Promising, Successful, ClientInv, SuccessSound,
       ResultSound, ProcSound, Gone
  <2> QED
    BY <1>1, <1>2, <1>3, <2>1, <2>2, Job, JobStep
<1>5. CASE task.st # "none"
  <2> DEFINE z == [res EXCEPT !.exit = "zero"]
             q == [res EXCEPT !.exit = "error"]
             s == ReportError(q)
  <2>1. task' = ExitedTask(task, proc) /\ res' \in {res, z, s}
    <3>1. proc \in {"quit", "error", "finished"}
      BY <1>1, Job DEF How
    <3> QED
      BY <1>5, <3>1 DEF PollActiveTasks
  <2>2. /\ task' \in TaskRec /\ task'.copy = task.copy
        /\ task'.st \in {"uninitialized", "exited", "aborted"}
    BY <2>1, Job, ExitedTaskIs
  <2>3. z \in ResRec /\ z.state = res.state /\ z.ready = res.ready /\ z.acked = res.acked
    BY Job DEF ResRec
  <2>4. /\ q \in ResRec /\ q.state = res.state /\ q.ready = res.ready /\ q.acked = res.acked
        /\ q.exit = "error"
    BY Job DEF ResRec
  <2>5. /\ s \in ResRec /\ s.ready /\ s.acked = res.acked /\ s.exit # "zero"
        /\ \/ s.state = res.state
           \/ res.state = "downloaded" /\ s.state = "compute_error"
           \/ res.state = "uploading" /\ s.state = "upload_failed"
    BY <2>4, ReportErrorIs
  <2> HIDE DEF z, q, s
  <2>6. res.state \notin {"new", "downloading"} \cup Late /\ ~Gone
    BY <1>1, <1>5, Job DEF ClientInv, ProcSound
  <2>7. Advances
    BY <1>3, <1>1, <2>1, <2>3, <2>5, <2>6, Job DEF Advances, Gone, Late
  <2>8. /\ res' \in ResRec
        /\ res'.exit = "zero" => /\ overwritten' \/ res.exit = "zero"
                                 /\ res'.state = res.state /\ res'.ready = res.ready
    BY <1>1, <2>1, <2>3, <2>5, Job
  <2>9. Promising
    BY <1>1, <1>5, <2>6, <2>8
       DEF Promising, Successful, ClientInv, SuccessSound, ResultSound, Late, Early
  <2>10. ProcSound'
    BY <1>1, <2>1, <2>2, <2>3, <2>5, <2>6 DEF ProcSound, Gone, Late
  <2> QED
    BY <1>1, <1>2, <1>3, <1>5, <2>2, <2>7, <2>9, <2>10, JobStep
<1> QED
  BY <1>4, <1>5

(***************************************************************************)
(* The output file is looked for: the result waits for its upload only if  *)
(* it is there.  A task whose process goes on has no result that is well.  *)
(***************************************************************************)
LEMMA HandleFinishedAppsKeeps == ASSUME ClientInv, HandleFinishedApps PROVE ClientInv'
<1>1. /\ task.st \in Exited /\ task' = NoTask /\ UNCHANGED <<inp, stored, slotVars, cpuOff>>
      /\ UNCHANGED <<overwritten, rpcVars, saved>> /\ out' = FoundOutput
      /\ dirty' = TRUE /\ Turn(Poll.finished) /\ NoFault
  BY DEF HandleFinishedApps, Dirty
<1>2. /\ out' \in OutRec /\ out'.pfx = out.pfx /\ out'.ret = out.ret /\ out'.disk = out.disk
      /\ out'.uploaded = out.uploaded /\ out'.givenUp = out.givenUp
      /\ res.exit = "zero" /\ ~out.uploaded => out'.status = "failed" \/ out.disk
  BY <1>1, Files DEF FoundOutput, OutRec, Status
<1>3. /\ res' \in ResRec /\ res'.exit = res.exit /\ res'.ready = res.ready
      /\ res'.acked = res.acked /\ res'.state \in {"aborted", "compute_error", "uploading"}
      /\ res'.state = "uploading" => res.exit = "zero" /\ out'.status # "failed"
  BY <1>1, Job DEF HandleFinishedApps, ResRec, ResState
<1>4. res.state \notin {"new", "downloading"} \cup Late /\ ~Gone /\ task.st # "none" /\ Safe(inp)
  BY <1>1, Job DEF Exited
<1>5. res'.state = "uploading" => proc = "none"
  BY <1>1, <1>3 DEF ClientInv, ProcSound
<1>6. turn # Poll.rpc /\ turn' \in 0 .. Poll.rpc /\ faults' \in 0 .. MaxFaults
  BY <1>1, Counters DEF Poll
<1>7. ClientTypeOK'
  <2>1. SlotTypeOK'
    BY <1>1 DEF ClientInv, ClientTypeOK, TasksTypeOK, SlotTypeOK, slotVars, oldVars
  <2> QED
    BY <1>1, <1>2, <1>3, <1>6, <2>1 DEF rpcVars, NoTask, TaskRec, ClientInv, ClientTypeOK,
       FilesTypeOK, TasksTypeOK
<1>8. InputSound'
  BY <1>1, <1>3, <1>4 DEF ClientInv, InputSound, Relied, Gone
<1>9. AckSound'
  BY <1>1, <1>3, <1>4, <1>6 DEF ClientInv, AckSound, Gone, rpcVars
<1>10. ProcSound'
  BY <1>1, <1>3, <1>5 DEF ProcSound, Late, Early, Gone, NoTask, Exited, slotVars
<1>11. OutputSound'
  <2>1. Honest(out)' /\ (saved'.uploaded => Settled(out)')
    BY <1>1, <1>2 DEF ClientInv, OutputSound, Honest, Settled
  <2>2. res'.state = "uploading" => Usable(out)'
    BY <1>1, <1>2, <1>3, <2>1 DEF Honest, Settled, Usable
  <2>3. saved'.res.state = "uploading" => saved'.res.acked
    BY <1>1, <1>4 DEF ClientInv, OutputSound
  <2> QED
    BY <2>1, <2>2, <2>3 DEF OutputSound
<1>12. SuccessSound'
  <2>1. Settled(out)' <=> Settled(out)
    BY <1>1, <1>2 DEF Settled
  <2>2. ResultSound(res)'
    BY <1>1, <1>3, <1>4 DEF ResultSound, Successful, ClientInv, SuccessSound, Early
  <2>3. ResultSound(saved.res)'
    BY <1>1, <2>1 DEF ResultSound, Successful, ClientInv, SuccessSound
  <2> QED
    BY <1>1, <2>1, <2>2, <2>3 DEF ClientInv, SuccessSound, rpcVars, NoTask
<1> QED
  BY <1>7, <1>8, <1>9, <1>10, <1>11, <1>12 DEF ClientInv

LEMMA GarbageCollectKeeps == ASSUME ClientInv, GarbageCollect PROVE ClientInv'
<1>1. /\ Turn(Poll.garbage) /\ ~Gone /\ UNCHANGED <<stored, rpcVars, saved, dirty>> /\ NoFault
  BY DEF GarbageCollect, Clean
<1>2. turn # Poll.rpc /\ turn' \in 0 .. Poll.rpc /\ faults' \in 0 .. MaxFaults /\ dirty' \in BOOLEAN
  BY <1>1, Counters DEF Poll
<1>3. CASE res.acked /\ task.st = "none" /\ DeleteResult /\ UNCHANGED taskVars
  <2>1. /\ res' \in ResRec /\ res'.state = "gone" /\ res'.acked = res.acked
        /\ res'.ready = res.ready /\ res'.exit = res.exit
    BY <1>3, Job DEF DeleteResult, ResRec, ResState
  <2>2. /\ inp' = NewInput(inp.big) /\ inp' \in InpRec /\ inp'.big = inp.big /\ ~inp'.verify
    BY <1>3, Files DEF DeleteResult, NewInput, InpRec, Status, Disk, Pfx, Ret
  <2>3. /\ out' \in OutRec /\ out'.givenUp = out.givenUp /\ out'.pfx = "none"
        /\ out'.ret = "none" /\ ~out'.uploaded
    BY <1>3, Files DEF DeleteResult, NewOutput, OutRec, Status, Pfx, Ret
  <2>4. saved.res.acked
    BY <1>2, <1>3 DEF ClientInv, AckSound
  <2>5. Settled(out)' <=> Settled(out)
    BY <1>1, <2>3 DEF Settled
  <2> USE <1>1, <1>2, <1>3, <2>1, <2>2, <2>3, <2>4 DEF ClientInv, taskVars, slotVars, oldVars, rpcVars
  <2>6. ClientTypeOK'
    BY DEF ClientTypeOK, FilesTypeOK, TasksTypeOK, SlotTypeOK
  <2>7. InputSound'
    BY DEF InputSound, Checked, Gone
  <2>8. AckSound'
    BY DEF AckSound, Gone
  <2>9. ProcSound'
    BY DEF ProcSound, Gone, Late, Early, Exited
  <2>10. OutputSound'
    BY <2>5 DEF OutputSound, Honest, Late
  <2>11. SuccessSound'
    BY <2>5 DEF SuccessSound, ResultSound, Successful, Early
  <2> QED
    BY <2>6, <2>7, <2>8, <2>9, <2>10, <2>11
<1>4. CASE ~(res.acked /\ task.st = "none") /\ CheckFiles
  <2> DEFINE stillActive == res.acked /\ task.st # "none"
             r1 == IF stillActive THEN AbortTask(res, "error") ELSE res
             t1 == IF stillActive THEN AbortedTask(task) ELSE task
             r2 == IF inp.status = "failed" THEN ReportError(r1) ELSE r1
             uploadError == ~r2.ready /\ out.status = "failed"
             running == uploadError /\ t1.st \in {"executing", "suspended"}
             r3 == IF running THEN AbortTask(r2, "error")
                   ELSE IF uploadError THEN ReportError(r2) ELSE r2
             t3 == IF running THEN AbortedTask(t1) ELSE t1
  <2>1. res' = r3 /\ task' = t3 /\ UNCHANGED <<inp, out, slotVars, cpuOff, overwritten>>
    BY <1>4 DEF CheckFiles
  <2>2. /\ r1 \in ResRec /\ r1.acked = res.acked /\ t1 \in TaskRec /\ t1.copy = task.copy
        /\ \/ r1 = res /\ t1 = task
           \/ /\ task.st # "none" /\ t1.st \in {"abort_pending", "aborted"}
              /\ r1.ready /\ r1.state = "aborted" /\ r1.exit # "zero"
    BY Job, AbortTaskIs, AbortedTaskIs
  <2> HIDE DEF r1, t1
  <2>3. /\ r2 \in ResRec /\ r2.acked = r1.acked /\ (r1.ready => r2.ready)
        /\ \/ r2.state = r1.state
           \/ r1.state = "downloaded" /\ r2.state = "compute_error" /\ r2.ready
           \/ r1.state = "uploading" /\ r2.state = "upload_failed" /\ r2.ready
        /\ r2.exit = "zero" => /\ r1.exit = "zero"
                               /\ \/ r2 = r1
                                  \/ r1.ready
                                  \/ r1.state \notin Early \cup {"uploading"}
    BY <2>2, ReportErrorIs
  <2> HIDE DEF r2
  <2>4. /\ r3 \in ResRec /\ r3.acked = r2.acked /\ (r2.ready => r3.ready)
        /\ t3 \in TaskRec /\ t3.copy = t1.copy
        /\ \/ t3 = t1 /\ (\/ r3.state = r2.state
                          \/ r2.state = "downloaded" /\ r3.state = "compute_error" /\ r3.ready
                          \/ r2.state = "uploading" /\ r3.state = "upload_failed" /\ r3.ready)
           \/ /\ t1.st \in {"executing", "suspended"} /\ t3.st \in {"abort_pending", "aborted"}
              /\ r3.ready /\ r3.state = "aborted" /\ r3.exit # "zero"
        /\ r3.exit = "zero" => /\ r2.exit = "zero"
                               /\ \/ r3 = r2
                                  \/ r2.ready
                                  \/ r2.state \notin Early \cup {"uploading"}
    BY <2>2, <2>3, ReportErrorIs, AbortTaskIs, AbortedTaskIs
  <2> HIDE DEF r3, t3
  <2>5. task.st = "none" => task'.st = "none" /\ task' = task
    BY <2>1, <2>2, <2>4
  <2>6. \/ task' = task
        \/ task.st # "none" /\ task'.st \in {"abort_pending", "aborted"} /\ res'.ready
    BY <2>1, <2>2, <2>3, <2>4
  <2>7. Advances
    BY <1>1, <2>1, <2>2, <2>3, <2>4, Job DEF Advances, Gone, Late
  <2>8. Promising
    BY <2>1, <2>2, <2>3, <2>4, <2>5, <2>6, Job
       DEF Promising, Successful, ClientInv, SuccessSound, ResultSound, Early
  <2>9. ProcSound'
    BY <1>1, <2>1, <2>2, <2>3, <2>4, <2>5, <2>6, Job
       DEF ClientInv, ProcSound, Gone, Late, Early, Exited, slotVars
  <2> QED
    BY <1>1, <1>2, <2>1, <2>4, <2>5, <2>7, <2>8, <2>9, Job, JobStep DEF fileVars
<1> QED
  BY <1>3, <1>4 DEF GarbageCollect

(* A process changes, and nothing else but the output that it may have written. *)
LEMMA SlotStep ==
  ASSUME ClientInv, IO, UNCHANGED <<inp, stored, task, cpuOff, overwritten, others>>,
         SlotTypeOK', proc' # "none" => proc # "none", Fault \/ NoFault,
         NEW there \in BOOLEAN, out' = [out EXCEPT !.disk = there],
         there \/ out.disk = there \/ proc # "none"
  PROVE  ClientInv'
<1>1. /\ out' \in OutRec /\ out'.pfx = out.pfx /\ out'.ret = out.ret /\ out'.status = out.status
      /\ out'.uploaded = out.uploaded /\ out'.givenUp = out.givenUp
      /\ out'.disk \/ out'.disk = out.disk \/ proc # "none"
  BY Files DEF OutRec
<1>2. turn # Poll.rpc /\ turn' = turn /\ faults' \in 0 .. MaxFaults
  BY Counters
<1> USE <1>1, <1>2 DEF ClientInv, others, rpcVars
<1>3. ClientTypeOK'
  BY DEF ClientTypeOK, FilesTypeOK, TasksTypeOK
<1>4. InputSound'
  BY DEF InputSound, Relied, Gone
<1>5. AckSound'
  BY DEF AckSound, Gone
<1>6. ProcSound'
  BY DEF ProcSound, Gone
<1>7. OutputSound'
  BY DEF OutputSound, ProcSound, Honest, Usable, Settled, Late
<1>8. SuccessSound'
  BY DEF SuccessSound, ResultSound, Successful, Settled
<1> QED
  BY <1>3, <1>4, <1>5, <1>6, <1>7, <1>8

(* The process of this client ends: a result whose job has one waits for no upload. *)
LEMMA ProcessEnds ==
  ASSUME ClientInv, NEW how \in How, EndProcess(how)
  PROVE  SlotTypeOK' /\ proc # "none" /\ UNCHANGED <<task, exposed, cpuOff, overwritten>>
<1>1. Deleted(old) \subseteq Phase /\ old \subseteq Phase /\ exposed \in BOOLEAN
  BY Job, DeletedIs DEF SlotTypeOK
<1> QED
  BY <1>1 DEF EndProcess, OldAfter, SlotTypeOK, Phase, AtWork

LEMMA FinishesKeeps == ASSUME ClientInv, NEW there \in BOOLEAN, Finishes(there) PROVE ClientInv'
<1>1. IO /\ EndProcess("finished") /\ out' = [out EXCEPT !.disk = there]
      /\ UNCHANGED <<inp, stored, others>> /\ (Fault \/ NoFault)
  BY DEF Finishes
<1> QED
  BY <1>1, ProcessEnds, SlotStep DEF How

(* Steps that leave the output alone. *)
LEMMA SameOutput == ASSUME ClientInv, out' = out PROVE out' = [out EXCEPT !.disk = out.disk]
  BY Files DEF OutRec

LEMMA QuitsKeeps == ASSUME ClientInv, Quits \/ Crashes PROVE ClientInv'
<1>1. PICK how \in How : IO /\ EndProcess(how) /\ UNCHANGED <<fileVars, others>>
                         /\ (Fault \/ NoFault)
  BY DEF Quits, Crashes, How
<1>2. out.disk \in BOOLEAN
  BY Files DEF OutRec
<1> QED
  BY <1>1, <1>2, ProcessEnds, SameOutput, SlotStep DEF fileVars

LEMMA LocksSlotKeeps == ASSUME ClientInv, LocksSlot \/ OldLocksSlot PROVE ClientInv'
<1>1. IO /\ UNCHANGED <<fileVars, slotOnly>> /\ (Fault \/ NoFault)
  BY DEF LocksSlot, OldLocksSlot
<1>2. SlotTypeOK' /\ (proc' # "none" => proc # "none")
  <2>1. CASE LocksSlot
    BY <2>1, Job, LockIs DEF LocksSlot, Locks, SlotTypeOK, oldVars, How
  <2>2. CASE OldLocksSlot
    BY <2>2, Job DEF OldLocksSlot, OldLocks, SlotTypeOK
  <2> QED
    BY <2>1, <2>2
<1>3. out.disk \in BOOLEAN
  BY Files DEF OutRec
<1> QED
  BY <1>1, <1>2, <1>3, SameOutput, SlotStep DEF fileVars, slotOnly

LEMMA OldProcessEndsKeeps == ASSUME ClientInv, OldProcessEnds PROVE ClientInv'
<1>1. PICK p \in Phase :
        /\ OldEnds(p)
        /\ out' \in {out} \cup IF p \in AtWork THEN {[out EXCEPT !.disk = TRUE]} ELSE {}
  BY DEF OldProcessEnds
<1>2. IO /\ UNCHANGED <<inp, stored, slotOnly>> /\ (Fault \/ NoFault)
  BY DEF OldProcessEnds
<1>3. SlotTypeOK' /\ (proc' # "none" => proc # "none")
  <2>1. CASE old' = old \ {p} /\ proc' = proc
    BY <1>1, <2>1, Job DEF OldEnds, SlotTypeOK
  <2>2. CASE old' = Deleted(old \ {p}) /\ proc' = FileDeleted(proc)
    <3>1. Deleted(old \ {p}) \subseteq Phase
      BY Job, DeletedIs DEF SlotTypeOK
    <3>2. /\ FileDeleted(proc) \in {"none"} \cup Phase \cup How
          /\ FileDeleted(proc) # "none" => proc # "none"
      BY Job DEF FileDeleted, SlotTypeOK, Phase, How
    <3> QED
      BY <1>1, <2>2, <3>1, <3>2, Job DEF OldEnds, SlotTypeOK
  <2> QED
    BY <1>1, <2>1, <2>2 DEF OldEnds
<1>4. \/ out' = [out EXCEPT !.disk = out.disk]
      \/ out' = [out EXCEPT !.disk = TRUE]
  BY <1>1, SameOutput
<1>5. out.disk \in BOOLEAN
  BY Files DEF OutRec
<1> QED
  BY <1>2, <1>3, <1>4, <1>5, SlotStep DEF slotOnly

-----------------------------------------------------------------------------
(* Requests to the scheduler. *)

LEMMA RequestsKeep ==
  ASSUME ClientInv, StartRpc \/ ServerReplies \/ RequestLost
  PROVE  ClientInv'
<1>1. /\ UNCHANGED <<fileVars, taskVars, res, saved>> /\ turn # Poll.rpc
      /\ turn' \in 0 .. Poll.rpc /\ dirty' \in BOOLEAN /\ faults' \in 0 .. MaxFaults
  <2>1. CASE StartRpc
    <3>1. turn # Poll.rpc /\ turn' = Poll.rpc
      BY <2>1, Counters DEF StartRpc, Turn, Poll
    <3> QED
      BY <2>1, <3>1, Counters DEF StartRpc, Clean, Poll
  <2>2. CASE ServerReplies \/ RequestLost
    BY <2>2, Counters DEF ServerReplies, RequestLost
  <2> QED
    BY <2>1, <2>2
<1>2. /\ rpc' \in Report \cup {"idle", "acked", "failed"} /\ got' \subseteq Report
      /\ got \subseteq got' /\ (rpc' = "acked" => got' # {})
      /\ rpc' # "idle" => rpc # "idle" \/ res.ready
      /\ rpc' = "success" => rpc = "success" \/ Successful(res)
      /\ "success" \in got' => rpc = "success" \/ "success" \in got
  BY DEF StartRpc, ServerReplies, RequestLost, Content, Successful, Report, ClientInv,
     ClientTypeOK
<1> USE <1>1, <1>2 DEF ClientInv, fileVars, taskVars, slotVars, oldVars
<1>3. ClientTypeOK'
  BY DEF ClientTypeOK, FilesTypeOK, TasksTypeOK, SlotTypeOK
<1>4. InputSound'
  BY DEF InputSound, Relied, Gone
<1>5. AckSound'
  BY DEF AckSound, Gone
<1>6. ProcSound'
  BY DEF ProcSound, Gone
<1>7. OutputSound'
  BY DEF OutputSound, Honest, Usable, Settled
<1>8. SuccessSound'
  BY DEF SuccessSound, ResultSound, Successful, Settled
<1> QED
  BY <1>3, <1>4, <1>5, <1>6, <1>7, <1>8

(* The reply is handled: the result may be deleted when that has been written. *)
LEMMA HandleReplyKeeps == ASSUME ClientInv, HandleReply PROVE ClientInv'
<1>1. /\ UNCHANGED <<fileVars, taskVars, got, saved>> /\ turn' = Poll.rpc /\ dirty' = TRUE
      /\ rpc # "idle" /\ rpc' = "idle" /\ faults' \in 0 .. MaxFaults
  BY Counters DEF HandleReply, Dirty, Turn
<1>2. /\ res' \in ResRec /\ res'.state = res.state /\ res'.ready = res.ready
      /\ res'.exit = res.exit /\ (res.acked => res'.acked)
      /\ (res'.acked => res.acked \/ rpc = "acked")
  BY Job DEF HandleReply, ResRec
<1> USE <1>1, <1>2 DEF ClientInv, fileVars, taskVars, slotVars, oldVars
<1>3. ClientTypeOK'
  BY DEF ClientTypeOK, FilesTypeOK, TasksTypeOK, SlotTypeOK, Poll
<1>4. InputSound'
  BY DEF InputSound, Relied, Gone
<1>5. AckSound'
  BY DEF AckSound, Gone
<1>6. ProcSound'
  BY DEF ProcSound, Gone
<1>7. OutputSound'
  BY DEF OutputSound, Honest, Usable, Settled
<1>8. SuccessSound'
  BY DEF SuccessSound, ResultSound, Successful, Settled
<1> QED
  BY <1>3, <1>4, <1>5, <1>6, <1>7, <1>8

-----------------------------------------------------------------------------
(* The state file. *)

LEMMA EndPassKeeps == ASSUME ClientInv, EndPass PROVE ClientInv'
<1>1. /\ UNCHANGED <<fileVars, taskVars, res, rpcVars>> /\ turn' = 0 /\ dirty' = FALSE
      /\ saved' = (IF dirty THEN Persist ELSE saved) /\ faults' \in 0 .. MaxFaults
      /\ turn' \in 0 .. Poll.rpc
  BY Counters DEF EndPass, Poll
<1>2. /\ Persist \in SavedRec /\ Persist.inp.status = inp.status
      /\ Persist.out.status = out.status /\ Persist.uploaded = out.uploaded
      /\ Persist.res.state = res.state /\ Persist.res.ready = res.ready
      /\ Persist.res.acked = res.acked /\ Persist.res.exit = res.exit
  <2>1. PersistFile(inp) \in SavedFile /\ PersistFile(inp).status = inp.status
    BY Files DEF PersistFile, SavedFile, InpRec
  <2>2. PersistFile(out) \in SavedFile /\ PersistFile(out).status = out.status
    BY Files DEF PersistFile, SavedFile, OutRec
  <2>3. out.uploaded \in BOOLEAN /\ task.sched \in BOOLEAN
    BY Files, Job DEF OutRec, TaskRec
  <2> QED
    BY <2>1, <2>2, <2>3, Job DEF Persist, SavedRec, ResRec
<1> HIDE DEF Persist
<1>3. CASE ~dirty
  <2> USE <1>1, <1>3 DEF ClientInv, fileVars, taskVars, slotVars, oldVars, rpcVars
  <2>1. ClientTypeOK'
    BY DEF ClientTypeOK, FilesTypeOK, TasksTypeOK, SlotTypeOK
  <2>2. InputSound' /\ AckSound'
    BY DEF InputSound, Relied, Gone, AckSound
  <2>3. ProcSound'
    BY DEF ProcSound, Gone
  <2>4. OutputSound' /\ SuccessSound'
    BY DEF OutputSound, Honest, Usable, Settled, SuccessSound, ResultSound, Successful
  <2> QED
    BY <2>1, <2>2, <2>3, <2>4
<1>4. CASE dirty
  <2>0. saved' = Persist
    BY <1>1, <1>4
  <2> USE <1>1, <1>2, <2>0 DEF ClientInv, fileVars, taskVars, slotVars, oldVars, rpcVars
  <2>1. ClientTypeOK'
    BY DEF ClientTypeOK, FilesTypeOK, TasksTypeOK, SlotTypeOK
  <2>2. InputSound'
    BY DEF InputSound, Relied, Gone
  <2>3. AckSound'
    BY DEF AckSound, Gone
  <2>4. ProcSound'
    BY DEF ProcSound, Gone
  <2>5. OutputSound'
    BY DEF OutputSound, Honest, Usable, Settled, Late
  <2>6. SuccessSound'
    BY DEF SuccessSound, ResultSound, Successful, Settled
  <2> QED
    BY <2>1, <2>2, <2>3, <2>4, <2>5, <2>6
<1> QED
  BY <1>3, <1>4

(***************************************************************************)
(* The client starts again with what the state file says; the files on the *)
(* disk and on the server are as they were.                                *)
(***************************************************************************)
LEMMA RestartIs ==
  ASSUME ClientInv
  PROVE  /\ LET f == RestartInput(inp, saved.inp) IN
            /\ f \in InpRec /\ f.big = inp.big /\ f.disk = inp.disk /\ f.pfx \in {"none", "wait"}
            /\ ~f.verify /\ (f.status = "present" => saved.inp.status = "present")
         /\ LET o == RestartOutput(out, saved.out, saved.uploaded) IN
            /\ o \in OutRec /\ o.disk = out.disk /\ o.pfx \in {"none", "wait"} /\ o.ret = "none"
            /\ o.uploaded = saved.uploaded /\ o.givenUp = out.givenUp
            /\ o.status = "failed" => saved.out.status = "failed"
<1>1. /\ saved.inp.status \in Status /\ saved.out.status \in Status
      /\ saved.uploaded \in BOOLEAN
  BY DEF ClientInv, ClientTypeOK, SavedRec, SavedFile
<1>2. \A s \in Status, there \in BOOLEAN :
        /\ RestartedStatus(s, there) \in Status \ {"verifying"}
        /\ RestartedStatus(s, there) \in {"present", "failed"} => RestartedStatus(s, there) = s
  BY DEF RestartedStatus, Status
<1>3. RestartedPfx(saved.inp) \in {"none", "wait"} /\ RestartedPfx(saved.out) \in {"none", "wait"}
  BY DEF RestartedPfx
<1>4. (inp.disk # "part") \in BOOLEAN /\ out.disk \in BOOLEAN
  BY Files DEF OutRec
<1> DEFINE s1 == RestartedStatus(saved.inp.status, inp.disk # "part")
           s2 == RestartedStatus(saved.out.status, out.disk)
<1>5. /\ s1 \in Status \ {"verifying"} /\ (s1 = "present" => saved.inp.status = "present")
      /\ s2 \in Status \ {"verifying"} /\ (s2 = "failed" => saved.out.status = "failed")
  BY <1>1, <1>2, <1>4
<1> HIDE DEF s1, s2
<1>6. /\ RestartInput(inp, saved.inp) =
           [inp EXCEPT !.status = s1, !.pfx = RestartedPfx(saved.inp), !.ret = "none",
                       !.verify = FALSE]
      /\ RestartOutput(out, saved.out, saved.uploaded) =
           [out EXCEPT !.status = s2, !.uploaded = saved.uploaded,
                       !.pfx = RestartedPfx(saved.out), !.ret = "none"]
  BY DEF RestartInput, RestartOutput, s1, s2
<1> QED
  BY <1>1, <1>3, <1>5, <1>6, Files DEF InpRec, OutRec, Pfx, Ret

LEMMA ClientCrashKeeps == ASSUME ClientInv, ClientCrash PROVE ClientInv'
<1>0. proc' = "none" /\ SlotTypeOK'
  <2>1. PICK kept \in BOOLEAN : Orphaned(kept)
    BY DEF ClientCrash
  <2>2. old \cup ({proc} \cap Phase) \subseteq Phase
    BY Job DEF SlotTypeOK
  <2>3. old' \subseteq Phase /\ exposed' \in BOOLEAN
    BY <2>1, <2>2, DeletedIs DEF Orphaned
  <2> QED
    BY <2>1, <2>3 DEF Orphaned, SlotTypeOK
<1>1. /\ proc' = "none" /\ cpuOff' = FALSE /\ UNCHANGED overwritten
      /\ rpc' = "idle" /\ turn' = 0 /\ dirty' = TRUE /\ UNCHANGED <<stored, saved>>
      /\ faults' \in 0 .. MaxFaults /\ turn' \in 0 .. Poll.rpc /\ SlotTypeOK'
      /\ rpc' \in Report \cup {"idle", "acked", "failed"}
  BY <1>0, Counters DEF ClientCrash, Poll
<1>2. /\ got' \subseteq Report /\ got \subseteq got'
      /\ "success" \in got' => "success" \in got \cup {rpc}
  BY DEF ClientCrash, ClientInv, ClientTypeOK
<1>3. CASE saved.res.acked /\ DeleteResult /\ task' = NoTask
  <2>1. /\ res' \in ResRec /\ res'.state = "gone" /\ res'.acked = res.acked
        /\ res'.ready = res.ready /\ res'.exit = res.exit
    BY <1>3, Job DEF DeleteResult, ResRec, ResState
  <2>2. /\ inp' = NewInput(inp.big) /\ inp' \in InpRec /\ inp'.big = inp.big /\ ~inp'.verify
    BY <1>3, Files DEF DeleteResult, NewInput, InpRec, Status, Disk, Pfx, Ret
  <2>3. /\ out' \in OutRec /\ out'.givenUp = out.givenUp /\ out'.pfx = "none"
        /\ out'.ret = "none" /\ ~out'.uploaded
    BY <1>3, Files DEF DeleteResult, NewOutput, OutRec, Status, Pfx, Ret
  <2>4. task' \in TaskRec /\ task'.st = "none" /\ ~task'.copy
    BY <1>3 DEF NoTask, TaskRec
  <2>5. Settled(out)' <=> Settled(out)
    BY <1>1, <2>3 DEF Settled
  <2> USE <1>1, <1>2, <1>3, <2>1, <2>2, <2>3, <2>4 DEF ClientInv
  <2>6. ClientTypeOK'
    BY DEF ClientTypeOK, FilesTypeOK, TasksTypeOK, SlotTypeOK
  <2>7. InputSound'
    BY DEF InputSound, Checked, Gone
  <2>8. AckSound'
    BY DEF AckSound, Gone
  <2>9. ProcSound'
    BY DEF ProcSound, Gone
  <2>10. OutputSound'
    BY <2>5 DEF OutputSound, Honest, Late
  <2>11. SuccessSound'
    BY <2>5 DEF SuccessSound, ResultSound, Successful, Early
  <2> QED
    BY <2>6, <2>7, <2>8, <2>9, <2>10, <2>11
<1>4. CASE ~saved.res.acked /\ Restarted
  <2>1. PICK b \in {FALSE, task' # NoTask} :
          res' = [RestartedResult(saved.res) EXCEPT !.notStarted = b]
    BY <1>4 DEF Restarted
  <2>2. saved.res \in ResRec
    BY DEF ClientInv, ClientTypeOK, SavedRec
  <2>3. /\ res' \in ResRec /\ ~res'.acked /\ res'.ready = saved.res.ready
        /\ res'.exit = saved.res.exit
        /\ \/ res'.state = saved.res.state
           \/ /\ saved.res.ready /\ res'.state = "uploaded"
              /\ saved.res.state \in Early \cup {"uploading"}
        /\ saved.res.state = "downloaded" /\ ~saved.res.ready => res'.state = "downloaded"
    BY <1>4, <2>1, <2>2 DEF RestartedResult, ResRec, ResState, Early
  <2>4. /\ task' \in TaskRec /\ ~task'.copy /\ (task'.st = "none" => task' = NoTask)
        /\ task'.st # "none" => saved.res.state = "downloaded" /\ ~saved.res.ready
    <3>1. saved.sched \in BOOLEAN /\ task.slot \in BOOLEAN
      BY Job DEF ClientInv, ClientTypeOK, SavedRec, TaskRec
    <3> QED
      BY <1>4, <3>1 DEF Restarted, NewTask, NoTask, TaskRec
  <2>5. /\ inp' \in InpRec /\ inp'.big = inp.big /\ inp'.disk = inp.disk
        /\ inp'.pfx \in {"none", "wait"} /\ ~inp'.verify
        /\ inp'.status = "present" => saved.inp.status = "present"
    BY <1>4, RestartIs DEF Restarted
  <2>6. /\ out' \in OutRec /\ out'.disk = out.disk /\ out'.pfx \in {"none", "wait"}
        /\ out'.ret = "none" /\ out'.uploaded = saved.uploaded /\ out'.givenUp = out.givenUp
        /\ out'.status = "failed" => saved.out.status = "failed"
    BY <1>4, RestartIs DEF Restarted
  <2>7. ~Gone /\ ~Gone'
    BY <1>4, <2>3 DEF ClientInv, AckSound, Gone, OutputSound, InputSound
  <2>8. Settled(out)' <=> Settled(out)
    BY <1>1, <2>6 DEF Settled
  <2> USE <1>1, <1>2, <1>4, <2>3, <2>4, <2>5, <2>6, <2>7, <2>8 DEF ClientInv
  <2>9. ClientTypeOK'
    BY DEF ClientTypeOK, FilesTypeOK, TasksTypeOK, SlotTypeOK
  <2>10. InputSound'
    BY DEF InputSound, Checked, Relied, Safe
  <2>11. AckSound'
    BY DEF AckSound
  <2>12. ProcSound'
    BY DEF ProcSound, Late
  <2>13. OutputSound'
    BY DEF OutputSound, Honest, Usable, Late
  <2>14. SuccessSound'
    BY DEF SuccessSound, ResultSound, Successful, Early
  <2> QED
    BY <2>9, <2>10, <2>11, <2>12, <2>13, <2>14
<1> QED
  BY <1>3, <1>4 DEF ClientCrash

-----------------------------------------------------------------------------
LEMMA NextKeeps == ClientInv /\ [ClientNext]_clientVars => ClientInv'
<1> SUFFICES ASSUME ClientInv, [ClientNext]_clientVars PROVE ClientInv'
  OBVIOUS
<1>1. CASE UNCHANGED clientVars
  <2> USE <1>1 DEF clientVars, fileVars, taskVars, slotVars, oldVars, ClientInv
  <2>1. ClientTypeOK' /\ InputSound' /\ AckSound'
    BY DEF ClientTypeOK, FilesTypeOK, TasksTypeOK, SlotTypeOK, InputSound, Relied, Gone, AckSound
  <2>2. ProcSound'
    BY DEF ProcSound, Gone
  <2>3. OutputSound' /\ SuccessSound'
    BY DEF OutputSound, Honest, Usable, Settled, SuccessSound, ResultSound, Successful
  <2> QED
    BY <2>1, <2>2, <2>3
<1>2. CASE Polls
  BY <1>2, GarbageCollectKeeps, PollPersFileXfersKeeps, CreateAndDeletePersFileXfersKeeps,
     PollActiveTasksKeeps, HandleFinishedAppsKeeps, UpdateResultsKeeps, RunJobKeeps,
     PreemptJobKeeps, ResumeTasksKeeps, RequestsKeep, HandleReplyKeeps, EndPassKeeps DEF Polls
<1>3. CASE Between
  BY <1>3, DownloadEndsKeeps, UploadEndsKeeps, CopyEndsKeeps, VerifyEndsKeeps, FinishesKeeps,
     QuitsKeeps, RequestsKeep, LocksSlotKeeps, OldProcessEndsKeeps DEF Between
<1>4. CASE Faults
  BY <1>4, AbortUnstartedLateJobsKeeps, SuspendTasksKeeps, SuspendTransfersKeeps, CopyFailsKeeps,
     QuitsKeeps, RequestsKeep, AbortIfNotStartedKeeps, AbortTransferKeeps, AbortJobKeeps,
     ClientCrashKeeps DEF Faults
<1> QED
  BY <1>1, <1>2, <1>3, <1>4 DEF ClientNext

(***************************************************************************)
(* The invariant from which all that follows is derived.                   *)
(***************************************************************************)
THEOREM ClientInvariant == ClientSpec => []ClientInv
<1> QED
  BY InitInv, NextKeeps, PTL DEF ClientSpec

(* Every variable keeps to its type, for any number of faults. *)
THEOREM ClientTypeCorrect == ClientSpec => []ClientTypeOK
<1>1. ClientInv => ClientTypeOK
  BY DEF ClientInv
<1> QED
  BY <1>1, ClientInvariant, PTL

(***************************************************************************)
(* The job never runs with an input file that is not whole: a state file   *)
(* that says it is there was written when it was, and nobody downloads it  *)
(* again after that.                                                       *)
(***************************************************************************)
THEOREM InputWhole == ClientSpec => []WholeInput
<1>1. ClientInv => WholeInput
  <2> SUFFICES ASSUME ClientInv PROVE WholeInput
    OBVIOUS
  <2> QED
    BY Files, Job DEF WholeInput, Safe
<1> QED
  BY <1>1, ClientInvariant, PTL

(***************************************************************************)
(* No result is acknowledged, or deleted, that the server has not heard    *)
(* of: deletion waits for a state file that has the acknowledgement.       *)
(***************************************************************************)
THEOREM NothingForgotten == ClientSpec => []Acknowledged
<1>1. ClientInv => Acknowledged
  BY DEF ClientInv, AckSound, Acknowledged
<1> QED
  BY <1>1, ClientInvariant, PTL

(***************************************************************************)
(* The server is told of no success whose output it does not have, save    *)
(* for the two exceptions that the property names.                         *)
(***************************************************************************)
THEOREM SuccessHasOutput == ClientSpec => []SuccessStored
<1>1. ClientInv => SuccessStored
  BY DEF ClientInv, SuccessSound, SuccessStored, Settled
<1> QED
  BY <1>1, ClientInvariant, PTL

(***************************************************************************)
(* While a result waits for its upload, the output is on the host or on    *)
(* the server, also after a crash that goes back to an older state file.   *)
(***************************************************************************)
THEOREM OutputNeverLost == ClientSpec => []NeverLost
<1>1. ClientInv => NeverLost
  BY DEF ClientInv, OutputSound, Usable, Settled, NeverLost
<1> QED
  BY <1>1, ClientInvariant, PTL

(* A task is started in three ways, and has no process before. *)
LEMMA StartsAlone ==
  ASSUME ClientInv, ClientNext, task'.st = "executing", task.st \notin {"executing", "suspended"}
  PROVE  proc = "none"
<1>1. task' # task
  OBVIOUS
<1>2. CASE GarbageCollect
  <2>1. AbortedTask(AbortedTask(task)).st # "executing" /\ AbortedTask(task).st # "executing"
    BY Job, AbortedTaskIs
  <2> QED
    BY <1>1, <1>2, <2>1 DEF GarbageCollect, CheckFiles, taskVars, slotVars, oldVars
<1>3. CASE PollActiveTasks
  <2>1. task' = task \/ task' = ExitedTask(task, proc)
    BY <1>3 DEF PollActiveTasks
  <2> QED
    BY <1>1, <2>1, Job, ExitedTaskIs
<1>4. CASE RunJob
  <2> DEFINE t == IF task.st = "none" THEN NewTask ELSE task
             v == ResumeOrStart(t)
             u == [v EXCEPT !.sched = TRUE]
  <2>1. t \in TaskRec /\ t.st \notin {"executing", "suspended"}
    BY Job DEF NewTask, NoTask, TaskRec
  <2>2. v \in TaskRec /\ (v.st = "executing" => t.st = "uninitialized")
    BY <2>1, ResumeOrStartIs
  <2>3. u.st = v.st
    <3> HIDE DEF v
    <3> QED
      BY <2>2 DEF TaskRec
  <2>4. task' = u \/ task' = [t EXCEPT !.st = "couldnt_start"]
    BY <1>4 DEF RunJob, Become
  <2>5. [t EXCEPT !.st = "couldnt_start"].st # "executing"
    <3> HIDE DEF t
    <3> QED
      BY <2>1 DEF TaskRec
  <2>6. task.st = "uninitialized" \/ (task.st = "none" /\ res.state = "downloaded")
    <3>1. t.st = "uninitialized"
      BY <2>2, <2>3, <2>4, <2>5
    <3> QED
      BY <1>4, <3>1 DEF RunJob, Runnable
  <2> QED
    BY <2>6 DEF ClientInv, ProcSound, Early
<1>5. CASE ResumeTasks
  <2> DEFINE u == ResumeOrStart(task)
  <2>1. task' = u \/ task' = [task EXCEPT !.st = "couldnt_start"]
    BY <1>1, <1>5 DEF ResumeTasks, Become
  <2>2. u.st = "executing" => task.st = "uninitialized"
    BY Job, ResumeOrStartIs
  <2>3. task' # [task EXCEPT !.st = "couldnt_start"]
    BY Job DEF TaskRec
  <2>4. task.st = "uninitialized"
    <3> HIDE DEF u
    <3> QED
      BY <2>1, <2>2, <2>3
  <2> QED
    BY <2>4 DEF ClientInv, ProcSound
<1>6. CASE CopyEnds
  <2>1. task.copy
    BY <1>6 DEF CopyEnds
  <2> QED
    BY <2>1, Job
<1>7. CASE PreemptJob
  <2>1. PICK t \in Preempted(task) : task' = [t EXCEPT !.sched = FALSE]
    BY <1>7 DEF PreemptJob
  <2>2. t \in TaskRec /\ t.st # "executing"
    BY Job, PreemptedIs
  <2> QED
    BY <2>1, <2>2 DEF TaskRec
<1>8. CASE SuspendTasks
  BY <1>1, <1>8 DEF SuspendTasks
<1>9. CASE CopyFails
  BY <1>9, Job DEF CopyFails, TaskRec
<1>10. CASE AbortJob
  BY <1>1, <1>10, Job, AbortedTaskIs DEF AbortJob
<1>11. CASE ClientCrash \/ HandleFinishedApps
  <2>1. task'.st # "executing"
    <3>1. task' = NoTask \/ task' = [NewTask EXCEPT !.sched = saved.sched, !.slot = task.slot]
      BY <1>11 DEF ClientCrash, HandleFinishedApps, Restarted
    <3>2. /\ NewTask \in TaskRec /\ NewTask.st = "uninitialized"
          /\ NoTask.st = "none"
      BY DEF NoTask, NewTask, TaskRec
    <3> QED
      BY <3>1, <3>2 DEF TaskRec
  <2> QED
    BY <2>1
<1> QED
  <2> USE <1>1 DEF taskVars, slotVars, oldVars, others
  <2>1. CASE Polls
    BY <2>1, <1>2, <1>3, <1>4, <1>5, <1>7, <1>11 DEF Polls, PollPersFileXfers,
       CreateAndDeletePersFileXfers, UpdateResults, StartRpc, HandleReply, EndPass
  <2>2. CASE Between
    BY <2>2, <1>6 DEF Between, DownloadEnds, UploadEnds, VerifyEnds, Finishes, Quits, EndProcess,
       ServerReplies, LocksSlot, OldLocksSlot, OldProcessEnds, slotOnly
  <2>3. CASE Faults
    BY <2>3, <1>8, <1>9, <1>10, <1>11 DEF Faults, AbortUnstartedLateJobs, SuspendTransfers,
       Crashes, EndProcess, RequestLost, AbortIfNotStarted, AbortTransfer
  <2> QED
    BY <2>1, <2>2, <2>3 DEF ClientNext

(***************************************************************************)
(* While the lock file keeps old processes apart from this client's, there *)
(* is at most one, which holds the lock, and this client's waits for it.   *)
(***************************************************************************)
LockSound ==
    ~exposed => old \subseteq {"running"} /\ (old # {} => proc \notin AtWork \cup {"lost"})

LEMMA DeletedNone == ASSUME NEW S PROVE Deleted(S) = {} <=> S = {}
  BY DEF Deleted

(* A process that ends, or tries again, leaves it so. *)
LEMMA SlotKeepsLock ==
  ASSUME SlotTypeOK, LockSound,
         \/ \E how \in How : EndProcess(how)
         \/ \E p \in Phase \cup How : Locks(p)
         \/ OldLocks
         \/ \E p \in Phase : OldEnds(p)
  PROVE  LockSound'
<1>0. exposed' = exposed
  BY DEF EndProcess, Locks, OldLocks, OldEnds, oldVars
<1> SUFFICES ASSUME ~exposed PROVE LockSound'
  BY <1>0 DEF LockSound
<1>1. old \subseteq {"running"} /\ (old # {} => proc \notin AtWork \cup {"lost"})
  BY DEF LockSound
<1>2. CASE \E how \in How : EndProcess(how)
  <2>1. proc' \in How /\ (old' = old \/ (proc \in AtWork /\ old' = Deleted(old)))
    BY <1>2 DEF EndProcess, OldAfter
  <2>2. old' \subseteq {"running"}
    BY <1>1, <2>1, DeletedNone
  <2> QED
    BY <2>1, <2>2 DEF LockSound, How, AtWork
<1>3. CASE \E p \in Phase \cup How : Locks(p)
  <2>1. old' = old /\ proc' \in Lock(proc, old)
    BY <1>3 DEF Locks, oldVars
  <2>2. proc = "waiting" => proc' = "quit" \/ (proc' = "running" /\ "running" \notin old)
    BY <2>1, LockIs
  <2>3. proc \in {"waiting", "lost"}
    BY <2>1, LockIs
  <2>4. old # {} => proc' \notin AtWork \cup {"lost"}
    BY <1>1, <2>2, <2>3 DEF AtWork
  <2> QED
    BY <1>1, <2>1, <2>4 DEF LockSound
<1>4. CASE OldLocks
  <2>1. PICK p \in old : \E q \in Lock(p, (old \ {p}) \cup {proc}) : TRUE
    BY <1>4 DEF OldLocks
  <2> QED
    BY <1>1, <2>1, LockIs
<1>5. CASE \E p \in Phase : OldEnds(p)
  <2>1. old' = {}
    <3>1. PICK p \in Phase : OldEnds(p)
      BY <1>5
    <3>2. old \ {p} = {}
      BY <1>1, <3>1 DEF OldEnds
    <3> QED
      BY <3>1, <3>2, DeletedNone DEF OldEnds
  <2> QED
    BY <2>1 DEF LockSound
<1> QED
  BY <1>2, <1>3, <1>4, <1>5

LEMMA BecomeKeepsLock ==
  ASSUME LockSound, NEW t, NEW u, NEW r, Become(t, u, r), UNCHANGED oldVars
  PROVE  LockSound'
<1>1. proc' = proc \/ proc' = Started
  BY DEF Become, ProcOf
<1>2. ~exposed /\ old # {} => "running" \in old
  BY DEF LockSound
<1> QED
  BY <1>1, <1>2 DEF LockSound, Started, oldVars, AtWork

LEMMA CrashKeepsLock == ASSUME NEW kept, Orphaned(kept) PROVE LockSound'
<1> DEFINE alive == old \cup ({proc} \cap Phase)
<1>1. /\ proc' = "none" /\ old' \in {alive} \cup (IF kept THEN {} ELSE {Deleted(alive)})
      /\ exposed' = (alive # {} /\ (old # {} \/ proc # "running" \/ ~kept))
  BY DEF Orphaned
<1>2. ASSUME ~exposed' PROVE old' \subseteq {"running"}
  <2>1. CASE alive = {}
    BY <1>1, <2>1, DeletedNone
  <2>2. CASE alive # {}
    <3>1. old = {} /\ proc = "running" /\ kept
      BY <1>1, <1>2, <2>2
    <3> QED
      BY <1>1, <3>1
  <2> QED
    BY <2>1, <2>2
<1> QED
  BY <1>1, <1>2 DEF LockSound, AtWork

LEMMA NextKeepsLock == ClientInv /\ LockSound /\ [ClientNext]_clientVars => LockSound'
<1> SUFFICES ASSUME ClientInv, LockSound, [ClientNext]_clientVars PROVE LockSound'
  OBVIOUS
<1>1. CASE UNCHANGED slotVars
  BY <1>1 DEF LockSound, slotVars, oldVars
<1>2. CASE RunJob \/ ResumeTasks \/ CopyEnds
  <2>1. UNCHANGED oldVars
    BY <1>2 DEF RunJob, ResumeTasks, CopyEnds
  <2>2. proc' = proc \/ \E t, u, r : Become(t, u, r)
    BY <1>2 DEF RunJob, ResumeTasks, CopyEnds
  <2>3. proc' = proc => LockSound'
    BY <2>1 DEF LockSound, oldVars
  <2> QED
    BY <2>1, <2>2, <2>3, BecomeKeepsLock
<1>3. CASE PollActiveTasks
  <2>1. /\ proc' = "none"
        /\ \/ UNCHANGED oldVars
           \/ old' = Deleted(old) /\ exposed' = (exposed \/ old # {})
    BY <1>3 DEF PollActiveTasks
  <2> QED
    BY <2>1, DeletedNone DEF LockSound, oldVars, AtWork
<1>4. CASE \/ \E there \in BOOLEAN : Finishes(there)
           \/ Quits \/ Crashes \/ LocksSlot \/ OldLocksSlot \/ OldProcessEnds
  <2>1. SlotTypeOK
    BY DEF ClientInv, ClientTypeOK, TasksTypeOK
  <2>2. \/ \E how \in How : EndProcess(how)
        \/ \E p \in Phase \cup How : Locks(p)
        \/ OldLocks
        \/ \E p \in Phase : OldEnds(p)
    BY <1>4 DEF Finishes, Quits, Crashes, LocksSlot, OldLocksSlot, OldProcessEnds, How
  <2> QED
    BY <2>1, <2>2, SlotKeepsLock
<1>5. CASE ClientCrash
  BY <1>5, CrashKeepsLock DEF ClientCrash
<1> QED
  <2> USE DEF clientVars, taskVars, others
  <2>1. CASE UNCHANGED clientVars
    BY <1>1, <2>1
  <2>2. CASE Polls
    BY <2>2, <1>1, <1>2, <1>3 DEF Polls, GarbageCollect, CheckFiles, slotVars, oldVars,
       PollPersFileXfers, CreateAndDeletePersFileXfers, HandleFinishedApps, UpdateResults,
       PreemptJob, StartRpc, HandleReply, EndPass
  <2>3. CASE Between
    BY <2>3, <1>1, <1>2, <1>4 DEF Between, DownloadEnds, UploadEnds, VerifyEnds, ServerReplies
  <2>4. CASE Faults
    BY <2>4, <1>1, <1>4, <1>5 DEF Faults, AbortUnstartedLateJobs, SuspendTasks, SuspendTransfers,
       CopyFails, RequestLost, AbortIfNotStarted, AbortTransfer, AbortJob
  <2> QED
    BY <2>1, <2>2, <2>3, <2>4 DEF ClientNext

(***************************************************************************)
(* A client starts no process for the job while it has one, and none works *)
(* together with one that an earlier client left, unless that is exposed:  *)
(* for any number of faults and crashes.                                   *)
(***************************************************************************)
THEOREM OneProcess == ClientSpec => StartedAlone
<1> DEFINE Alone ==
      /\ task'.st = "executing" /\ task.st \notin {"executing", "suspended"} => proc = "none"
      /\ proc' \in AtWork /\ old' \cap AtWork # {} => exposed'
<1>1. ClientInit => LockSound
  BY DEF ClientInit, LockSound
<1>2. ClientInv /\ ClientNext =>
        (task'.st = "executing" /\ task.st \notin {"executing", "suspended"} => proc = "none")
  BY StartsAlone
<1>3. LockSound' => (proc' \in AtWork /\ old' \cap AtWork # {} => exposed')
  BY DEF LockSound
<1>4. ClientInv /\ LockSound /\ LockSound' /\ [ClientNext]_clientVars => [Alone]_clientVars
  BY <1>2, <1>3
<1> QED
  BY <1>1, <1>4, NextKeepsLock, ClientInvariant, PTL DEF ClientSpec, StartedAlone
=============================================================================
