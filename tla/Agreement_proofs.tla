-------------------------- MODULE Agreement_proofs --------------------------
(***************************************************************************)
(* Proofs about the validator's verdicts, for every value of the constants *)
(* and any overlap of the programs: results that are down as valid have    *)
(* equivalent output files, and a canonical result has the support of more *)
(* than half of a quorum when it is chosen.                                *)
(***************************************************************************)
EXTENDS Records_proofs

-----------------------------------------------------------------------------
(* What was handed in stays handed in, and its file is what it was or gone. *)

LEMMA OthersKeepMarks ==
  ASSUME TypeOK, [Next]_vars, ~SchedNext
  PROVE  MarksKept /\ UNCHANGED schedVars
<1>1. res \in [Result -> ResultRow]
  BY DEF TypeOK, DBTypeOK
<1>2. UNCHANGED schedVars
  BY DEF Next, Step, vars, CancelResults, CancelJob, TransitionTimeComes, DeadlinePasses
<1> SUFFICES MarksKept
  BY <1>2
<1>3. ASSUME UNCHANGED res PROVE MarksKept
  BY <1>3 DEF MarksKept
<1>4. ASSUME NEW r \in Result, NEW row, SetRow(r, row),
             row.received = res[r].received \/ (~row.received /\ row.server_state = "PURGED")
      PROVE  MarksKept
  BY <1>1, <1>4 DEF SetRow, MarksKept
<1>5. CASE TrNext
  <2>1. CASE TrCreate
    <3>1. ASSUME NEW r \in Result
          PROVE  \/ res'[r] = res[r]
                 \/ res[r].server_state = "NONE" /\ ~res'[r].received
      BY <2>1, BlankRows DEF TrCreate, NextIds, Fresh
    <3> QED
      BY <3>1 DEF MarksKept, Ended
  <2>2. ASSUME NEW r \in Result, NEW item, TrWriteResult(r, item) PROVE MarksKept
    BY <1>1, <1>4, <2>2 DEF TrWriteResult, ResultRow
  <2>3. ASSUME NEW r \in Result, TrTimeOut(r) \/ TrTooLate(r) \/ TrClose(r) \/ TrDelete(r)
        PROVE  MarksKept
    BY <2>2, <2>3 DEF TrTimeOut, TrTooLate, TrClose, TrDelete
  <2> QED
    BY <1>3, <1>5, <2>1, <2>3 DEF TrNext, TrStep, TrEnumerate, TrDecide, TrUpdateWorkunit,
       TrCrash, dbVars
<1>6. CASE VaNext
  <2>1. ASSUME NEW r \in Result, NEW item, VaWriteResult(r, item) PROVE MarksKept
    BY <1>1, <1>4, <2>1 DEF VaWriteResult, ResultRow
  <2>2. ASSUME NEW r \in Result, VaCheckPair(r) \/ VaUpdateResult(r) PROVE MarksKept
    BY <2>1, <2>2 DEF VaCheckPair, VaUpdateResult
  <2> QED
    BY <1>3, <1>6, <2>2 DEF VaNext, VaStep, VaEnumerate, VaNoCanonicalRow, VaCheckSet,
       VaNoQuorum, VaUpdateWorkunit, VaRetryPair, VaSkipPair, VaSkipResult, VaCrash, dbVars
<1>7. CASE AsNext
  BY <1>3, <1>7 DEF AsNext, AsStep, AsEnumerate, AsHandle, AsDone, AsCrash, dbVars
<1>8. CASE FdNext
  <2>1. CASE FdUpdate
    <3>1. CASE fd.id = 0
      BY <1>3, <2>1, <3>1 DEF FdUpdate
    <3>2. CASE fd.id # 0
      <4>1. fd.id \in Result
        BY <3>2 DEF TypeOK, FdTypeOK
      <4> QED
        BY <1>1, <1>4, <2>1, <3>2, <4>1 DEF FdUpdate, ResultRow
    <3> QED
      BY <3>1, <3>2
  <2> QED
    BY <1>3, <1>8, <2>1 DEF FdNext, FdStep, FdEnumerate, FdUnlink, FdCrash, dbVars
<1>9. CASE PurgeNext
  <2>1. CASE PurgeResult
    <3>1. PICK r \in Result : SetRow(r, [UnusedRow EXCEPT !.server_state = "PURGED"])
      BY <2>1 DEF PurgeResult, TypeOK, FdTypeOK
    <3> QED
      BY <1>4, <3>1 DEF UnusedRow
  <2> QED
    BY <1>3, <1>9, <2>1 DEF PurgeNext, PurgeStep, PurgeEnumerate, PurgeQuery, PurgeSkip,
       PurgeJob, PurgeCrash, dbVars
<1>10. CASE CancelResults
  BY <1>1, <1>10 DEF CancelResults, MarksKept, ResultRow
<1>11. CASE CancelJob \/ TransitionTimeComes \/ UNCHANGED vars
  BY <1>3, <1>11 DEF CancelJob, TransitionTimeComes, vars, dbVars
<1>12. ASSUME NEW r \in Result, DeadlinePasses(r) PROVE MarksKept
  BY <1>1, <1>12 DEF DeadlinePasses, MarksKept, ResultRow
<1> QED
  BY <1>5, <1>6, <1>7, <1>8, <1>9, <1>10, <1>11, <1>12 DEF Next, Step

(* No request takes a result back that its host handed in. *)
LEMMA SchedulerKeepsHandedIn ==
  ASSUME TypeOK, StagesKept, SchedNext, NEW r \in Result, HandedIn(r)
  PROVE  HandedIn(r)' /\ file'[r] = file[r]
<1>1. /\ res \in [Result -> ResultRow] /\ cgi \in [Result -> [pc : CgiPc, validate_state : ValidateState]]
      /\ client \in [Result -> ClientState] /\ file \in [Result -> Answers \cup {"none"}]
  BY DEF TypeOK, DBTypeOK, SchedTypeOK
<1>2. PICK q \in Result :
        \/ SendCheck(q) \/ ResendCheck(q) \/ ReportCheck(q) \/ DetachCheck(q)
        \/ CgiStep(q) \/ CgiCrash(q) \/ ClientFinish(q) \/ ClientLoses(q)
  BY DEF SchedNext
<1>3. res[r].received => res'[r].received
  <2>1. CASE ReportRow(q) \/ DetachRow(q)
    <3>1. PICK row : row.received /\ SetRow(q, row)
      <4>1. res[q] \in ResultRow
        BY <1>1
      <4> QED
        BY <2>1, <4>1 DEF ReportRow, DetachRow, Reported, ResultRow
    <3> QED
      BY <1>1, <3>1 DEF SetRow
  <2>2. CASE SendMark(q) \/ ResendMark(q) \/ ExpireMark(q)
    BY <1>1, <2>2 DEF SendMark, ResendMark, ExpireMark, ResultRow
  <2> QED
    BY <1>2, <2>1, <2>2 DEF SendCheck, ResendCheck, ReportCheck, DetachCheck, CgiStep, CgiCrash,
       ClientFinish, ClientLoses, SendJob, ResendJob, ExpireJob, ReportJob, DetachJob, dbVars
<1>4. cgi'[r].pc # "report"
  <2>1. CASE ReportCheck(q)
    BY <1>1, <2>1 DEF ReportCheck, HandedIn, Accepts, Over
  <2> QED
    BY <1>1, <1>2, <2>1 DEF SendCheck, ResendCheck, DetachCheck, CgiStep, CgiCrash,
       ClientFinish, ClientLoses, SendJob, SendMark, ResendJob, ResendMark, ExpireMark, ExpireJob,
       ReportRow, ReportJob, DetachRow, DetachJob, CgiGoes, CgiEnds, CgiIdle, HandedIn
<1>5. client'[r] \notin {"none", "computing"} /\ file'[r] = file[r]
  <2>1. CASE SendMark(q) \/ ResendMark(q)
    BY <1>1, <2>1 DEF SendMark, ResendMark, HandedIn, Ended
  <2>2. CASE ReportCheck(q) \/ ReportJob(q)
    BY <1>1, <2>2 DEF ReportCheck, ReportJob, Acknowledge, HandedIn, dbVars
  <2>3. CASE ClientFinish(q) \/ ClientLoses(q)
    BY <1>1, <2>3 DEF ClientFinish, ClientLoses, HandedIn, dbVars
  <2> QED
    BY <1>1, <1>2, <2>1, <2>2, <2>3 DEF SendCheck, ResendCheck, DetachCheck, CgiStep, CgiCrash,
       SendJob, ResendJob, ExpireMark, ExpireJob, ReportRow, DetachRow, DetachJob, HandedIn, dbVars
<1> QED
  BY <1>3, <1>4, <1>5, HandedInKept

LEMMA StepKeepsHandedIn ==
  ASSUME TypeOK, CopiesConsistent, RecordsInv, [Next]_vars, NEW r \in Result, HandedIn(r)
  PROVE  /\ HandedIn(r)' /\ file'[r] \in {file[r], "none"}
         /\ fd.pc = "idle" => file'[r] = file[r]
<1>1. StagesKept
  BY StepLife, LifeKeepsStages
<1>2. CASE SchedNext
  BY <1>1, <1>2, SchedulerKeepsHandedIn
<1>3. CASE ~SchedNext
  <2>1. HandedIn(r)'
    BY <1>1, <1>3, OthersKeepMarks, OthersKeepHosts DEF RecordsInv
  <2>2. ASSUME FdUnlink PROVE file'[r] \in {file[r], "none"} /\ fd.pc # "idle"
    BY <2>2 DEF FdUnlink, TypeOK, DBTypeOK
  <2>3. ASSUME ~FdUnlink PROVE file' = file
    BY <1>3, <2>3 DEF Next, Step, vars, dbVars, TrNext, TrStep, TrEnumerate, TrDecide, TrCreate,
       TrUpdateWorkunit, TrCrash, TrTimeOut, TrTooLate, TrClose, TrDelete, TrWriteResult,
       VaNext, VaStep, VaEnumerate, VaNoCanonicalRow, VaCheckSet, VaNoQuorum, VaUpdateWorkunit,
       VaRetryPair, VaCheckPair, VaSkipPair, VaUpdateResult, VaSkipResult, VaCrash, VaWriteResult,
       AsNext, AsStep, AsEnumerate, AsHandle, AsDone, AsCrash, FdNext, FdStep, FdEnumerate,
       FdUpdate, FdCrash, PurgeNext, PurgeStep, PurgeEnumerate, PurgeQuery, PurgeResult, PurgeSkip,
       PurgeJob, PurgeCrash, CancelResults, CancelJob, TransitionTimeComes, DeadlinePasses
  <2> QED
    BY <2>1, <2>2, <2>3
<1> QED
  BY <1>2, <1>3

-----------------------------------------------------------------------------
(* The verdicts agree. *)

Valid(row)  == row.validate_state = "VALID"
AnyValid(r) == Valid(res[r]) \/ Valid(tr.items[r]) \/ Valid(va.items[r])

(* The canonical result, in the database or about to be written there. *)
Decisions == {wu.canonical_resultid, va.wu.canonical_resultid} \ {0}
Good(r)   == AnyValid(r) \/ r \in Decisions

(* The job is to be decided yet, or the validator takes it for undecided. *)
Undecided ==
    \/ /\ wu.exists /\ wu.canonical_resultid = 0
       /\ ~(va.pc = "write" /\ va.wu.canonical_resultid # 0)
    \/ va.pc # "idle" /\ va.wu.canonical_resultid = 0

Equivalent(r, q) == file[r] # "none" /\ file[q] # "none" => file[r] = file[q]

(* What the validator read of a decision is in the database. *)
DecisionKnown ==
    va.pc # "write" /\ va.wu.canonical_resultid # 0 => wu.canonical_resultid # 0

AgreeInv ==
    /\ DecisionKnown
    /\ \A r \in Decisions : HandedIn(r)
    /\ \A r, q \in Result : Good(r) /\ Good(q) => Equivalent(r, q)
    /\ Undecided => \A r \in Result : ~AnyValid(r)

(* What is good was handed in, so its file is not replaced. *)
LEMMA GoodHandedIn ==
  ASSUME RecordsInv, AgreeInv, NEW r \in Result, Good(r)
  PROVE  HandedIn(r)
  BY DEF RecordsInv, ToldSound, AnyTold, Told, AgreeInv, Good, AnyValid, Valid

HandedInHeld == \A r \in Result : HandedIn(r) => HandedIn(r)' /\ file'[r] \in {file[r], "none"}

(* A step that passes no new verdict. *)
LEMMA NoVerdict ==
  ASSUME RecordsInv, AgreeInv, HandedInHeld, Decisions \subseteq Result,
         \A r \in Result : AnyValid(r)' => AnyValid(r),
         Decisions' \subseteq Decisions, Undecided' => Undecided, DecisionKnown'
  PROVE  AgreeInv'
<1>1. \A r \in Decisions' : HandedIn(r)'
  BY DEF AgreeInv, HandedInHeld
<1>2. ASSUME NEW r \in Result, NEW q \in Result, Good(r)', Good(q)'
      PROVE  Equivalent(r, q)'
  <2>1. Good(r) /\ Good(q)
    BY <1>2 DEF Good
  <2>2. file'[r] \in {file[r], "none"} /\ file'[q] \in {file[q], "none"}
    BY <2>1, GoodHandedIn DEF HandedInHeld
  <2>3. Equivalent(r, q)
    BY <2>1 DEF AgreeInv
  <2> QED
    BY <2>2, <2>3 DEF Equivalent
<1>3. Undecided' => \A r \in Result : ~AnyValid(r)'
  BY DEF AgreeInv
<1> QED
  BY <1>1, <1>2, <1>3 DEF AgreeInv

(* Only the validator decides, and only it passes verdicts. *)
ValidatorStep == VaNext /\ UNCHANGED <<tr, schedVars, as, deleterVars, cancel>>

LEMMA OthersDecideNothing ==
  ASSUME TypeOK, [Next]_vars, ~ValidatorStep
  PROVE  /\ UNCHANGED va /\ wu'.canonical_resultid = wu.canonical_resultid
         /\ wu'.exists => wu.exists
<1>1. wu \in WuRow
  BY DEF TypeOK, DBTypeOK
<1>2. UNCHANGED va
  BY DEF Next, Step, vars, ValidatorStep, CancelResults, CancelJob, TransitionTimeComes,
     DeadlinePasses
<1>3. ASSUME UNCHANGED wu
      PROVE  /\ wu'.canonical_resultid = wu.canonical_resultid
             /\ wu'.exists => wu.exists
  BY <1>3
<1> SUFFICES /\ wu'.canonical_resultid = wu.canonical_resultid
             /\ wu'.exists => wu.exists
  BY <1>2
<1>4. CASE TrNext
  BY <1>1, <1>4 DEF TrNext, TrStep, TrEnumerate, TrDecide, TrCreate, TrUpdateWorkunit, TrCrash,
     TrTimeOut, TrTooLate, TrClose, TrDelete, TrWriteResult, SetWu, WuRow, dbVars
<1>5. CASE SchedNext
  BY <1>1, <1>5 DEF SchedNext, SendCheck, ResendCheck, ReportCheck, DetachCheck, CgiStep, CgiCrash,
     ClientFinish, ClientLoses, SendJob, SendMark, ResendJob, ResendMark, ExpireMark, ExpireJob,
     ReportRow, ReportJob, DetachRow, DetachJob, SetWu, WuRow, dbVars
<1>6. CASE AsNext
  BY <1>1, <1>6 DEF AsNext, AsStep, AsEnumerate, AsHandle, AsDone, AsCrash, SetWu, WuRow, dbVars
<1>7. CASE FdNext
  BY <1>1, <1>7 DEF FdNext, FdStep, FdEnumerate, FdUnlink, FdUpdate, FdCrash, SetWu, WuRow, dbVars
<1>8. CASE PurgeNext
  BY <1>1, <1>8 DEF PurgeNext, PurgeStep, PurgeEnumerate, PurgeQuery, PurgeResult, PurgeSkip,
     PurgeJob, PurgeCrash, WuRow, dbVars
<1>9. CASE CancelResults \/ CancelJob \/ TransitionTimeComes \/ \E r \in Result : DeadlinePasses(r)
  BY <1>1, <1>9 DEF CancelResults, CancelJob, TransitionTimeComes, DeadlinePasses, SetWu, WuRow
<1>10. CASE UNCHANGED vars
  BY <1>3, <1>10 DEF vars, dbVars
<1> QED
  BY <1>4, <1>5, <1>6, <1>7, <1>8, <1>9, <1>10 DEF Next, Step, ValidatorStep

(* A statement that writes a row which is not valid, or says what is known. *)
LEMMA WriteNoVerdict ==
  ASSUME res \in [Result -> ResultRow], NEW r \in Result, NEW row, SetRow(r, row),
         Valid(row) => AnyValid(r), NEW q \in Result
  PROVE  Valid(res'[q]) => AnyValid(q)
  BY DEF SetRow, AnyValid

LEMMA OthersPassNoVerdict ==
  ASSUME TypeOK, RecordsInv, [Next]_vars, ~ValidatorStep, NEW q \in Result
  PROVE  AnyValid(q)' => AnyValid(q)
<1>1. /\ res \in [Result -> ResultRow] /\ tr.items \in [Result -> ResultRow]
      /\ ~Valid(UnusedRow) /\ ~Valid(NewRow)
  BY DEF TypeOK, DBTypeOK, TrTypeOK, Valid, UnusedRow, NewRow
<1>2. UNCHANGED va
  BY OthersDecideNothing
<1>3. CASE UNCHANGED <<res, tr>>
  BY <1>2, <1>3 DEF AnyValid
<1>4. CASE TrNext
  <2>1. ASSUME NEW r \in Result, NEW item \in ResultRow, TrWriteResult(r, item),
               tr'.items = [tr.items EXCEPT ![r] = item], Valid(item) => Valid(tr.items[r])
        PROVE  AnyValid(q)' => AnyValid(q)
    <3>1. Valid(res'[q]) => AnyValid(q)
      BY <1>1, <2>1, WriteNoVerdict DEF TrWriteResult, AnyValid, Valid, ResultRow
    <3>2. Valid(tr'.items[q]) => AnyValid(q)
      BY <1>1, <2>1 DEF AnyValid
    <3> QED
      BY <1>2, <3>1, <3>2 DEF AnyValid
  <2>2. ASSUME UNCHANGED res, tr'.items \in {tr.items, res, [r \in Result |-> UnusedRow]}
        PROVE  AnyValid(q)' => AnyValid(q)
    BY <1>1, <1>2, <2>2 DEF AnyValid
  <2>3. CASE TrEnumerate \/ TrUpdateWorkunit \/ TrCrash
    <3>1. TrIdle.items = [r \in Result |-> UnusedRow]
      BY DEF TrIdle
    <3>2. UNCHANGED res
      BY <2>3 DEF TrEnumerate, TrUpdateWorkunit, TrCrash, dbVars
    <3>3. CASE TrEnumerate
      <4>1. tr'.items = res
        BY <3>3 DEF TrEnumerate, TrIdle
      <4> QED
        BY <2>2, <3>2, <4>1
    <3>4. CASE tr' = TrIdle
      BY <2>2, <3>1, <3>2, <3>4
    <3> QED
      BY <2>3, <3>3, <3>4 DEF TrUpdateWorkunit, TrCrash
  <2>4. CASE TrDecide
    <3>1. tr'.items = tr.items
      BY <2>4, Zenon DEF TrDecide, TypeOK, TrTypeOK
    <3> QED
      BY <2>2, <2>4, <3>1 DEF TrDecide, dbVars
  <2>5. CASE TrCreate
    <3>1. tr'.items = tr.items /\ res'[q] \in {res[q], NewRow}
      BY <2>5 DEF TrCreate, TypeOK, TrTypeOK
    <3> QED
      BY <1>1, <1>2, <3>1 DEF AnyValid
  <2>6. ASSUME NEW r \in Result, TrTimeOut(r) \/ TrTooLate(r) \/ TrClose(r) \/ TrDelete(r)
        PROVE  AnyValid(q)' => AnyValid(q)
    <3>1. tr.items[r] \in ResultRow
      BY <1>1
    <3>2. ASSUME NEW item, TrWriteResult(r, item), item \in ResultRow,
                 tr' \in {[tr EXCEPT !.pc = "scan", !.items[r] = item], [tr EXCEPT !.items[r] = item]},
                 Valid(item) => Valid(tr.items[r])
          PROVE  AnyValid(q)' => AnyValid(q)
      <4>1. tr'.items = [tr.items EXCEPT ![r] = item]
        BY <3>2 DEF TypeOK, TrTypeOK
      <4> QED
        BY <2>1, <3>2, <4>1
    <3> DEFINE timedOut == [tr.items[r] EXCEPT !.server_state = "OVER", !.outcome = "NO_REPLY"]
               late     == [tr.items[r] EXCEPT !.validate_state = "TOO_LATE"]
               unneeded == [tr.items[r] EXCEPT !.server_state = "OVER", !.outcome = "DIDNT_NEED"]
               skipped  == [tr.items[r] EXCEPT !.validate_state = "NO_CHECK"]
               deleted  == [tr.items[r] EXCEPT !.file_delete_state = "READY"]
    <3>3. /\ timedOut \in ResultRow /\ (Valid(timedOut) => Valid(tr.items[r]))
          /\ late \in ResultRow /\ (Valid(late) => Valid(tr.items[r]))
          /\ unneeded \in ResultRow /\ (Valid(unneeded) => Valid(tr.items[r]))
          /\ skipped \in ResultRow /\ (Valid(skipped) => Valid(tr.items[r]))
          /\ deleted \in ResultRow /\ (Valid(deleted) => Valid(tr.items[r]))
      BY <3>1 DEF ResultRow, ServerState, Outcome, ValidateState, FileDelete, Valid
    <3>4. CASE TrTimeOut(r)
      <4>1. TrWriteResult(r, timedOut) /\ tr' = [tr EXCEPT !.pc = "scan", !.items[r] = timedOut]
        BY <3>4 DEF TrTimeOut
      <4> QED
        BY <3>2, <3>3, <4>1
    <3>5. CASE TrTooLate(r)
      <4>1. TrWriteResult(r, late) /\ tr' = [tr EXCEPT !.pc = "scan", !.items[r] = late]
        BY <3>5 DEF TrTooLate
      <4> QED
        BY <3>2, <3>3, <4>1
    <3>6. CASE TrClose(r)
      <4>1. \/ TrWriteResult(r, unneeded) /\ tr' = [tr EXCEPT !.items[r] = unneeded]
            \/ TrWriteResult(r, skipped) /\ tr' = [tr EXCEPT !.items[r] = skipped]
        BY <3>6 DEF TrClose
      <4> QED
        BY <3>2, <3>3, <4>1
    <3>7. CASE TrDelete(r)
      <4>1. TrWriteResult(r, deleted) /\ tr' = [tr EXCEPT !.items[r] = deleted]
        BY <3>7 DEF TrDelete
      <4> QED
        BY <3>2, <3>3, <4>1
    <3> QED
      BY <2>6, <3>4, <3>5, <3>6, <3>7
  <2> QED
    BY <1>4, <2>3, <2>4, <2>5, <2>6 DEF TrNext, TrStep
<1>5. ASSUME UNCHANGED tr, NEW r \in Result, NEW row, SetRow(r, row),
             Valid(row) => Valid(res[r])
      PROVE  AnyValid(q)' => AnyValid(q)
  BY <1>1, <1>2, <1>5, WriteNoVerdict DEF AnyValid
<1>6. ASSUME UNCHANGED tr, Valid(res'[q]) => Valid(res[q])
      PROVE  AnyValid(q)' => AnyValid(q)
  BY <1>2, <1>6 DEF AnyValid
<1>7. CASE SchedNext /\ UNCHANGED tr
  <2>1. PICK r \in Result :
          \/ SendCheck(r) \/ ResendCheck(r) \/ ReportCheck(r) \/ DetachCheck(r)
          \/ CgiStep(r) \/ CgiCrash(r) \/ ClientFinish(r) \/ ClientLoses(r)
    BY <1>7 DEF SchedNext
  <2>2. CASE SendMark(r) \/ ResendMark(r) \/ ExpireMark(r)
    BY <1>1, <1>6, <1>7, <2>2 DEF SendMark, ResendMark, ExpireMark, Valid, ResultRow
  <2>3. CASE ReportRow(r)
    <3>1. res[r] \in ResultRow /\ cgi[r].validate_state = "INIT"
      BY <1>1, <2>3 DEF ReportRow, RecordsInv, HostSound
    <3>2. ~Valid(Reported(r))
      BY <3>1 DEF Valid, Reported, ResultRow
    <3> QED
      BY <1>5, <1>7, <2>3, <3>2 DEF ReportRow
  <2>4. CASE DetachRow(r)
    BY <1>1, <1>5, <1>7, <2>4 DEF DetachRow, Valid, ResultRow
  <2> QED
    BY <1>3, <1>7, <2>1, <2>2, <2>3, <2>4 DEF CgiStep, SendJob, ResendJob, ExpireJob, ReportJob,
       DetachJob, SendCheck, ResendCheck, ReportCheck, DetachCheck, CgiCrash, ClientFinish,
       ClientLoses, dbVars
<1>8. CASE AsNext /\ UNCHANGED tr
  BY <1>3, <1>8 DEF AsNext, AsStep, AsEnumerate, AsHandle, AsDone, AsCrash, dbVars
<1>9. CASE (FdNext \/ PurgeNext) /\ UNCHANGED tr
  <2>1. CASE FdUpdate
    <3>1. CASE fd.id = 0
      BY <1>3, <1>9, <2>1, <3>1 DEF FdUpdate
    <3>2. CASE fd.id # 0
      <4>1. fd.id \in Result
        BY <3>2 DEF TypeOK, FdTypeOK
      <4> QED
        BY <1>1, <1>5, <1>9, <2>1, <3>2, <4>1 DEF FdUpdate, Valid, ResultRow
    <3> QED
      BY <3>1, <3>2
  <2>2. CASE PurgeResult
    <3>1. PICK r \in Result : SetRow(r, [UnusedRow EXCEPT !.server_state = "PURGED"])
      BY <2>2 DEF PurgeResult, TypeOK, FdTypeOK
    <3> QED
      BY <1>5, <1>9, <3>1 DEF UnusedRow, Valid
  <2> QED
    BY <1>3, <1>9, <2>1, <2>2 DEF FdNext, PurgeNext, FdStep, PurgeStep, FdEnumerate, FdUnlink,
       FdCrash, PurgeEnumerate, PurgeQuery, PurgeSkip, PurgeJob, PurgeCrash, dbVars
<1>10. CASE CancelResults
  BY <1>1, <1>6, <1>10 DEF CancelResults, Valid, ResultRow
<1>11. CASE CancelJob \/ TransitionTimeComes \/ UNCHANGED vars
  BY <1>3, <1>11 DEF CancelJob, TransitionTimeComes, vars, dbVars
<1>12. ASSUME NEW r \in Result, DeadlinePasses(r) PROVE AnyValid(q)' => AnyValid(q)
  <2>1. Valid(res'[q]) => Valid(res[q])
    BY <1>1, <1>12 DEF DeadlinePasses, Valid, ResultRow
  <2>2. Valid(tr'.items[q]) => Valid(tr.items[q])
    BY <1>1, <1>12 DEF DeadlinePasses, TypeOK, TrTypeOK, Valid, ResultRow
  <2> QED
    BY <1>2, <2>1, <2>2 DEF AnyValid
<1> QED
  BY <1>4, <1>7, <1>8, <1>9, <1>10, <1>11, <1>12 DEF Next, Step, ValidatorStep

(* What check_set() leaves in the copies. *)
LEMMA CandidateChosen ==
  ASSUME NEW good \in SUBSET Result, ChosenCanonical(good) # 0
  PROVE  ChosenCanonical(good) \in Candidates(good)
<1>1. Candidates(good) \subseteq Result /\ Candidates(good) # {}
  BY DEF Candidates, ChosenCanonical
<1>2. PICK r \in Candidates(good) : \A q \in Candidates(good) : r <= q
  BY <1>1, LeastResult
<1> QED
  BY <1>1, <1>2 DEF ChosenCanonical

LEMMA AfterCheckSetFields ==
  ASSUME VaTypeOK, NEW bad \in SUBSET Result, NEW unseen \in SUBSET Result,
         va' = AfterCheckSet(bad, unseen), va.wu.canonical_resultid = 0
  PROVE  /\ va'.pc = "write"
         /\ va'.wu.canonical_resultid = ChosenCanonical(SuccessItems \ (bad \cup unseen))
         /\ va'.items = CheckedItems(bad, unseen, ChosenCanonical(SuccessItems \ (bad \cup unseen)))
<1> DEFINE c == ChosenCanonical(SuccessItems \ (bad \cup unseen))
<1>1. va.wu \in WuRow
  BY DEF VaTypeOK
<1> QED
  BY <1>1 DEF VaTypeOK, WuRow, AfterCheckSet, JobWithCanonical, JobWithoutConsensus

(* The validator's steps; a crash of it between two rows is not among them. *)
LEMMA CheckSetAgrees ==
  ASSUME TypeOK, CopiesConsistent, RecordsInv, AgreeInv, HandedInHeld,
         VaCheckSet, UNCHANGED tr
  PROVE  AgreeInv'
<1>1. PICK unseen \in SUBSET SuccessItems, bad \in SUBSET SuccessItems :
        va' = AfterCheckSet(bad, unseen)
  BY DEF VaCheckSet, Readable
<1> DEFINE good == SuccessItems \ (bad \cup unseen)
<1>0. PICK c : c = ChosenCanonical(good)
  OBVIOUS
<1>2. va.pc = "fetched" /\ va.wu.canonical_resultid = 0 /\ UNCHANGED <<wu, res, file>>
  BY DEF VaCheckSet, dbVars
<1>3. wu.canonical_resultid = 0 /\ Decisions = {} /\ \A r \in Result : ~AnyValid(r)
  <2>1. wu.canonical_resultid = 0
    BY <1>2 DEF CopiesConsistent
  <2>2. Undecided
    BY <1>2 DEF Undecided
  <2> QED
    BY <1>2, <2>1, <2>2 DEF AgreeInv, Decisions
<1>4. c \in good \cup {0}
  <2>1. good \in SUBSET Result
    BY DEF SuccessItems
  <2> HIDE DEF good
  <2> QED
    BY <1>0, <2>1, ChosenCanonicalType
<1>5. /\ va'.pc = "write" /\ va'.wu.canonical_resultid = c
      /\ va'.items = CheckedItems(bad, unseen, c)
  <2>1. bad \in SUBSET Result /\ unseen \in SUBSET Result
    BY DEF SuccessItems
  <2> QED
    BY <1>0, <1>1, <1>2, <2>1, AfterCheckSetFields DEF TypeOK
<1>6. ASSUME NEW r \in Result, AnyValid(r)'
      PROVE  c # 0 /\ file[r] = file[c]
  <2>1. Valid(va'.items[r]) /\ ~Valid(va.items[r])
    BY <1>2, <1>3, <1>6 DEF AnyValid
  <2>2. va.items[r] \in ResultRow
    BY DEF TypeOK, VaTypeOK
  <2>3. va'.items[r] \in {Checked(r, bad, unseen, c), va.items[r],
                          [va.items[r] EXCEPT !.server_state = "OVER", !.outcome = "DIDNT_NEED"]}
    BY <1>5 DEF CheckedItems
  <2>4. Valid(Checked(r, bad, unseen, c))
    BY <2>1, <2>2, <2>3 DEF Valid, ResultRow
  <2> QED
    BY <2>1, <2>2, <2>4 DEF Checked, Valid, Matches, ResultRow
<1>7. ASSUME c # 0 PROVE c \in Result /\ HandedIn(c)'
  <2>1. c \in Result /\ Success(va.items[c])
    BY <1>4, <1>7 DEF good, SuccessItems
  <2>2. AnyTold(c)
    BY <2>1 DEF AnyTold, Told, Success
  <2>3. HandedIn(c)
    BY <2>1, <2>2 DEF RecordsInv, ToldSound
  <2> QED
    BY <2>1, <2>3 DEF HandedInHeld
<1>8. Decisions' = {c} \ {0}
  BY <1>2, <1>3, <1>5 DEF Decisions
<1>9. ASSUME NEW r \in Result, Good(r)' PROVE file'[r] = file'[c]
  BY <1>2, <1>6, <1>8, <1>9 DEF Good
<1>10. Undecided' => \A r \in Result : ~AnyValid(r)'
  <2>1. Undecided' => c = 0
    BY <1>5 DEF Undecided
  <2> QED
    BY <1>6, <2>1
<1>11. \A r \in Decisions' : HandedIn(r)'
  BY <1>7, <1>8
<1>12. \A r, q \in Result : Good(r)' /\ Good(q)' => Equivalent(r, q)'
  BY <1>9 DEF Equivalent
<1> QED
  BY <1>5, <1>10, <1>11, <1>12 DEF AgreeInv, DecisionKnown

LEMMA ValidatorAgrees ==
  ASSUME TypeOK, CopiesConsistent, RecordsInv, AgreeInv, HandedInHeld,
         "crash" \notin Faults, VaNext, UNCHANGED tr
  PROVE  AgreeInv'
<1>1. /\ res \in [Result -> ResultRow] /\ va.items \in [Result -> ResultRow]
      /\ wu \in WuRow /\ va.wu \in WuRow /\ file' = file
      /\ Decisions \subseteq Result /\ wu.canonical_resultid \in Result \cup {0}
  BY DEF TypeOK, DBTypeOK, VaTypeOK, Decisions, WuRow, VaNext, VaStep, VaEnumerate,
     VaNoCanonicalRow, VaCheckSet, VaNoQuorum, VaUpdateWorkunit, VaRetryPair, VaCheckPair,
     VaSkipPair, VaUpdateResult, VaSkipResult, VaCrash, VaWriteResult, dbVars
<1>2. ~Valid(UnusedRow) /\ VaIdle.items = [r \in Result |-> UnusedRow]
      /\ VaIdle.wu.canonical_resultid = 0 /\ VaIdle.pc = "idle"
  BY DEF Valid, UnusedRow, VaIdle
<1>3. CASE VaEnumerate
  <2>1. /\ va'.items = res /\ va'.wu = wu /\ va'.pc = "fetched" /\ va.pc = "idle"
        /\ UNCHANGED <<wu, res>> /\ wu.exists
    BY <1>3 DEF VaEnumerate, VaIdle, dbVars
  <2> QED
    BY <1>1, <2>1, NoVerdict DEF AnyValid, Decisions, Undecided, DecisionKnown
<1>4. CASE va' = VaIdle /\ va.pc = "fetched" /\ UNCHANGED <<wu, res>>
  BY <1>1, <1>2, <1>4, NoVerdict DEF AnyValid, Decisions, Undecided, DecisionKnown
<1>5. CASE VaUpdateWorkunit
  <2>1. va.pc # "idle" /\ UNCHANGED res /\ va' = VaIdle
    BY <1>5 DEF VaUpdateWorkunit, HasCanonical
  <2>2. /\ wu'.exists = wu.exists
        /\ wu.exists => wu'.canonical_resultid = va.wu.canonical_resultid
        /\ ~wu.exists => wu' = wu
    BY <1>1, <1>5 DEF VaUpdateWorkunit, SetWu, WuRow
  <2>3. \A r \in Result : AnyValid(r)' => AnyValid(r)
    BY <1>2, <2>1 DEF AnyValid
  <2>4. Decisions' \subseteq Decisions
    BY <1>2, <2>1, <2>2 DEF Decisions
  <2>5. DecisionKnown' /\ (Undecided' => Undecided)
    BY <1>2, <2>1, <2>2 DEF DecisionKnown, Undecided
  <2> QED
    BY <1>1, <2>3, <2>4, <2>5, NoVerdict
<1>6. CASE VaNoQuorum \/ VaRetryPair
  <2>1. /\ va'.items = va.items /\ va'.wu = va.wu /\ va'.pc = "leave" /\ va.pc = "fetched"
        /\ UNCHANGED <<wu, res>>
    BY <1>6 DEF VaNoQuorum, VaRetryPair, HasCanonical, TypeOK, VaTypeOK, dbVars
  <2> QED
    BY <1>1, <2>1, NoVerdict DEF AnyValid, Decisions, Undecided, DecisionKnown, AgreeInv
<1>7. ASSUME NEW r \in Result, VaSkipPair(r) \/ VaSkipResult(r) PROVE AgreeInv'
  <2>1. /\ va'.items = va.items /\ va'.wu = va.wu /\ va'.pc = va.pc /\ UNCHANGED <<wu, res>>
    BY <1>7 DEF VaSkipPair, VaSkipResult, TypeOK, VaTypeOK, dbVars
  <2> QED
    BY <1>1, <2>1, NoVerdict DEF AnyValid, Decisions, Undecided, DecisionKnown, AgreeInv
<1>8. ASSUME NEW r \in Result, VaUpdateResult(r) PROVE AgreeInv'
  <2>1. /\ va'.items = va.items /\ va'.wu = va.wu /\ va'.pc = va.pc /\ UNCHANGED wu
        /\ VaWriteResult(r, va.items[r])
    BY <1>8 DEF VaUpdateResult, VaWriteResult, TypeOK, VaTypeOK
  <2>2. PICK row \in ResultRow : SetRow(r, row) /\ row.validate_state = va.items[r].validate_state
    <3> DEFINE written == [res[r] EXCEPT !.server_state = va.items[r].server_state,
                                         !.outcome = va.items[r].outcome,
                                         !.validate_state = va.items[r].validate_state]
    <3>1. va.items[r] \in ResultRow /\ res[r] \in ResultRow
      BY <1>1
    <3>2. /\ written \in ResultRow /\ written.validate_state = va.items[r].validate_state
          /\ SetRow(r, written)
      BY <2>1, <3>1 DEF VaWriteResult, ResultRow
    <3> QED
      BY <3>2
  <2>3. \A q \in Result : Valid(res'[q]) => AnyValid(q)
    BY <1>1, <2>2, WriteNoVerdict DEF AnyValid, Valid
  <2> QED
    BY <1>1, <2>1, <2>3, NoVerdict DEF AnyValid, Decisions, Undecided, DecisionKnown, AgreeInv
<1>9. ASSUME NEW r \in Result, VaCheckPair(r) PROVE AgreeInv'
  <2> DEFINE c == va.wu.canonical_resultid
  <2>1. /\ va'.items = va.items /\ va'.wu = va.wu /\ va'.pc = va.pc /\ UNCHANGED wu
        /\ va.pc = "fetched" /\ c # 0
    BY <1>9 DEF VaCheckPair, VaWriteResult, HasCanonical, TypeOK, VaTypeOK
  <2>2. c \in Decisions /\ wu.canonical_resultid # 0 /\ Good(c) /\ c \in Result
    BY <1>1, <2>1 DEF AgreeInv, DecisionKnown, Decisions, Good
  <2>3. PICK row \in ResultRow :
          SetRow(r, row) /\ (Valid(row) => file[r] # "none" /\ file[c] # "none" /\ file[r] = file[c])
    <3>1. va.items[r] \in ResultRow /\ res[r] \in ResultRow
      BY <1>1
    <3>2. PICK readable \in BOOLEAN, item \in ResultRow :
            /\ VaWriteResult(r, item)
            /\ readable => Readable(r) /\ Readable(c)
            /\ Valid(item) => readable /\ Matches(r, c)
      <4> DEFINE unread == [va.items[r] EXCEPT !.outcome = "VALIDATE_ERROR", !.validate_state = "INVALID"]
                 judged == [va.items[r] EXCEPT !.validate_state =
                             IF Matches(r, c) THEN "VALID" ELSE "INVALID"]
      <4>1. /\ unread \in ResultRow /\ ~Valid(unread)
            /\ judged \in ResultRow /\ (Valid(judged) => Matches(r, c))
        BY <3>1 DEF ResultRow, Outcome, ValidateState, Valid
      <4>2. \/ VaWriteResult(r, unread)
            \/ VaWriteResult(r, judged) /\ Readable(r) /\ Readable(c)
        BY <1>9 DEF VaCheckPair
      <4> HIDE DEF unread, judged
      <4> QED
        BY <4>1, <4>2
    <3> DEFINE written == [res[r] EXCEPT !.server_state = item.server_state,
                                         !.outcome = item.outcome,
                                         !.validate_state = item.validate_state]
    <3>3. written \in ResultRow /\ (Valid(written) => Valid(item)) /\ SetRow(r, written)
      BY <3>1, <3>2 DEF VaWriteResult, ResultRow, Valid
    <3> QED
      BY <3>2, <3>3 DEF Readable, Matches
  <2>4. ASSUME NEW q \in Result, AnyValid(q)', ~AnyValid(q)
        PROVE  q = r /\ file[r] # "none" /\ file[c] # "none" /\ file[r] = file[c]
    BY <1>1, <2>1, <2>3, <2>4 DEF AnyValid, SetRow
  <2>5. Decisions' = Decisions /\ ~Undecided' /\ DecisionKnown'
    BY <2>1, <2>2 DEF Decisions, Undecided, DecisionKnown
  <2>6. ASSUME NEW q \in Result, Good(q)'
        PROVE  Equivalent(q, c) /\ (Good(q) \/ (q = r /\ file[q] = file[c]))
    BY <2>2, <2>4, <2>5, <2>6 DEF Good, Equivalent, AgreeInv
  <2>7. \A p, q \in Result : Good(p)' /\ Good(q)' => Equivalent(p, q)'
    <3>1. SUFFICES ASSUME NEW p \in Result, NEW q \in Result, Good(p)', Good(q)'
                   PROVE  Equivalent(p, q)
      BY <1>1 DEF Equivalent
    <3>2. CASE Good(p) /\ Good(q)
      BY <3>2 DEF AgreeInv
    <3>3. CASE p = r /\ file[p] = file[c]
      BY <2>6, <3>1, <3>3 DEF Equivalent
    <3>4. CASE q = r /\ file[q] = file[c]
      BY <2>6, <3>1, <3>4 DEF Equivalent
    <3> QED
      BY <2>6, <3>1, <3>2, <3>3, <3>4
  <2>8. \A q \in Decisions' : HandedIn(q)'
    BY <1>1, <2>5 DEF AgreeInv, HandedInHeld
  <2> QED
    BY <2>5, <2>7, <2>8 DEF AgreeInv
<1>10. CASE VaNoCanonicalRow
  BY <1>4, <1>10 DEF VaNoCanonicalRow, HasCanonical, dbVars
<1> QED
  BY <1>3, <1>5, <1>6, <1>7, <1>8, <1>9, <1>10, CheckSetAgrees DEF VaNext, VaStep, VaCrash

LEMMA StepAgrees ==
  ASSUME "crash" \notin Faults, TypeOK, CopiesConsistent, RecordsInv, AgreeInv, [Next]_vars
  PROVE  AgreeInv'
<1>1. HandedInHeld
  BY StepKeepsHandedIn DEF HandedInHeld
<1>2. CASE ValidatorStep
  BY <1>1, <1>2, ValidatorAgrees DEF ValidatorStep
<1>3. CASE ~ValidatorStep
  <2>1. /\ UNCHANGED va /\ wu'.canonical_resultid = wu.canonical_resultid
        /\ wu'.exists => wu.exists
    BY <1>3, OthersDecideNothing
  <2>2. Decisions \subseteq Result
    BY DEF TypeOK, DBTypeOK, VaTypeOK, WuRow, Decisions
  <2>3. \A r \in Result : AnyValid(r)' => AnyValid(r)
    BY <1>3, OthersPassNoVerdict
  <2> QED
    BY <1>1, <2>1, <2>2, <2>3, NoVerdict DEF Decisions, Undecided, DecisionKnown, AgreeInv
<1> QED
  BY <1>2, <1>3

LEMMA InitAgrees == Init => AgreeInv
<1> SUFFICES ASSUME Init PROVE AgreeInv
  OBVIOUS
<1>1. Decisions = {} /\ DecisionKnown
  BY DEF Init, DBInit, VaInit, VaIdle, Decisions, DecisionKnown
<1>2. ASSUME NEW r \in Result PROVE ~AnyValid(r)
  BY DEF Init, DBInit, TrInit, VaInit, TrIdle, VaIdle, AnyValid, Valid, UnusedRow
<1> QED
  BY <1>1, <1>2 DEF AgreeInv, Good

(***************************************************************************)
(* Results the validator declared valid have equivalent output files, if   *)
(* no daemon is killed at work: whichever of check_set() and check_pair()  *)
(* compared them, however many programs wrote to the rows meanwhile, and   *)
(* whatever else fails.  (A validator killed between the rows and the job  *)
(* may choose another canonical result the next time.)                     *)
(***************************************************************************)
THEOREM VerdictsAgree == ASSUME "crash" \notin Faults PROVE Spec => []ValidAgree
<1>1. TypeOK /\ CopiesConsistent /\ RecordsInv /\ AgreeInv /\ [Next]_vars => AgreeInv'
  BY StepAgrees
<1>2. AgreeInv => ValidAgree
  BY DEF AgreeInv, Good, AnyValid, Valid, Equivalent, ValidAgree
<1> QED
  BY <1>1, <1>2, InitAgrees, TypeCorrect, Consistent, RecordsInvariant, PTL DEF Spec

-----------------------------------------------------------------------------
(* A canonical result has the support of more than half of a quorum. *)

(* Only the purger makes a row go. *)
LEMMA OthersArchiveNothing ==
  ASSUME TypeOK, CopiesConsistent, [Next]_vars, ~PurgeNext, NEW r \in Result,
         res'[r].server_state = "PURGED"
  PROVE  res[r].server_state = "PURGED"
<1>1. /\ res \in [Result -> ResultRow] /\ tr.items \in [Result -> ResultRow]
      /\ va.items \in [Result -> ResultRow]
  BY DEF TypeOK, DBTypeOK, TrTypeOK, VaTypeOK
<1>2. CASE UNCHANGED res
  BY <1>2
<1>3. ASSUME NEW q \in Result, NEW row, SetRow(q, row), row.server_state # "PURGED"
      PROVE  res[r].server_state = "PURGED"
  BY <1>1, <1>3 DEF SetRow
<1>4. CASE TrNext
  <2>1. ASSUME NEW q \in Result, NEW item, TrWriteResult(q, item), Over(item)
        PROVE  res[r].server_state = "PURGED"
    BY <1>1, <1>3, <2>1 DEF TrWriteResult, Over, ResultRow
  <2>2. ASSUME NEW q \in Result, TrTimeOut(q) \/ TrTooLate(q) \/ TrClose(q) \/ TrDelete(q)
        PROVE  res[r].server_state = "PURGED"
    <3>1. tr.items[q] \in ResultRow /\ Sound(tr.items[q])
      BY <1>1 DEF CopiesConsistent
    <3> DEFINE timedOut == [tr.items[q] EXCEPT !.server_state = "OVER", !.outcome = "NO_REPLY"]
               late     == [tr.items[q] EXCEPT !.validate_state = "TOO_LATE"]
               unneeded == [tr.items[q] EXCEPT !.server_state = "OVER", !.outcome = "DIDNT_NEED"]
               skipped  == [tr.items[q] EXCEPT !.validate_state = "NO_CHECK"]
               deleted  == [tr.items[q] EXCEPT !.file_delete_state = "READY"]
    <3>2. /\ Over(timedOut) /\ Over(unneeded)
          /\ Over(tr.items[q]) => Over(late) /\ Over(skipped) /\ Over(deleted)
      BY <3>1 DEF ResultRow, Over
    <3>3. CASE TrTimeOut(q)
      <4>1. TrWriteResult(q, timedOut)
        BY <3>3 DEF TrTimeOut
      <4> QED
        BY <2>1, <3>2, <4>1
    <3>4. CASE TrTooLate(q)
      <4>1. TrWriteResult(q, late) /\ Over(tr.items[q])
        BY <3>4 DEF TrTooLate, TooLate, Awaiting, Success
      <4> QED
        BY <2>1, <3>2, <4>1
    <3>5. CASE TrClose(q)
      <4>1. \/ TrWriteResult(q, unneeded)
            \/ TrWriteResult(q, skipped) /\ Over(tr.items[q])
        BY <3>5 DEF TrClose, ToClose, Unchecked, Success
      <4> QED
        BY <2>1, <3>2, <4>1
    <3>6. CASE TrDelete(q)
      <4>1. TrWriteResult(q, deleted) /\ Over(tr.items[q])
        BY <3>1, <3>6 DEF TrDelete, Deletable, Sound
      <4> QED
        BY <2>1, <3>2, <4>1
    <3> QED
      BY <2>2, <3>3, <3>4, <3>5, <3>6
  <2>3. CASE TrCreate
    BY <2>3 DEF TrCreate, NewRow, UnusedRow
  <2> QED
    BY <1>2, <1>4, <2>2, <2>3 DEF TrNext, TrStep, TrEnumerate, TrDecide, TrUpdateWorkunit,
       TrCrash, dbVars
<1>5. CASE VaNext
  <2>1. ASSUME NEW q \in Result, NEW item, VaWriteResult(q, item), Over(item)
        PROVE  res[r].server_state = "PURGED"
    BY <1>1, <1>3, <2>1 DEF VaWriteResult, Over, ResultRow
  <2>2. ASSUME NEW q \in Result, VaCheckPair(q) \/ VaUpdateResult(q)
        PROVE  res[r].server_state = "PURGED"
    <3>1. va.items[q] \in ResultRow /\ Over(va.items[q])
      BY <1>1, <2>2 DEF CopiesConsistent, VaCheckPair, VaUpdateResult
    <3>2. ASSUME NEW outcome, NEW validate_state,
                 VaWriteResult(q, [va.items[q] EXCEPT !.outcome = outcome,
                                                      !.validate_state = validate_state])
          PROVE  res[r].server_state = "PURGED"
      BY <2>1, <3>1, <3>2 DEF ResultRow, Over
    <3>3. ASSUME NEW validate_state,
                 VaWriteResult(q, [va.items[q] EXCEPT !.validate_state = validate_state])
          PROVE  res[r].server_state = "PURGED"
      BY <2>1, <3>1, <3>3 DEF ResultRow, Over
    <3>4. CASE VaCheckPair(q)
      BY <3>2, <3>3, <3>4 DEF VaCheckPair
    <3>5. CASE VaUpdateResult(q)
      BY <2>1, <3>1, <3>5 DEF VaUpdateResult
    <3> QED
      BY <2>2, <3>4, <3>5
  <2> QED
    BY <1>2, <1>5, <2>2 DEF VaNext, VaStep, VaEnumerate, VaNoCanonicalRow, VaCheckSet, VaNoQuorum,
       VaUpdateWorkunit, VaRetryPair, VaSkipPair, VaSkipResult, VaCrash, dbVars
<1>6. CASE SchedNext
  <2>1. PICK q \in Result :
          \/ SendCheck(q) \/ ResendCheck(q) \/ ReportCheck(q) \/ DetachCheck(q)
          \/ CgiStep(q) \/ CgiCrash(q) \/ ClientFinish(q) \/ ClientLoses(q)
    BY <1>6 DEF SchedNext
  <2>2. res[q] \in ResultRow
    BY <1>1
  <2>3. CASE SendMark(q) \/ ResendMark(q) \/ ExpireMark(q)
    BY <1>1, <2>3 DEF SendMark, ResendMark, ExpireMark, ResultRow
  <2>4. CASE ReportRow(q) \/ DetachRow(q)
    <3> DEFINE detached == [res[q] EXCEPT !.server_state = "OVER", !.outcome = "CLIENT_DETACHED",
                                         !.received = TRUE]
    <3>1. Reported(q).server_state = "OVER" /\ detached.server_state = "OVER"
      BY <2>2 DEF Reported, ResultRow
    <3>2. SetRow(q, Reported(q)) \/ SetRow(q, detached)
      BY <2>4 DEF ReportRow, DetachRow
    <3> QED
      BY <1>3, <3>1, <3>2
  <2> QED
    BY <1>2, <2>1, <2>3, <2>4 DEF CgiStep, SendJob, ResendJob, ExpireJob, ReportJob,
       DetachJob, SendCheck, ResendCheck, ReportCheck, DetachCheck, CgiCrash, ClientFinish,
       ClientLoses, dbVars
<1>7. CASE AsNext
  BY <1>2, <1>7 DEF AsNext, AsStep, AsEnumerate, AsHandle, AsDone, AsCrash, dbVars
<1>8. CASE FdNext
  <2>1. CASE FdUpdate
    BY <1>1, <2>1 DEF FdUpdate, SetRow, ResultRow, TypeOK, FdTypeOK
  <2> QED
    BY <1>2, <1>8, <2>1 DEF FdNext, FdStep, FdEnumerate, FdUnlink, FdCrash, dbVars
<1>9. CASE CancelResults
  BY <1>1, <1>9 DEF CancelResults, ResultRow
<1>10. CASE CancelJob \/ TransitionTimeComes \/ UNCHANGED vars
  BY <1>2, <1>10 DEF CancelJob, TransitionTimeComes, vars, dbVars
<1>11. ASSUME NEW q \in Result, DeadlinePasses(q) PROVE res[r].server_state = "PURGED"
  BY <1>1, <1>11 DEF DeadlinePasses, ResultRow
<1> QED
  BY <1>4, <1>5, <1>6, <1>7, <1>8, <1>9, <1>10, <1>11 DEF Next, Step

(* Without a file deleter no file is ever deleted and no row archived. *)
Undeleted ==
    /\ fd.pc = "idle" /\ purge.pc = "idle"
    /\ wu.file_delete_state # "DONE" /\ tr.wu.file_delete_state # "DONE"
    /\ \A r \in Result : res[r].server_state # "PURGED"

Backers(c) == {r \in Result : HandedIn(r) /\ file[r] = file[c]}

Backed(c) == c \in Result /\ HandedIn(c) /\ Cardinality(Backers(c)) > MinQuorum \div 2

SupportInv ==
    /\ Undeleted /\ DecisionKnown
    /\ va.pc = "write" /\ va.wu.canonical_resultid # 0 => Backed(va.wu.canonical_resultid)

LEMMA StepDeletesNothing ==
  ASSUME "file_deleter" \notin Programs, TypeOK, CopiesConsistent, Undeleted, [Next]_vars
  PROVE  Undeleted'
<1>1. UNCHANGED <<fd, purge>> /\ (PurgeNext => UNCHANGED dbVars)
  <2>1. ~PurgeNext
    BY DEF PurgeNext, PurgeStep, PurgeEnumerate, PurgeQuery, PurgeResult, PurgeSkip, PurgeJob,
       PurgeCrash, Undeleted
  <2> QED
    BY <2>1 DEF Next, Step, vars, deleterVars, CancelResults, CancelJob, TransitionTimeComes,
       DeadlinePasses
<1>2. ~PurgeNext
  BY DEF PurgeNext, PurgeStep, PurgeEnumerate, PurgeQuery, PurgeResult, PurgeSkip, PurgeJob,
     PurgeCrash, Undeleted
<1>3. \A r \in Result : res'[r].server_state # "PURGED"
  BY <1>2, OthersArchiveNothing DEF Undeleted
<1>4. wu \in WuRow /\ tr.wu \in WuRow /\ va.wu \in WuRow
  BY DEF TypeOK, DBTypeOK, TrTypeOK, VaTypeOK
<1>5. CASE TrNext
  <2>1. TrFileDelete # "DONE"
    BY DEF TrFileDelete, Undeleted
  <2>2. wu'.file_delete_state # "DONE"
    BY <1>4, <1>5, <2>1 DEF TrNext, TrStep, TrEnumerate, TrDecide, TrCreate, TrUpdateWorkunit, TrCrash,
       TrTimeOut, TrTooLate, TrClose, TrDelete, TrWriteResult, SetWu, WuRow, dbVars, Changed, Undeleted
  <2>3. tr'.wu.file_delete_state # "DONE"
    <3>1. tr'.wu \in {wu, tr.wu, TrIdle.wu}
      <4>1. CASE TrEnumerate
        BY <4>1 DEF TrEnumerate, TrIdle
      <4>2. CASE TrUpdateWorkunit \/ TrCrash
        BY <4>2 DEF TrUpdateWorkunit, TrCrash
      <4>3. CASE TrDecide
        BY <4>3, Zenon DEF TrDecide, TypeOK, TrTypeOK
      <4>4. CASE TrCreate \/ \E r \in Result : TrTimeOut(r) \/ TrTooLate(r) \/ TrClose(r) \/ TrDelete(r)
        BY <4>4 DEF TrCreate, TrTimeOut, TrTooLate, TrClose, TrDelete, TypeOK, TrTypeOK
      <4> QED
        BY <1>5, <4>1, <4>2, <4>3, <4>4 DEF TrNext, TrStep
    <3> QED
      BY <3>1 DEF Undeleted, TrIdle
  <2> QED
    BY <1>1, <1>3, <2>2, <2>3 DEF Undeleted
<1>6. ASSUME UNCHANGED tr, wu'.file_delete_state = wu.file_delete_state PROVE Undeleted'
  BY <1>1, <1>3, <1>6 DEF Undeleted
<1>7. CASE VaNext /\ UNCHANGED tr
  BY <1>4, <1>6, <1>7 DEF VaNext, VaStep, VaEnumerate, VaNoCanonicalRow, VaCheckSet, VaNoQuorum,
     VaUpdateWorkunit, VaRetryPair, VaCheckPair, VaSkipPair, VaUpdateResult, VaSkipResult, VaCrash,
     VaWriteResult, SetWu, WuRow, dbVars
<1>8. CASE SchedNext /\ UNCHANGED tr
  BY <1>4, <1>6, <1>8 DEF SchedNext, SendCheck, ResendCheck, ReportCheck, DetachCheck, CgiStep,
     CgiCrash, ClientFinish, ClientLoses, SendJob, SendMark, ResendJob, ResendMark, ExpireMark,
     ExpireJob, ReportRow, ReportJob, DetachRow, DetachJob, SetWu, WuRow, dbVars
<1>9. CASE AsNext /\ UNCHANGED tr
  BY <1>4, <1>6, <1>9 DEF AsNext, AsStep, AsEnumerate, AsHandle, AsDone, AsCrash, SetWu, WuRow, dbVars
<1>10. CASE CancelResults \/ CancelJob \/ TransitionTimeComes
  BY <1>4, <1>6, <1>10 DEF CancelResults, CancelJob, TransitionTimeComes, SetWu, WuRow
<1>11. ASSUME NEW r \in Result, DeadlinePasses(r) PROVE Undeleted'
  <2>1. tr'.wu = tr.wu /\ wu' = wu
    BY <1>11 DEF DeadlinePasses, TypeOK, TrTypeOK
  <2> QED
    BY <1>1, <1>3, <2>1 DEF Undeleted
<1>12. CASE UNCHANGED vars
  BY <1>6, <1>12 DEF vars, dbVars
<1> QED
  BY <1>2, <1>5, <1>7, <1>8, <1>9, <1>10, <1>11, <1>12 DEF Next, Step

(* What is backed stays so: the results are handed in, their files stay. *)
LEMMA BackedKept ==
  ASSUME HandedInHeld, NEW c, Backed(c), \A r \in Result : HandedIn(r) => file'[r] = file[r]
  PROVE  Backed(c)'
<1>1. Backers(c) \subseteq Backers(c)' /\ Backers(c)' \in SUBSET Result
  BY DEF Backers, HandedInHeld, Backed
<1>2. Cardinality(Backers(c)') >= Cardinality(Backers(c))
  BY <1>1, CountType, FS_Subset
<1>3. /\ Cardinality(Backers(c)) \in Nat /\ Cardinality(Backers(c)') \in Nat
      /\ MinQuorum \div 2 \in Nat
  BY <1>1, CountType, BackendAssumption DEF Backers
<1>4. Cardinality(Backers(c)') > MinQuorum \div 2
  BY <1>2, <1>3 DEF Backed
<1> QED
  BY <1>4 DEF Backed, HandedInHeld

LEMMA CheckSetBacked ==
  ASSUME TypeOK, RecordsInv, HandedInHeld, VaCheckSet, va'.wu.canonical_resultid # 0
  PROVE  Backed(va.wu.canonical_resultid)'
<1>1. PICK unseen \in SUBSET SuccessItems, bad \in SUBSET SuccessItems :
        va' = AfterCheckSet(bad, unseen)
  BY DEF VaCheckSet, Readable
<1>2. PICK good \in SUBSET SuccessItems : good = SuccessItems \ (bad \cup unseen)
  OBVIOUS
<1>3. PICK c : c = ChosenCanonical(good)
  OBVIOUS
<1>4. SuccessItems \subseteq Result /\ good \in SUBSET Result
  BY DEF SuccessItems
<1>5. va'.wu.canonical_resultid = c
  BY <1>1, <1>2, <1>3, <1>4, AfterCheckSetFields DEF TypeOK, VaCheckSet
<1>6. c \in good /\ Cardinality(Agreeing(c, good)) >= (MinQuorum \div 2) + 1
  BY <1>3, <1>4, <1>5, CandidateChosen DEF Candidates
<1>7. ASSUME NEW r \in SuccessItems PROVE HandedIn(r)' /\ file'[r] = file[r]
  <2>1. Told(va.items[r])
    BY DEF SuccessItems, Success, Told
  <2>2. HandedIn(r)
    BY <1>4, <2>1 DEF RecordsInv, ToldSound, AnyTold
  <2> QED
    BY <1>4, <2>2 DEF HandedInHeld, VaCheckSet, dbVars
<1>8. Agreeing(c, good) \subseteq Backers(c)' /\ Backers(c)' \in SUBSET Result
  BY <1>4, <1>6, <1>7 DEF Agreeing, Matches, Backers
<1>9. Cardinality(Backers(c)') >= Cardinality(Agreeing(c, good))
  BY <1>8, CountType, FS_Subset
<1>10. /\ Cardinality(Agreeing(c, good)) \in Nat /\ Cardinality(Backers(c)') \in Nat
       /\ MinQuorum \div 2 \in Nat
  BY <1>4, <1>8, CountType, BackendAssumption DEF Agreeing
<1>11. Cardinality(Backers(c)') > MinQuorum \div 2
  BY <1>6, <1>9, <1>10
<1> QED
  BY <1>4, <1>5, <1>6, <1>7, <1>11 DEF Backed

LEMMA ValidatorBacks ==
  ASSUME TypeOK, CopiesConsistent, RecordsInv, SupportInv, HandedInHeld,
         \A r \in Result : HandedIn(r) => file'[r] = file[r], ValidatorStep
  PROVE  /\ DecisionKnown'
         /\ (va.pc = "write" /\ va.wu.canonical_resultid # 0 => Backed(va.wu.canonical_resultid))'
<1>1. wu \in WuRow /\ va.wu \in WuRow
  BY DEF TypeOK, DBTypeOK, VaTypeOK
<1>2. CASE va' = VaIdle
  BY <1>2 DEF VaIdle, DecisionKnown
<1>3. CASE VaCheckSet
  <2>1. va'.pc = "write"
    BY <1>3 DEF VaCheckSet, AfterCheckSet, TypeOK, VaTypeOK
  <2> QED
    BY <1>3, <2>1, CheckSetBacked DEF DecisionKnown
<1>4. CASE VaEnumerate
  BY <1>4 DEF VaEnumerate, VaIdle, DecisionKnown, dbVars
<1>5. ASSUME va'.wu = va.wu, UNCHANGED wu, va'.pc = "write" <=> va.pc = "write"
      PROVE  /\ DecisionKnown'
             /\ (va.pc = "write" /\ va.wu.canonical_resultid # 0 => Backed(va.wu.canonical_resultid))'
  <2>1. DecisionKnown'
    BY <1>5 DEF SupportInv, DecisionKnown
  <2>2. ASSUME va'.pc = "write", va'.wu.canonical_resultid # 0
        PROVE  Backed(va.wu.canonical_resultid)'
    <3>1. PICK c : c = va.wu.canonical_resultid
      OBVIOUS
    <3>2. Backed(c)'
      BY <1>5, <2>2, <3>1, BackedKept DEF SupportInv
    <3> QED
      BY <1>5, <3>1, <3>2
  <2> QED
    BY <2>1, <2>2
<1>6. CASE VaNoQuorum \/ VaRetryPair
  BY <1>5, <1>6 DEF VaNoQuorum, VaRetryPair, HasCanonical, TypeOK, VaTypeOK, dbVars
<1>7. ASSUME NEW r \in Result, VaCheckPair(r) \/ VaSkipPair(r) \/ VaUpdateResult(r) \/ VaSkipResult(r)
      PROVE  va'.wu = va.wu /\ wu' = wu /\ va'.pc = va.pc
  BY <1>7 DEF VaCheckPair, VaSkipPair, VaUpdateResult, VaSkipResult, VaWriteResult, TypeOK, VaTypeOK,
     dbVars
<1> QED
  BY <1>2, <1>3, <1>4, <1>5, <1>6, <1>7 DEF ValidatorStep, VaNext, VaStep, VaNoCanonicalRow,
     VaUpdateWorkunit, VaCrash

LEMMA StepSupport ==
  ASSUME "file_deleter" \notin Programs, TypeOK, CopiesConsistent, RecordsInv, SupportInv, [Next]_vars
  PROVE  SupportInv'
<1>1. HandedInHeld /\ \A r \in Result : HandedIn(r) => file'[r] = file[r]
  BY StepKeepsHandedIn DEF HandedInHeld, SupportInv, Undeleted
<1>2. Undeleted'
  BY StepDeletesNothing DEF SupportInv
<1>3. CASE ValidatorStep
  BY <1>1, <1>2, <1>3, ValidatorBacks DEF SupportInv
<1>4. CASE ~ValidatorStep
  <2>1. UNCHANGED va /\ wu'.canonical_resultid = wu.canonical_resultid
    BY <1>4, OthersDecideNothing
  <2>2. PICK c : c = va.wu.canonical_resultid
    OBVIOUS
  <2>3. va.pc = "write" /\ c # 0 => Backed(c)'
    BY <1>1, <2>2, BackedKept DEF SupportInv
  <2> QED
    BY <1>2, <2>1, <2>2, <2>3 DEF SupportInv, DecisionKnown
<1> QED
  BY <1>3, <1>4

LEMMA InitSupport == Init => SupportInv
  BY DEF Init, DBInit, TrInit, VaInit, FdInit, TrIdle, VaIdle, FdIdle, PurgeIdle, UnusedRow,
     SupportInv, Undeleted, DecisionKnown

LEMMA ChoiceSupported ==
  ASSUME TypeOK, SupportInv, [Next]_vars,
         wu.canonical_resultid = 0, wu'.canonical_resultid # 0
  PROVE  Cardinality({r \in Result : res[r].received /\ file[r] = file[wu'.canonical_resultid]})
           > MinQuorum \div 2
<1>1. ValidatorStep
  BY OthersDecideNothing
<1>2. wu \in WuRow /\ va.wu \in WuRow
  BY DEF TypeOK, DBTypeOK, VaTypeOK
<1>3. wu' # wu
  OBVIOUS
<1>4. VaUpdateWorkunit
  BY <1>1, <1>3 DEF ValidatorStep, VaNext, VaStep, VaEnumerate, VaNoCanonicalRow, VaCheckSet, VaNoQuorum,
     VaRetryPair, VaCheckPair, VaSkipPair, VaUpdateResult, VaSkipResult, VaCrash, VaWriteResult, dbVars
<1>5. PICK c : c = va.wu.canonical_resultid
  OBVIOUS
<1>6. wu'.canonical_resultid = c /\ c # 0
  BY <1>2, <1>4, <1>5 DEF VaUpdateWorkunit, SetWu, WuRow
<1>7. Backed(c)
  BY <1>5, <1>6 DEF SupportInv, DecisionKnown
<1> DEFINE support == {r \in Result : res[r].received /\ file[r] = file[c]}
<1>8. Backers(c) \subseteq support /\ support \in SUBSET Result
  BY DEF Backers, HandedIn, SupportInv, Undeleted
<1> HIDE DEF support
<1>9. Cardinality(support) >= Cardinality(Backers(c))
  BY <1>8, CountType, FS_Subset
<1>10. /\ Cardinality(support) \in Nat /\ Cardinality(Backers(c)) \in Nat
       /\ MinQuorum \div 2 \in Nat
  BY <1>8, CountType, BackendAssumption DEF Backers
<1>11. Cardinality(support) > MinQuorum \div 2
  BY <1>7, <1>9, <1>10 DEF Backed
<1> QED
  BY <1>6, <1>11 DEF support

(***************************************************************************)
(* As long as no file is deleted, a canonical result is written to the job *)
(* only when more than half of a quorum of results that hosts reported     *)
(* agree with it: whatever quorum and limits the job has, whichever        *)
(* programs are stopped in the middle, and although check_set() counted    *)
(* them in a copy that is out of date by then.                             *)
(***************************************************************************)
THEOREM QuorumSupports == ASSUME "file_deleter" \notin Programs PROVE Spec => QuorumAgrees
<1>1. TypeOK /\ CopiesConsistent /\ RecordsInv /\ SupportInv /\ [Next]_vars => SupportInv'
  BY StepSupport
<1>2. TypeOK /\ SupportInv /\ [Next]_vars =>
        [wu.canonical_resultid = 0 /\ wu'.canonical_resultid # 0 =>
           Cardinality({r \in Result : /\ res[r].received
                                       /\ file[r] = file[wu'.canonical_resultid]})
             > MinQuorum \div 2]_vars
  BY ChoiceSupported
<1> QED
  BY <1>1, <1>2, InitSupport, TypeCorrect, Consistent, RecordsInvariant, PTL DEF Spec, QuorumAgrees
=============================================================================
