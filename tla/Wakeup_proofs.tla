--------------------------- MODULE Wakeup_proofs ---------------------------
(***************************************************************************)
(* Proofs that no wake-up is lost: a job at which the transitioner will    *)
(* not look again by itself is in another program's hands.  For programs   *)
(* that work on the job one after the other and are not killed, and for    *)
(* quorums up to four: from five on a late result need not be validated,   *)
(* because a quorum of results that are not invalid may not come about.    *)
(***************************************************************************)
EXTENDS Alone_proofs

-----------------------------------------------------------------------------
(* Who will look at the job when nothing else happens to it. *)

Awaits(row)    == Success(row) /\ row.validate_state = "INIT"
Confirmed(row) == Success(row) /\ row.validate_state = "VALID"

InHand == wu.assimilate_state = "READY" \/ wu.file_delete_state # "INIT"

(* Between two programs: the validator has a result to look at. *)
Waits ==
    \/ InHand
    \/ /\ wu.need_validate /\ wu.canonical_resultid # 0
       /\ \E r \in Result : Awaits(res[r])

(* The validator at work: it will wake the transitioner when it is done. *)
VaWillWake ==
    \/ InHand
    \/ /\ va.pc = "fetched" /\ va.wu.canonical_resultid # 0
       /\ va.tt = "IMMEDIATE" \/ va.todo # {}
    \/ va.pc = "leave" /\ va.tt = "DELAYED"

Asleep == wu.exists /\ wu.transition_time = "never"
NeverForgotten == Asleep => IF VaOff THEN Waits ELSE VaWillWake

(* The purger comes after the file deleter. *)
PurgeLast == ~PurgeOff \/ (\E r \in Result : res[r].server_state = "PURGED")
               => wu.file_delete_state # "INIT"

(* Only a result whose deadline has passed is given up as lost. *)
LateRow(row) == Over(row) /\ row.outcome = "NO_REPLY" => row.late
LateFor(r) ==
    /\ LateRow(res[r])
    /\ ~TrOff => /\ LateRow(tr.items[r])
                 /\ tr.items[r].server_state = "IN_PROGRESS" /\ tr.items[r].late => res[r].late
LateInv == \A r \in Result : LateFor(r)

(* The validator hands over what it decides, and finds the canonical result. *)
VaHandsOver ==
    /\ va.pc = "write" /\ va.wu.canonical_resultid # 0 => va.wu.assimilate_state = "READY"
    /\ va.pc = "fetched" /\ va.wu.canonical_resultid # 0 /\ wu.file_delete_state = "INIT"
         => Exists(va.items[va.wu.canonical_resultid])

(* The transitioner has seen that a late result is to be validated. *)
TrSees ==
    /\ tr.pc = "act" /\ wu.canonical_resultid # 0 /\ wu.file_delete_state = "INIT"
    /\ \E r \in Result : Awaits(tr.items[r])
    => tr.need_validate

(***************************************************************************)
(* The results that made the quorum stay valid: with a late one they are a *)
(* quorum again, if it is at most four.                                    *)
(***************************************************************************)
ConfirmedNow  == {r \in Result : Confirmed(res[r])}
ConfirmedSoon == {r \in Result : Confirmed(res[r]) \/ (r \in va.todo /\ Confirmed(va.items[r]))}

QuorumKept ==
    /\ wu.canonical_resultid # 0 /\ wu.file_delete_state = "INIT"
         => Cardinality(ConfirmedNow) > MinQuorum \div 2
    /\ va.pc = "write" /\ va.wu.canonical_resultid # 0
         => Cardinality(ConfirmedSoon) > MinQuorum \div 2

WakeInv ==
    /\ NeverForgotten /\ PurgeLast /\ LateInv /\ VaHandsOver /\ TrSees
    /\ "host" \notin Faults => QuorumKept

(* A late result is validated: alone, or with those that made the quorum. *)
LateCounts == MinQuorum <= 1 \/ (MinQuorum <= 4 /\ "host" \notin Faults)

-----------------------------------------------------------------------------
(* Programs other than transitioner and validator leave the job to those in *)
(* whose hands it is.                                                       *)

LeavesJob ==
    Asleep' => /\ Asleep /\ wu'.need_validate = wu.need_validate
               /\ wu.assimilate_state = "READY" => wu'.assimilate_state = "READY"

LeavesRow(r) ==
    /\ Success(res[r]) => \/ res'[r].server_state = "PURGED"
                          \/ Success(res'[r]) /\ res'[r].validate_state = res[r].validate_state
    /\ LateRow(res[r]) => LateRow(res'[r])

LeavesAlone == LeavesJob /\ \A r \in Result : LeavesRow(r)

TransitionerStep == TrNext /\ UNCHANGED <<va, schedVars, as, deleterVars, cancel>>

LEMMA JobUnchangedLeaves ==
  ASSUME UNCHANGED wu
  PROVE  LeavesJob
  BY DEF LeavesJob, Asleep

LEMMA WokenLeaves ==
  ASSUME TypeOK, NEW t \in {"due", "wait"}, NEW row \in WuRow, SetWu([row EXCEPT !.transition_time = t])
  PROVE  LeavesJob
<1>1. wu'.exists => wu.exists
  BY DEF SetWu
<1>2. wu.exists => wu'.transition_time # "never"
  BY DEF SetWu, WuRow
<1> QED
  BY <1>1, <1>2 DEF LeavesJob, Asleep

LEMMA RowsUnchangedLeave ==
  ASSUME UNCHANGED res
  PROVE  \A r \in Result : LeavesRow(r)
  BY DEF LeavesRow

LEMMA OneRowLeaves ==
  ASSUME TypeOK, NEW r \in Result, NEW row, SetRow(r, row), res'[r] = row => LeavesRow(r)
  PROVE  \A q \in Result : LeavesRow(q)
<1>1. res \in [Result -> ResultRow]
  BY DEF TypeOK, DBTypeOK
<1>2. CASE Exists(res[r])
  <2>1. res'[r] = row /\ \A q \in Result \ {r} : res'[q] = res[q]
    BY <1>1, <1>2 DEF SetRow
  <2> QED
    BY <2>1 DEF LeavesRow
<1>3. CASE ~Exists(res[r])
  BY <1>3, RowsUnchangedLeave DEF SetRow
<1> QED
  BY <1>2, <1>3

LEMMA SchedulerLeaves ==
  ASSUME TypeOK, CgiFresh, SchedNext
  PROVE  LeavesAlone
<1>1. PICK r \in Result :
        \/ SendCheck(r) \/ ResendCheck(r) \/ ReportCheck(r) \/ DetachCheck(r)
        \/ CgiStep(r) \/ CgiCrash(r) \/ ClientFinish(r) \/ ClientLoses(r)
  BY DEF SchedNext
<1>2. /\ res \in [Result -> ResultRow] /\ res[r] \in ResultRow /\ wu \in WuRow /\ RequestFresh(r)
  BY DEF TypeOK, DBTypeOK, CgiFresh
<1>3. LeavesJob
  <2>1. CASE UNCHANGED wu
    BY <2>1, JobUnchangedLeaves
  <2>2. CASE SendJob(r) \/ ResendJob(r)
    <3>1. PICK t \in {"due", "wait"} : t = NotLaterThan(wu.transition_time)
      BY <1>2 DEF NotLaterThan, WuRow, TransitionTime
    <3>2. SetWu([wu EXCEPT !.transition_time = t])
      BY <2>2, <3>1 DEF SendJob, ResendJob
    <3> QED
      BY <1>2, <3>2, WokenLeaves
  <2>3. CASE ExpireJob(r) \/ ReportJob(r) \/ DetachJob(r)
    BY <1>2, <2>3, WokenLeaves DEF ExpireJob, ReportJob, DetachJob
  <2> QED
    BY <1>1, <2>1, <2>2, <2>3 DEF SendCheck, ResendCheck, ReportCheck, DetachCheck, CgiStep, CgiCrash,
       ClientFinish, ClientLoses, SendMark, ResendMark, ExpireMark, ReportRow, DetachRow, dbVars
<1>4. \A q \in Result : LeavesRow(q)
  <2>1. CASE UNCHANGED res
    BY <2>1, RowsUnchangedLeave
  <2>2. CASE SendMark(r)
    <3>1. \A q \in Result \ {r} : res'[q] = res[q]
      BY <1>2, <2>2 DEF SendMark
    <3>2. res'[r] = res[r] \/ (res[r].server_state = "UNSENT" /\ res'[r].server_state = "IN_PROGRESS")
      BY <1>2, <2>2 DEF SendMark, ResultRow
    <3> QED
      BY <3>1, <3>2 DEF LeavesRow, LateRow, Success, Over
  <2>3. CASE ResendMark(r) \/ ExpireMark(r)
    <3>1. \A q \in Result \ {r} : res'[q] = res[q]
      BY <1>2, <2>3 DEF ResendMark, ExpireMark
    <3>2. \/ res'[r] = res[r]
          \/ res[r].server_state = "IN_PROGRESS" /\ res'[r].server_state = "IN_PROGRESS"
      BY <1>2, <2>3 DEF ResendMark, ExpireMark, ResultRow
    <3> QED
      BY <3>1, <3>2 DEF LeavesRow, LateRow, Success, Over
  <2>4. CASE ReportRow(r)
    <3>1. Reported(r).outcome \in {"SUCCESS", "CLIENT_ERROR"} /\ Accepts(res[r])
      BY <1>2, <2>4 DEF ReportRow, Reported, RequestFresh, ResultRow
    <3>2. res'[r] = Reported(r) => LeavesRow(r)
      BY <3>1 DEF Accepts, LeavesRow, LateRow, Success, Over
    <3> QED
      BY <2>4, <3>2, OneRowLeaves DEF ReportRow
  <2>5. CASE DetachRow(r)
    <3> DEFINE row == [res[r] EXCEPT !.server_state = "OVER", !.outcome = "CLIENT_DETACHED",
                                     !.received = TRUE]
    <3>1. row.outcome = "CLIENT_DETACHED" /\ res[r].server_state = "IN_PROGRESS" /\ SetRow(r, row)
      BY <1>2, <2>5 DEF DetachRow, RequestFresh, ResultRow
    <3> HIDE DEF row
    <3>2. res'[r] = row => LeavesRow(r)
      BY <3>1 DEF LeavesRow, LateRow, Success, Over
    <3> QED
      BY <3>1, <3>2, OneRowLeaves
  <2> QED
    BY <1>1, <2>1, <2>2, <2>3, <2>4, <2>5 DEF SendCheck, ResendCheck, ReportCheck, DetachCheck, CgiStep,
       CgiCrash, ClientFinish, ClientLoses, SendJob, ResendJob, ExpireJob, ReportJob, DetachJob, dbVars
<1> QED
  BY <1>3, <1>4 DEF LeavesAlone

LEMMA AssimilatorLeaves ==
  ASSUME TypeOK, AsNext
  PROVE  LeavesAlone
<1>1. wu \in WuRow /\ UNCHANGED res
  BY DEF TypeOK, DBTypeOK, AsNext, AsStep, AsEnumerate, AsHandle, AsDone, AsCrash, dbVars
<1>2. LeavesJob
  <2>1. CASE UNCHANGED wu
    BY <2>1, JobUnchangedLeaves
  <2>2. CASE AsHandle
    <3>1. wu' = wu \/ wu' = [wu EXCEPT !.error_mask = {"NO_CANONICAL_RESULT"}]
      BY <2>2 DEF AsHandle, SetWu
    <3> QED
      BY <1>1, <3>1 DEF LeavesJob, Asleep, WuRow
  <2>3. CASE AsDone
    <3>1. wu'.exists => wu.exists /\ wu'.transition_time = "due"
      BY <1>1, <2>3 DEF AsDone, SetWu, WuRow
    <3> QED
      BY <3>1 DEF LeavesJob, Asleep
  <2> QED
    BY <2>1, <2>2, <2>3 DEF AsNext, AsStep, AsEnumerate, AsCrash, dbVars
<1> QED
  BY <1>1, <1>2, RowsUnchangedLeave DEF LeavesAlone

LEMMA DeletersLeave ==
  ASSUME TypeOK, FdNext \/ PurgeNext
  PROVE  LeavesAlone
<1>1. res \in [Result -> ResultRow] /\ wu \in WuRow
  BY DEF TypeOK, DBTypeOK
<1>2. LeavesJob
  <2>1. CASE FdUpdate
    <3>1. wu' = wu \/ wu' = [wu EXCEPT !.file_delete_state = FdOutcome]
      BY <2>1 DEF FdUpdate, SetWu
    <3> QED
      BY <1>1, <3>1 DEF LeavesJob, Asleep, WuRow
  <2>2. CASE PurgeJob
    BY <1>1, <2>2 DEF PurgeJob, LeavesJob, Asleep, WuRow
  <2> QED
    BY <2>1, <2>2, JobUnchangedLeaves DEF FdNext, FdStep, FdEnumerate, FdUnlink, FdCrash, PurgeNext,
       PurgeStep, PurgeEnumerate, PurgeQuery, PurgeResult, PurgeSkip, PurgeCrash, dbVars
<1>3. \A r \in Result : LeavesRow(r)
  <2>1. CASE FdUpdate
    <3>1. CASE fd.id = 0
      BY <2>1, <3>1, RowsUnchangedLeave DEF FdUpdate
    <3>2. CASE fd.id # 0
      <4>1. PICK r \in Result : SetRow(r, [res[r] EXCEPT !.file_delete_state = FdOutcome])
        BY <2>1, <3>2 DEF FdUpdate, TypeOK, FdTypeOK
      <4> DEFINE row == [res[r] EXCEPT !.file_delete_state = FdOutcome]
      <4>2. /\ row.server_state = res[r].server_state /\ row.outcome = res[r].outcome
            /\ row.validate_state = res[r].validate_state /\ row.late = res[r].late
        BY <1>1 DEF ResultRow
      <4> HIDE DEF row
      <4>3. res'[r] = row => LeavesRow(r)
        BY <4>2 DEF LeavesRow, LateRow, Success, Over
      <4>4. SetRow(r, row)
        BY <4>1 DEF row
      <4> QED
        BY <4>3, <4>4, OneRowLeaves
    <3> QED
      BY <3>1, <3>2
  <2>2. CASE PurgeResult
    <3>1. PICK r \in Result : SetRow(r, [UnusedRow EXCEPT !.server_state = "PURGED"])
      BY <2>2 DEF PurgeResult, TypeOK, FdTypeOK
    <3> DEFINE row == [UnusedRow EXCEPT !.server_state = "PURGED"]
    <3>2. row.server_state = "PURGED"
      BY DEF UnusedRow
    <3> HIDE DEF row
    <3>3. res'[r] = row => LeavesRow(r)
      BY <3>2 DEF LeavesRow, LateRow, Over
    <3>4. SetRow(r, row)
      BY <3>1 DEF row
    <3> QED
      BY <3>3, <3>4, OneRowLeaves
  <2> QED
    BY <2>1, <2>2, RowsUnchangedLeave DEF FdNext, FdStep, FdEnumerate, FdUnlink, FdCrash, PurgeNext,
       PurgeStep, PurgeEnumerate, PurgeQuery, PurgeSkip, PurgeJob, PurgeCrash, dbVars
<1> QED
  BY <1>2, <1>3 DEF LeavesAlone

LEMMA RestLeaves ==
  ASSUME TypeOK, CancelResults \/ CancelJob \/ TransitionTimeComes
         \/ (\E r \in Result : DeadlinePasses(r)) \/ UNCHANGED vars
  PROVE  LeavesAlone
<1>1. res \in [Result -> ResultRow] /\ wu \in WuRow
  BY DEF TypeOK, DBTypeOK
<1>2. LeavesJob
  <2>1. CASE CancelJob
    <3>1. wu'.exists => wu.exists /\ wu'.transition_time = "due"
      BY <1>1, <2>1 DEF CancelJob, SetWu, WuRow
    <3> QED
      BY <3>1 DEF LeavesJob, Asleep
  <2>2. CASE TransitionTimeComes
    <3>1. wu'.transition_time = "due"
      BY <1>1, <2>2 DEF TransitionTimeComes, WuRow
    <3> QED
      BY <3>1 DEF LeavesJob, Asleep
  <2> QED
    BY <2>1, <2>2, JobUnchangedLeaves DEF CancelResults, DeadlinePasses, vars, dbVars
<1>3. \A r \in Result : LeavesRow(r)
  <2>1. CASE CancelResults
    <3>1. ASSUME NEW r \in Result
          PROVE  \/ res'[r] = res[r]
                 \/ res[r].server_state = "UNSENT" /\ res'[r].outcome = "DIDNT_NEED"
      BY <1>1, <2>1 DEF CancelResults, ResultRow
    <3> QED
      BY <3>1 DEF LeavesRow, LateRow, Success, Over
  <2>2. ASSUME NEW r \in Result, DeadlinePasses(r)
        PROVE  \A q \in Result : LeavesRow(q)
    <3>1. /\ \A q \in Result \ {r} : res'[q] = res[q]
          /\ res'[r].server_state = res[r].server_state /\ res'[r].outcome = res[r].outcome
          /\ res'[r].validate_state = res[r].validate_state /\ res'[r].late
      BY <1>1, <2>2 DEF DeadlinePasses, ResultRow
    <3> QED
      BY <3>1 DEF LeavesRow, LateRow, Success, Over
  <2> QED
    BY <2>1, <2>2, RowsUnchangedLeave DEF CancelJob, TransitionTimeComes, vars, dbVars
<1> QED
  BY <1>2, <1>3 DEF LeavesAlone

LEMMA OthersLeave ==
  ASSUME AloneInv, [Next]_vars, ~ValidatorStep, ~TransitionerStep
  PROVE  LeavesAlone
<1>1. TypeOK /\ CgiFresh
  BY DEF AloneInv, FreshInv
<1>2. SchedNext \/ AsNext \/ FdNext \/ PurgeNext \/ CancelResults \/ CancelJob \/ TransitionTimeComes
      \/ (\E r \in Result : DeadlinePasses(r)) \/ UNCHANGED vars
  BY DEF Next, Step, ValidatorStep, TransitionerStep
<1> QED
  BY <1>1, <1>2, SchedulerLeaves, AssimilatorLeaves, DeletersLeave, RestLeaves

-----------------------------------------------------------------------------
(* What the parts of the invariant have in common for all programs. *)

LEMMA PurgeLastKept ==
  ASSUME AloneInv, OrderlyStep, [Next]_vars, PurgeLast
  PROVE  PurgeLast'
<1>1. wu.file_delete_state # "INIT" => wu'.file_delete_state # "INIT"
  BY DEF OrderlyStep, WuStep
<1>2. TypeOK /\ CopiesConsistent
  BY DEF AloneInv
<1>3. CASE PurgeNext
  <2>1. CASE PurgeEnumerate
    BY <2>1 DEF PurgeEnumerate, PurgeLast, dbVars
  <2>2. CASE ~PurgeOff
    BY <1>1, <2>2 DEF PurgeLast
  <2> QED
    BY <1>3, <2>1, <2>2 DEF PurgeNext, PurgeStep, PurgeQuery, PurgeResult, PurgeSkip, PurgeJob,
       PurgeCrash, PurgeOff
<1>4. CASE ~PurgeNext
  <2>1. purge' = purge
    BY <1>4 DEF Next, Step, vars, deleterVars, FdNext, FdStep, FdEnumerate, FdUnlink, FdUpdate, FdCrash,
       CancelResults, CancelJob, TransitionTimeComes, DeadlinePasses
  <2>2. \A r \in Result : res'[r].server_state = "PURGED" => res[r].server_state = "PURGED"
    BY <1>2, <1>4, OthersArchiveNothing
  <2> QED
    BY <1>1, <2>1, <2>2 DEF PurgeLast, PurgeOff
<1> QED
  BY <1>3, <1>4

(* Nobody archives rows while the validator is at work. *)
LEMMA NothingArchived ==
  ASSUME AloneInv, [Next]_vars, ~VaOff, NEW r \in Result, res'[r].server_state = "PURGED"
  PROVE  res[r].server_state = "PURGED"
<1>1. TypeOK /\ CopiesConsistent /\ PurgeOff
  BY DEF AloneInv, Exclusive
<1>2. CASE PurgeNext
  BY <1>1, <1>2 DEF PurgeNext, PurgeStep, PurgeEnumerate, PurgeQuery, PurgeResult, PurgeSkip, PurgeJob,
     PurgeCrash, PurgeOff, dbVars
<1> QED
  BY <1>1, <1>2, OthersArchiveNothing

(* What is confirmed stays so: the validator does not judge it once more. *)
LEMMA ConfirmedKept ==
  ASSUME "crash" \notin Faults, NEW r \in Result, RowStep(r), Confirmed(res[r])
  PROVE  Confirmed(res'[r]) \/ res'[r].server_state = "PURGED"
  BY DEF Confirmed, Success, Over, RowStep, RowKept, Same, RowCreated, RowSent, RowGivenUp,
     RowCalledOff, RowMoves, RowReported, RowDetached, RowJudged, RowFiles, RowPurged, UnusedRow, Accepts

LEMMA StillQuorum ==
  ASSUME NEW S \in SUBSET Result, NEW T \in SUBSET Result, S \subseteq T,
         Cardinality(S) > MinQuorum \div 2
  PROVE  Cardinality(T) > MinQuorum \div 2
<1>1. Cardinality(S) <= Cardinality(T)
  BY CountType, FS_Subset
<1>2. Cardinality(S) \in Nat /\ Cardinality(T) \in Nat /\ MinQuorum \div 2 \in Nat
  BY CountType, BackendAssumption
<1> QED
  BY <1>1, <1>2

(* A step that does not decide the job keeps the quorum in the database. *)
LEMMA QuorumStays ==
  ASSUME "crash" \notin Faults, OrderlyStep, PurgeLast', QuorumKept, wu.canonical_resultid # 0
  PROVE  wu'.file_delete_state = "INIT" => Cardinality(ConfirmedNow') > MinQuorum \div 2
<1> SUFFICES ASSUME wu'.file_delete_state = "INIT"
             PROVE  Cardinality(ConfirmedNow') > MinQuorum \div 2
  OBVIOUS
<1>1. wu.file_delete_state = "INIT"
  BY DEF OrderlyStep, WuStep
<1>2. Cardinality(ConfirmedNow) > MinQuorum \div 2
  BY <1>1 DEF QuorumKept
<1>3. ASSUME NEW r \in Result, Confirmed(res[r]) PROVE Confirmed(res'[r])
  <2>1. RowStep(r) /\ res'[r].server_state # "PURGED"
    BY DEF OrderlyStep, PurgeLast
  <2> QED
    BY <1>3, <2>1, ConfirmedKept
<1>4. ConfirmedNow \subseteq ConfirmedNow' /\ ConfirmedNow \in SUBSET Result
      /\ ConfirmedNow' \in SUBSET Result
  BY <1>3 DEF ConfirmedNow
<1> QED
  BY <1>2, <1>4, StillQuorum

-----------------------------------------------------------------------------
(* The steps of programs other than transitioner and validator. *)

(* A transitioner at work sees no row change but for a deadline that passes. *)
LEMMA CopyUndisturbed ==
  ASSUME AloneInv, Exclusive', [Next]_vars, ~ValidatorStep, ~TransitionerStep
  PROVE  \/ UNCHANGED <<res, tr>>
         \/ TrOff /\ UNCHANGED tr
         \/ \E r \in Result : DeadlinePasses(r)
<1>1. Exclusive /\ FdTypeOK
  BY DEF AloneInv, TypeOK
<1>2. CASE SchedNext /\ UNCHANGED tr
  <2>1. TrOff \/ (CgiOff /\ DetachOff)
    BY <1>1 DEF Exclusive
  <2>2. CASE CgiOff /\ DetachOff
    <3>1. UNCHANGED res
      BY <1>2, <2>2 DEF SchedNext, SendCheck, ResendCheck, ReportCheck, DetachCheck, CgiStep, CgiCrash,
         ClientFinish, ClientLoses, SendJob, SendMark, ResendJob, ResendMark, ExpireMark, ExpireJob,
         ReportRow, ReportJob, DetachRow, DetachJob, CgiOff, DetachOff, dbVars
    <3> QED
      BY <1>2, <3>1
  <2> QED
    BY <1>2, <2>1, <2>2
<1>3. CASE AsNext /\ UNCHANGED tr
  BY <1>3 DEF AsNext, AsStep, AsEnumerate, AsHandle, AsDone, AsCrash, dbVars
<1>4. CASE (FdNext \/ PurgeNext) /\ UNCHANGED <<tr, va, schedVars, as, cancel>>
  BY <1>1, <1>4, FileDeleterAlone, PurgerAlone
<1>5. CASE CancelResults \/ CancelJob
  BY <1>1, <1>5, OperatorAlone DEF CancelResults, CancelJob
<1>6. CASE TransitionTimeComes \/ UNCHANGED vars
  BY <1>6 DEF TransitionTimeComes, vars, dbVars
<1> QED
  BY <1>2, <1>3, <1>4, <1>5, <1>6 DEF Next, Step, ValidatorStep, TransitionerStep

LEMMA OthersWake ==
  ASSUME "crash" \notin Faults, AloneInv, Exclusive', OrderlyStep, [Next]_vars,
         ~ValidatorStep, ~TransitionerStep, WakeInv
  PROVE  WakeInv'
<1>1. LeavesAlone
  BY OthersLeave
<1>2. /\ va' = va /\ wu'.canonical_resultid = wu.canonical_resultid
      /\ wu.file_delete_state # "INIT" => wu'.file_delete_state # "INIT"
  BY OthersDecideNothing DEF AloneInv, OrderlyStep, WuStep
<1>3. PurgeLast'
  BY PurgeLastKept DEF WakeInv
<1>4. NeverForgotten'
  <2>1. SUFFICES ASSUME Asleep'
                 PROVE  IF VaOff' THEN Waits' ELSE VaWillWake'
    BY DEF NeverForgotten
  <2>2. Asleep /\ wu'.need_validate = wu.need_validate /\ (InHand => InHand')
    BY <1>1, <1>2, <2>1 DEF LeavesAlone, LeavesJob, InHand
  <2>3. CASE VaOff
    <3>1. Waits
      BY <2>2, <2>3 DEF WakeInv, NeverForgotten
    <3>2. CASE InHand
      BY <1>2, <2>2, <2>3, <3>2 DEF VaOff, Waits
    <3>3. CASE ~InHand
      <4>1. PICK r \in Result : Awaits(res[r])
        BY <3>1, <3>3 DEF Waits
      <4>2. Awaits(res'[r]) \/ res'[r].server_state = "PURGED"
        BY <1>1, <4>1 DEF LeavesAlone, LeavesRow, Awaits
      <4>3. Waits'
        BY <1>2, <1>3, <2>2, <3>1, <3>3, <4>2 DEF Waits, PurgeLast, InHand
      <4> QED
        BY <1>2, <2>3, <4>3 DEF VaOff
    <3> QED
      BY <3>2, <3>3
  <2>4. CASE ~VaOff
    BY <1>2, <2>2, <2>4 DEF WakeInv, NeverForgotten, VaOff, VaWillWake
  <2> QED
    BY <2>3, <2>4
<1>5. LateInv'
  <2>1. SUFFICES ASSUME NEW r \in Result PROVE LateFor(r)'
    BY DEF LateInv
  <2>2. LateFor(r) /\ LateRow(res'[r])
    BY <1>1 DEF WakeInv, LateInv, LateFor, LeavesAlone, LeavesRow
  <2>3. CASE UNCHANGED <<res, tr>> \/ (TrOff /\ UNCHANGED tr)
    BY <2>2, <2>3 DEF LateFor, TrOff
  <2>4. ASSUME NEW q \in Result, DeadlinePasses(q) PROVE LateFor(r)'
    <3>1. /\ res \in [Result -> ResultRow] /\ tr.items \in [Result -> ResultRow] /\ TrTypeOK
      BY DEF AloneInv, TypeOK, DBTypeOK, TrTypeOK
    <3>2. /\ tr'.pc = tr.pc /\ tr'.items[r].server_state = tr.items[r].server_state
          /\ tr'.items[r].outcome = tr.items[r].outcome
          /\ tr.items[r].late => tr'.items[r].late
          /\ tr'.items[r].late => tr.items[r].late \/ r = q
      BY <2>4, <3>1 DEF DeadlinePasses, TrTypeOK, ResultRow
    <3>3. (res[r].late => res'[r].late) /\ res'[q].late
      BY <2>4, <3>1 DEF DeadlinePasses, ResultRow
    <3> QED
      BY <2>2, <3>2, <3>3 DEF LateFor, LateRow, TrOff, Over
  <2> QED
    BY <2>3, <2>4, CopyUndisturbed
<1>6. VaHandsOver'
  BY <1>2 DEF WakeInv, VaHandsOver
<1>7. TrSees'
  <2>1. ASSUME NEW r \in Result, DeadlinePasses(r) PROVE tr'.pc = "act" => tr' = tr
    BY <2>1 DEF DeadlinePasses, AloneInv, TypeOK, TrTypeOK
  <2>2. UNCHANGED tr \/ \E r \in Result : DeadlinePasses(r)
    BY CopyUndisturbed
  <2> QED
    BY <1>2, <2>1, <2>2 DEF WakeInv, TrSees
<1>8. ASSUME "host" \notin Faults PROVE QuorumKept'
  <2>1. QuorumKept
    BY <1>8 DEF WakeInv
  <2>2. ASSUME va'.pc = "write", va'.wu.canonical_resultid # 0
        PROVE  Cardinality(ConfirmedSoon') > MinQuorum \div 2
    <3>1. Cardinality(ConfirmedSoon) > MinQuorum \div 2 /\ ~VaOff
      BY <1>2, <2>1, <2>2 DEF QuorumKept, VaOff
    <3>2. ASSUME NEW r \in Result, Confirmed(res[r]) PROVE Confirmed(res'[r])
      <4>1. res'[r].server_state # "PURGED"
        BY <3>1, <3>2, NothingArchived DEF Confirmed, Success, Over
      <4> QED
        BY <3>2, <4>1, ConfirmedKept DEF OrderlyStep
    <3>3. ConfirmedSoon \subseteq ConfirmedSoon' /\ ConfirmedSoon \in SUBSET Result
          /\ ConfirmedSoon' \in SUBSET Result
      BY <1>2, <3>2 DEF ConfirmedSoon
    <3> QED
      BY <3>1, <3>3, StillQuorum
  <2>3. wu'.canonical_resultid # 0 /\ wu'.file_delete_state = "INIT"
          => Cardinality(ConfirmedNow') > MinQuorum \div 2
    BY <1>2, <1>3, <2>1, QuorumStays
  <2> QED
    BY <2>2, <2>3 DEF QuorumKept
<1> QED
  BY <1>3, <1>4, <1>5, <1>6, <1>7, <1>8 DEF WakeInv

-----------------------------------------------------------------------------
(* The validator. *)

(* What a step of the validator does to a result. *)
ValidatorRow(r) ==
    \/ res'[r] = res[r]
    \/ Success(res[r]) /\ res'[r].outcome \in {"SUCCESS", "VALIDATE_ERROR"}
    \/ res[r].server_state = "UNSENT" /\ res'[r].outcome = "DIDNT_NEED"

LEMMA ValidatorRows ==
  ASSUME TypeOK, VaFresh, ValidatorStep, NEW r \in Result
  PROVE  ValidatorRow(r)
<1>1. res \in [Result -> ResultRow] /\ va.items \in [Result -> ResultRow] /\ va.todo \in SUBSET Result
  BY DEF TypeOK, DBTypeOK, VaTypeOK
<1>2. ASSUME UNCHANGED res PROVE ValidatorRow(r)
  BY <1>2 DEF ValidatorRow
<1>3. ASSUME NEW q \in Result, NEW item, VaWriteResult(q, item),
             \/ Success(res[q]) /\ item.outcome \in {"SUCCESS", "VALIDATE_ERROR"}
             \/ res[q].server_state = "UNSENT" /\ item.outcome = "DIDNT_NEED"
      PROVE  ValidatorRow(r)
  <2>1. Exists(res[q])
    BY <1>3 DEF Success, Over, Exists
  <2>2. res' = [res EXCEPT ![q] = [res[q] EXCEPT !.server_state = item.server_state,
                                                 !.outcome = item.outcome,
                                                 !.validate_state = item.validate_state]]
    BY <1>3, <2>1 DEF VaWriteResult, SetRow
  <2>3. res'[q].outcome = item.outcome /\ (r # q => res'[r] = res[r])
    BY <1>1, <2>2 DEF ResultRow
  <2> QED
    BY <1>3, <2>3 DEF ValidatorRow
<1>4. ASSUME NEW q \in Result, VaCheckPair(q) PROVE ValidatorRow(r)
  <2>1. Same(va.items[q], res[q]) /\ Success(res[q])
    BY <1>4 DEF VaCheckPair, HasCanonical, VaFresh, VaOff, VaItemsFresh
  <2>2. PICK item : VaWriteResult(q, item) /\ item.outcome \in {"SUCCESS", "VALIDATE_ERROR"}
    <3> DEFINE bad == [va.items[q] EXCEPT !.outcome = "VALIDATE_ERROR", !.validate_state = "INVALID"]
               good == [va.items[q] EXCEPT !.validate_state = "VALID"]
               other == [va.items[q] EXCEPT !.validate_state = "INVALID"]
    <3>1. VaWriteResult(q, bad) \/ VaWriteResult(q, good) \/ VaWriteResult(q, other)
      BY <1>4 DEF VaCheckPair
    <3>2. {bad.outcome, good.outcome, other.outcome} \subseteq {"SUCCESS", "VALIDATE_ERROR"}
      BY <1>1, <2>1 DEF Same, Success, ResultRow
    <3> HIDE DEF bad, good, other
    <3> QED
      BY <3>1, <3>2
  <2> QED
    BY <1>3, <2>1, <2>2
<1>5. ASSUME NEW q \in Result, VaUpdateResult(q) PROVE ValidatorRow(r)
  <2>1. JudgedItem(q) \/ CalledOffItem(q)
    BY <1>5 DEF VaUpdateResult, VaFresh, VaOff, VaWriteFresh
  <2>2. VaWriteResult(q, va.items[q])
    BY <1>5 DEF VaUpdateResult
  <2> QED
    BY <1>3, <2>1, <2>2 DEF JudgedItem, CalledOffItem
<1> QED
  BY <1>2, <1>4, <1>5 DEF ValidatorStep, VaNext, VaStep, VaEnumerate, VaNoCanonicalRow, VaCheckSet,
     VaNoQuorum, VaUpdateWorkunit, VaRetryPair, VaSkipPair, VaSkipResult, VaCrash, dbVars

(* check_set() leaves the job with a canonical result and its quorum to be written. *)
LEMMA CheckSetHandsOver ==
  ASSUME TypeOK, VaCheckSet, va'.wu.canonical_resultid # 0
  PROVE  /\ va'.wu.assimilate_state = "READY"
         /\ Cardinality(ConfirmedSoon') > MinQuorum \div 2
<1>1. PICK unseen \in SUBSET SuccessItems, bad \in SUBSET SuccessItems :
        va' = AfterCheckSet(bad, unseen)
  BY DEF VaCheckSet
<1>2. PICK good \in SUBSET SuccessItems : good = SuccessItems \ (bad \cup unseen)
  OBVIOUS
<1>3. PICK c : c = ChosenCanonical(good)
  OBVIOUS
<1>4. PICK n : n = Cardinality(SuccessItems \ bad)
  OBVIOUS
<1>5. SuccessItems \subseteq Result /\ good \in SUBSET Result
      /\ bad \in SUBSET Result /\ unseen \in SUBSET Result
  BY DEF SuccessItems
<1>6. va.wu.canonical_resultid = 0 /\ VaTypeOK /\ va.wu \in WuRow
  BY DEF VaCheckSet, TypeOK, VaTypeOK
<1>7. PICK items : items = CheckedItems(bad, unseen, c)
  OBVIOUS
<1>8. va'.wu.canonical_resultid = c /\ va'.items = items
  BY <1>1, <1>2, <1>3, <1>5, <1>6, <1>7, AfterCheckSetFields
<1>9. c \in good /\ Cardinality(Agreeing(c, good)) > MinQuorum \div 2
  <2>1. c \in good /\ Cardinality(Agreeing(c, good)) >= (MinQuorum \div 2) + 1
    BY <1>3, <1>5, <1>8, CandidateChosen DEF Candidates
  <2>2. Cardinality(Agreeing(c, good)) \in Nat /\ MinQuorum \div 2 \in Nat
    BY <1>5, CountType, BackendAssumption DEF Agreeing
  <2> QED
    BY <2>1, <2>2
<1>10. va'.todo = ToWrite(items) /\ va'.wu = JobWithCanonical(c)
  <2>1. n \in Nat
    BY <1>4, <1>5, CountType
  <2> QED
    BY <1>1, <1>2, <1>3, <1>4, <1>5, <1>6, <1>7, <1>8, <1>9, <2>1, AfterCheckSetRest
<1>11. va'.wu.assimilate_state = "READY"
  BY <1>6, <1>10 DEF JobWithCanonical, WuRow
<1>12. ASSUME NEW r \in Agreeing(c, good) PROVE r \in ConfirmedSoon'
  <2>1. r \in good /\ r \in SuccessItems /\ r \in Result /\ Matches(r, c) /\ r \notin bad \cup unseen
    BY <1>2, <1>5, <1>12 DEF Agreeing
  <2>2. items[r] = [va.items[r] EXCEPT !.validate_state = "VALID"]
    <3>1. items[r] = Checked(r, bad, unseen, c)
      BY <1>7, <2>1 DEF CheckedItems
    <3> QED
      BY <1>8, <2>1, <3>1 DEF Checked
  <2>3. Confirmed(items[r]) /\ items[r].validate_state = "VALID"
    <3>1. va.items[r] \in ResultRow /\ Success(va.items[r])
      BY <1>6, <2>1 DEF VaTypeOK, SuccessItems
    <3> QED
      BY <2>2, <3>1 DEF Confirmed, Success, Over, ResultRow
  <2>4. r \in va'.todo
    BY <1>10, <2>1, <2>3 DEF ToWrite
  <2> QED
    BY <1>8, <2>1, <2>3, <2>4 DEF ConfirmedSoon
<1>13. Agreeing(c, good) \in SUBSET Result /\ ConfirmedSoon' \in SUBSET Result
  BY <1>5 DEF Agreeing, ConfirmedSoon
<1>14. Cardinality(ConfirmedSoon') > MinQuorum \div 2
  BY <1>9, <1>12, <1>13, StillQuorum
<1> QED
  BY <1>11, <1>14

(* The validator leaves a job asleep only in the hands of another program. *)
LEMMA ValidatorJobWakes ==
  ASSUME TypeOK, VaFresh, NeverForgotten, VaHandsOver, VaUpdateWorkunit, Asleep'
  PROVE  InHand'
<1>1. /\ va.pc # "idle" /\ ~VaOff /\ wu.exists /\ VaReadFresh /\ VaWriteFresh
      /\ (va.wu.transition_time = "never" => wu.transition_time = "never")
  BY DEF VaUpdateWorkunit, VaFresh, VaOff, HasCanonical
<1>2. wu \in WuRow /\ va.wu \in WuRow
      /\ va.tt \in {"NO_CHANGE", "IMMEDIATE", "DELAYED", "NEVER"} /\ va.pc \in VaPc
  BY DEF TypeOK, DBTypeOK, VaTypeOK
<1>3. /\ wu'.assimilate_state = va.wu.assimilate_state
      /\ wu'.file_delete_state = wu.file_delete_state
      /\ VaTransitionTime = "never"
  <2>1. wu' = [wu EXCEPT !.need_validate = FALSE,
                         !.error_mask = va.wu.error_mask,
                         !.assimilate_state = va.wu.assimilate_state,
                         !.transition_time = VaTransitionTime,
                         !.target_nresults = va.wu.target_nresults,
                         !.canonical_resultid = va.wu.canonical_resultid]
    BY <1>1 DEF VaUpdateWorkunit, SetWu
  <2> QED
    BY <1>2, <2>1 DEF WuRow, Asleep
<1>4. CASE va.pc = "write" /\ va.wu.canonical_resultid # 0
  BY <1>3, <1>4 DEF VaHandsOver, InHand
<1>5. CASE ~(va.pc = "write" /\ va.wu.canonical_resultid # 0)
  <2>1. va.tt # "NEVER" /\ va.wu.assimilate_state = wu.assimilate_state
    BY <1>1, <1>2, <1>5 DEF VaReadFresh, VaWriteFresh, VaPc
  <2>2. va.tt = "NO_CHANGE" /\ va.wu.transition_time = "never"
    BY <1>2, <1>3, <2>1 DEF VaTransitionTime, NotLaterThan
  <2>3. VaWillWake
    BY <1>1, <2>2 DEF NeverForgotten, Asleep
  <2>4. ~(va.pc = "fetched" /\ va.wu.canonical_resultid # 0 /\ (va.tt = "IMMEDIATE" \/ va.todo # {}))
    BY <2>2 DEF VaUpdateWorkunit
  <2> QED
    BY <1>3, <2>1, <2>2, <2>3, <2>4 DEF VaWillWake, InHand
<1> QED
  BY <1>4, <1>5

LEMMA ValidatorWakes ==
  ASSUME "crash" \notin Faults, AloneInv, Exclusive', OrderlyStep, [Next]_vars, ValidatorStep, WakeInv
  PROVE  WakeInv'
<1>1. /\ TypeOK /\ CopiesConsistent /\ VaFresh /\ VaTypeOK /\ wu \in WuRow /\ va.wu \in WuRow
      /\ NeverForgotten /\ VaHandsOver
  BY DEF AloneInv, FreshInv, TypeOK, VaTypeOK, DBTypeOK, WakeInv
<1>2. TrOff /\ tr' = tr
  BY ValidatorAlone DEF AloneInv, ValidatorStep
<1>3. PurgeLast'
  BY PurgeLastKept DEF WakeInv
<1>4. LateInv'
  <2>1. ASSUME NEW r \in Result PROVE LateRow(res'[r])
    <3>1. ValidatorRow(r) /\ LateRow(res[r])
      BY <1>1, ValidatorRows DEF WakeInv, LateInv, LateFor
    <3> QED
      BY <3>1 DEF ValidatorRow, LateRow
  <2> QED
    BY <1>2, <2>1 DEF LateInv, LateFor, TrOff
<1>5. TrSees'
  BY <1>2 DEF TrSees, TrOff
<1>6. VaNext
  BY DEF ValidatorStep
<1> DEFINE Quorum == "host" \notin Faults => QuorumKept'
<1>7. ASSUME wu'.canonical_resultid = wu.canonical_resultid
      PROVE  "host" \notin Faults => (wu.canonical_resultid # 0 /\ wu.file_delete_state = "INIT"
                                        => Cardinality(ConfirmedNow) > MinQuorum \div 2)'
  BY <1>3, <1>7, QuorumStays DEF WakeInv
<1>8. NeverForgotten' /\ VaHandsOver' /\ Quorum
  <2>1. CASE VaEnumerate
    <3>1. /\ va'.pc = "fetched" /\ va'.wu = wu /\ va'.items = res
          /\ va'.todo = {r \in Result : /\ wu.canonical_resultid # 0 /\ Success(res[r])
                                        /\ res[r].validate_state \in {"INIT", "INCONCLUSIVE"}}
          /\ wu' = wu /\ res' = res /\ VaOff
      BY <2>1 DEF VaEnumerate, VaIdle, VaOff, dbVars
    <3>2. VaHandsOver'
      <4>1. ASSUME wu.canonical_resultid # 0, wu.file_delete_state = "INIT"
            PROVE  Exists(res[wu.canonical_resultid])
        <5>1. Ended(wu.canonical_resultid) /\ wu.canonical_resultid \in Result
          BY <1>1, <4>1 DEF CopiesConsistent, WuRow
        <5> QED
          BY <4>1, <5>1 DEF WakeInv, PurgeLast, Ended, Exists
      <4> QED
        BY <3>1, <4>1 DEF VaHandsOver
    <3>3. ASSUME Asleep, ~InHand PROVE wu.canonical_resultid # 0 /\ va'.todo # {}
      <4>1. wu.canonical_resultid # 0 /\ \E r \in Result : Awaits(res[r])
        BY <1>1, <3>1, <3>3 DEF NeverForgotten, Waits
      <4> QED
        BY <3>1, <4>1 DEF Awaits
    <3>4. NeverForgotten'
      BY <3>1, <3>3 DEF NeverForgotten, Asleep, VaWillWake, InHand, VaOff
    <3>5. Quorum
      BY <1>7, <3>1 DEF QuorumKept
    <3> QED
      BY <3>2, <3>4, <3>5
  <2>2. CASE VaNoCanonicalRow
    <3>1. /\ va'.pc = "idle" /\ wu' = wu /\ ~VaOff /\ wu.file_delete_state # "INIT"
      BY <1>1, <2>2 DEF VaNoCanonicalRow, HasCanonical, VaHandsOver, VaIdle, VaOff, dbVars
    <3>2. NeverForgotten' /\ VaHandsOver'
      BY <3>1 DEF NeverForgotten, VaHandsOver, Waits, InHand, VaOff
    <3>3. Quorum
      BY <1>7, <3>1 DEF QuorumKept
    <3> QED
      BY <3>2, <3>3
  <2>3. CASE VaCheckSet
    <3>1. /\ va.pc = "fetched" /\ va.wu.canonical_resultid = 0 /\ ~VaOff /\ wu' = wu
          /\ va'.pc = "write"
      BY <1>1, <2>3 DEF VaCheckSet, AfterCheckSet, VaTypeOK, VaOff, dbVars
    <3>2. NeverForgotten'
      BY <1>1, <3>1 DEF NeverForgotten, Asleep, VaWillWake, InHand, VaOff
    <3>3. /\ VaHandsOver'
          /\ va'.wu.canonical_resultid # 0 => Cardinality(ConfirmedSoon') > MinQuorum \div 2
      BY <1>1, <2>3, <3>1, CheckSetHandsOver DEF VaHandsOver
    <3>4. Quorum
      BY <1>7, <3>1, <3>3 DEF QuorumKept
    <3> QED
      BY <3>2, <3>3, <3>4
  <2>4. CASE VaNoQuorum \/ VaRetryPair
    <3>1. /\ va.pc = "fetched" /\ ~VaOff /\ wu' = wu /\ va'.pc = "leave"
          /\ va.wu.canonical_resultid = 0 \/ va'.tt = "DELAYED"
      BY <1>1, <2>4 DEF VaNoQuorum, VaRetryPair, HasCanonical, VaTypeOK, VaOff, dbVars
    <3>2. NeverForgotten' /\ VaHandsOver'
      BY <1>1, <3>1 DEF NeverForgotten, Asleep, VaWillWake, VaHandsOver, InHand, VaOff
    <3>3. Quorum
      BY <1>7, <3>1 DEF QuorumKept
    <3> QED
      BY <3>2, <3>3
  <2>5. ASSUME NEW r \in Result, VaCheckPair(r) \/ VaSkipPair(r)
        PROVE  NeverForgotten' /\ VaHandsOver' /\ Quorum
    <3>1. /\ va.pc = "fetched" /\ wu' = wu /\ va.wu.canonical_resultid # 0
          /\ va'.pc = va.pc /\ va'.wu = va.wu /\ va'.items = va.items /\ va'.tt = "IMMEDIATE"
      BY <1>1, <2>5 DEF VaCheckPair, VaSkipPair, VaWriteResult, HasCanonical, VaTypeOK, dbVars
    <3>2. NeverForgotten' /\ VaHandsOver'
      BY <1>1, <3>1 DEF NeverForgotten, VaWillWake, VaHandsOver, VaOff
    <3>3. Quorum
      BY <1>7, <3>1 DEF QuorumKept
    <3> QED
      BY <3>2, <3>3
  <2>6. ASSUME NEW r \in Result, VaUpdateResult(r) \/ VaSkipResult(r)
        PROVE  NeverForgotten' /\ VaHandsOver' /\ Quorum
    <3>1. /\ va.pc = "write" /\ wu' = wu /\ r \in va.todo /\ ~VaOff
          /\ va'.pc = va.pc /\ va'.wu = va.wu /\ va'.items = va.items /\ va'.todo = va.todo \ {r}
      BY <1>1, <2>6 DEF VaUpdateResult, VaSkipResult, VaWriteResult, VaTypeOK, VaOff, dbVars
    <3>2. NeverForgotten' /\ VaHandsOver'
      BY <1>1, <3>1 DEF NeverForgotten, Asleep, VaWillWake, VaHandsOver, InHand, VaOff
    <3>3. ASSUME "host" \notin Faults, va.wu.canonical_resultid # 0
          PROVE  Cardinality(ConfirmedSoon') > MinQuorum \div 2
      <4>1. VaWriteResult(r, va.items[r])
        BY <2>6, <3>3 DEF VaUpdateResult, VaSkipResult
      <4>2. ASSUME NEW q \in Result, Confirmed(res[q]) PROVE Confirmed(res'[q])
        <5>1. res'[q].server_state # "PURGED"
          BY <3>1, <4>2, NothingArchived DEF Confirmed, Success, Over
        <5> QED
          BY <4>2, <5>1, ConfirmedKept DEF OrderlyStep
      <4>3. Confirmed(va.items[r]) => Confirmed(res'[r])
        <5>1. Exists(res[r])
          BY <1>1, <3>1 DEF VaFresh, VaWriteFresh, JudgedItem, CalledOffItem, Success, Over, Exists
        <5>2. /\ res'[r].server_state = va.items[r].server_state
              /\ res'[r].outcome = va.items[r].outcome
              /\ res'[r].validate_state = va.items[r].validate_state
          BY <1>1, <4>1, <5>1, ValidatorWrites DEF VaTypeOK
        <5> QED
          BY <5>2 DEF Confirmed, Success, Over
      <4>4. ConfirmedSoon \subseteq ConfirmedSoon' /\ ConfirmedSoon \in SUBSET Result
            /\ ConfirmedSoon' \in SUBSET Result
        BY <3>1, <4>2, <4>3 DEF ConfirmedSoon
      <4>5. Cardinality(ConfirmedSoon) > MinQuorum \div 2
        BY <3>1, <3>3 DEF WakeInv, QuorumKept
      <4> QED
        BY <4>4, <4>5, StillQuorum
    <3>4. Quorum
      BY <1>7, <3>1, <3>3 DEF QuorumKept
    <3> QED
      BY <3>2, <3>4
  <2>7. CASE VaUpdateWorkunit
    <3>1. va'.pc = "idle" /\ res' = res /\ ~VaOff
      BY <2>7 DEF VaUpdateWorkunit, VaIdle, HasCanonical, VaOff
    <3>2. NeverForgotten' /\ VaHandsOver'
      BY <1>1, <2>7, <3>1, ValidatorJobWakes DEF NeverForgotten, Waits, VaHandsOver, VaOff
    <3>3. wu'.canonical_resultid = va.wu.canonical_resultid
      BY <1>1, <2>7, <3>1 DEF VaUpdateWorkunit, SetWu, WuRow, VaFresh
    <3>4. CASE wu'.canonical_resultid = wu.canonical_resultid
      BY <1>7, <3>1, <3>2, <3>4 DEF QuorumKept
    <3>5. CASE wu'.canonical_resultid # wu.canonical_resultid
      <4>1. (va.pc = "write" /\ va.wu.canonical_resultid # 0) \/ wu'.canonical_resultid = 0
        BY <1>1, <3>1, <3>3, <3>5 DEF VaFresh, VaReadFresh, VaTypeOK, VaPc, VaOff
      <4>2. va.pc = "write" => va.todo = {}
        BY <2>7 DEF VaUpdateWorkunit, HasCanonical
      <4>3. va.pc = "write" => ConfirmedSoon = ConfirmedNow'
        BY <3>1, <4>2 DEF ConfirmedSoon, ConfirmedNow
      <4> QED
        BY <3>1, <3>2, <4>1, <4>3 DEF WakeInv, QuorumKept
    <3> QED
      BY <3>4, <3>5
  <2>8. ~VaCrash
    BY DEF VaCrash
  <2> QED
    BY <1>6, <2>1, <2>2, <2>3, <2>4, <2>5, <2>6, <2>7, <2>8 DEF VaNext, VaStep
<1> QED
  BY <1>3, <1>4, <1>5, <1>8 DEF WakeInv

-----------------------------------------------------------------------------
(* The transitioner. *)

(* It sees that a late result is to be validated. *)
LEMMA LateResultSeen ==
  ASSUME LateCounts, TypeOK, "host" \notin Faults => QuorumKept,
         wu.canonical_resultid # 0, wu.file_delete_state = "INIT",
         \A r \in Result : Same(tr.items[r], res[r]), NEW r \in Result, Awaits(tr.items[r])
  PROVE  Awaiting # {} /\ Cardinality(Successes) >= MinQuorum
<1>1. r \in Awaiting /\ r \in Successes
  BY DEF Awaiting, Awaits, Successes
<1>2. /\ ConfirmedNow \in SUBSET Result /\ r \notin ConfirmedNow
      /\ ConfirmedNow \cup {r} \subseteq Successes /\ Successes \in SUBSET Result
      /\ {r} \in SUBSET Result /\ {r} \subseteq Successes
  BY <1>1 DEF ConfirmedNow, Confirmed, Awaits, Successes, Same, Success, Over
<1>3. /\ IsFiniteSet(Successes) /\ IsFiniteSet(ConfirmedNow) /\ Cardinality(Successes) \in Nat
      /\ Cardinality(ConfirmedNow) \in Nat
  BY <1>2, CountType
<1>4. CASE MinQuorum <= 1
  <2>1. Cardinality({r}) <= Cardinality(Successes) /\ Cardinality({r}) = 1
    BY <1>2, <1>3, FS_Subset, FS_Singleton
  <2> QED
    BY <1>1, <1>3, <1>4, <2>1, BackendAssumption
<1>5. CASE MinQuorum <= 4 /\ "host" \notin Faults
  <2>1. Cardinality(ConfirmedNow) > MinQuorum \div 2
    BY <1>5 DEF QuorumKept
  <2>2. Cardinality(ConfirmedNow \cup {r}) = Cardinality(ConfirmedNow) + 1
    BY <1>2, <1>3, FS_AddElement
  <2>3. Cardinality(ConfirmedNow \cup {r}) <= Cardinality(Successes)
    BY <1>2, <1>3, FS_Subset
  <2>4. MinQuorum \in 0 .. 4 /\ MinQuorum \div 2 \in Nat
    BY <1>5, BackendAssumption
  <2>5. MinQuorum <= (MinQuorum \div 2) + 2
    BY <2>4
  <2> QED
    BY <1>1, <1>3, <2>1, <2>2, <2>3, <2>4, <2>5
<1> QED
  BY <1>4, <1>5 DEF LateCounts

(* The job it leaves asleep is to be assimilated, validated or cleaned up. *)
LEMMA TransitionerJobWakes ==
  ASSUME TypeOK, TrFresh, JobInv, LateInv, TrSees, TrUpdateWorkunit, Asleep'
  PROVE  Waits'
<1>1. /\ tr.pc = "act" /\ ToClose = {} /\ res' = res /\ ~TrOff /\ wu \in WuRow
      /\ wu.exists /\ tr.wu = wu
  BY DEF TrUpdateWorkunit, TrOff, TrFresh, TypeOK, DBTypeOK
<1>2. /\ wu'.need_validate = tr.need_validate
      /\ wu'.canonical_resultid = wu.canonical_resultid
      /\ wu'.assimilate_state = TrAssimilate
      /\ wu'.file_delete_state = TrFileDelete
      /\ TrTransitionTime = "never"
  <2>1. \A new, old : Changed(new, old, old) = new
    BY DEF Changed
  <2>2. wu' = [wu EXCEPT !.need_validate = tr.need_validate, !.error_mask = tr.error_mask,
                         !.assimilate_state = TrAssimilate, !.file_delete_state = TrFileDelete,
                         !.transition_time = TrTransitionTime]
    BY <1>1, <2>1, Zenon DEF TrUpdateWorkunit, SetWu
  <2> QED
    BY <1>1, <2>2 DEF WuRow, Asleep
<1>3. /\ wu.canonical_resultid # 0 \/ tr.error_mask # {}
      /\ \A r \in Result : tr.items[r].server_state # "IN_PROGRESS"
      /\ TrAssimilate = "DONE" => tr.settled
  BY <1>1, <1>2 DEF TrTransitionTime
<1>4. \A r \in Result : Same(tr.items[r], res[r])
  BY <1>1, <1>3 DEF TrFresh, JustCreated
<1>5. \A r \in Result : Exists(tr.items[r]) => Over(tr.items[r])
  <2>1. ASSUME NEW r \in Result, tr.items[r].server_state = "UNSENT" PROVE FALSE
    <3>1. tr.error_mask = {}
      BY <1>1, <2>1 DEF ToClose, Unneeded
    <3> QED
      BY <1>3, <1>4, <2>1, <3>1 DEF JobInv, SettledNotSent, Same
  <2> QED
    BY <1>3, <2>1 DEF Exists, Over
<1>6. SUFFICES ASSUME ~InHand' PROVE Waits'
  BY DEF Waits
<1>7. TrAssimilate # "READY" /\ TrFileDelete = "INIT" /\ wu.file_delete_state = "INIT"
  BY <1>1, <1>2, <1>6 DEF InHand, TrFileDelete
<1>8. ASSUME NEW r \in Result, Awaits(tr.items[r]) PROVE Waits'
  <2>1. tr.error_mask = {}
    BY <1>1, <1>8 DEF ToClose, Unchecked, Awaits
  <2>2. wu.canonical_resultid # 0
    BY <1>3, <2>1
  <2>3. tr.need_validate
    BY <1>1, <1>7, <1>8, <2>2 DEF TrSees
  <2>4. Awaits(res'[r])
    BY <1>1, <1>4, <1>8 DEF Awaits, Same, Success, Over
  <2> QED
    BY <1>2, <2>2, <2>3, <2>4 DEF Waits
<1>9. SUFFICES ASSUME \A r \in Result : ~Awaits(tr.items[r]) PROVE FALSE
  BY <1>8
<1>10. AllOverAndReadyToAssimilate
  BY <1>5, <1>9 DEF AllOverAndReadyToAssimilate, Awaits, Success
<1>11. AllOverAndValidated
  <2>1. \A r \in Result : LateRow(tr.items[r])
    BY <1>1 DEF LateInv, LateFor
  <2> QED
    BY <1>5, <1>9, <2>1 DEF AllOverAndValidated, Awaits, Success, LateRow
<1>12. TrAssimilate = "DONE"
  BY <1>1, <1>3, <1>7, <1>10 DEF TrAssimilate, WuRow, Assimilate
<1> QED
  BY <1>1, <1>3, <1>7, <1>11, <1>12 DEF TrFileDelete, DeletableNow

LEMMA TransitionerRowWakes ==
  ASSUME TypeOK, TrFresh, LateInv, TrSees, NEW r \in Result,
         TrTimeOut(r) \/ TrTooLate(r) \/ TrClose(r) \/ TrDelete(r)
  PROVE  LateInv' /\ TrSees'
<1>1. /\ res \in [Result -> ResultRow] /\ TrTypeOK /\ tr.items[r] \in ResultRow /\ ~TrOff
      /\ wu' = wu
  BY DEF TypeOK, DBTypeOK, TrTypeOK, TrTimeOut, TrTooLate, TrClose, TrDelete, TrWriteResult, TrOff
<1>2. LateRow(tr.items[r]) /\ LateRow(res[r])
  BY <1>1 DEF LateInv, LateFor
<1>3. ASSUME NEW item \in ResultRow, TrWriteResult(r, item), tr'.items = [tr.items EXCEPT ![r] = item],
             LateRow(item), item.server_state = "OVER" \/ item.server_state = tr.items[r].server_state,
             item.late = tr.items[r].late,
             Over(item) /\ item.outcome = "NO_REPLY" => res[r].late
      PROVE  LateInv'
  <2>1. ASSUME NEW q \in Result PROVE LateFor(q)'
    <3>1. LateFor(q)
      BY DEF LateInv
    <3>2. CASE q # r
      <4>1. tr'.items[q] = tr.items[q] /\ res'[q] = res[q]
        BY <1>1, <1>3, <3>2 DEF TrWriteResult, SetRow, TrTypeOK
      <4> QED
        BY <1>1, <3>1, <4>1 DEF LateFor
    <3>3. CASE q = r
      <4>1. tr'.items[r] = item
        BY <1>1, <1>3 DEF TrTypeOK
      <4>2. \/ res'[r] = res[r]
            \/ /\ res'[r].server_state = item.server_state /\ res'[r].outcome = item.outcome
               /\ res'[r].late = res[r].late
        BY <1>1, <1>3 DEF TrWriteResult, SetRow, ResultRow
      <4>3. LateRow(res'[r])
        BY <1>2, <1>3, <4>2 DEF LateRow, Over
      <4>4. res'[r].late = res[r].late
        BY <4>2
      <4> QED
        BY <1>1, <1>3, <3>1, <3>3, <4>1, <4>3, <4>4 DEF LateFor
    <3> QED
      BY <3>2, <3>3
  <2> QED
    BY <2>1 DEF LateInv
<1>4. CASE TrTimeOut(r)
  <2> DEFINE item == [tr.items[r] EXCEPT !.server_state = "OVER", !.outcome = "NO_REPLY"]
  <2>1. /\ TrWriteResult(r, item) /\ tr'.items = [tr.items EXCEPT ![r] = item] /\ tr'.pc = "scan"
        /\ tr.items[r].late /\ tr.items[r].server_state = "IN_PROGRESS"
    BY <1>1, <1>4 DEF TrTimeOut, TimedOut, TrTypeOK
  <2>2. res[r].late
    BY <1>1, <2>1 DEF LateInv, LateFor
  <2>3. item \in ResultRow /\ item.server_state = "OVER" /\ item.late = tr.items[r].late /\ item.late
    BY <1>1, <2>1 DEF ResultRow, ServerState, Outcome
  <2>4. LateRow(item)
    BY <2>3 DEF LateRow
  <2> HIDE DEF item
  <2>5. LateInv'
    BY <1>3, <2>1, <2>2, <2>3, <2>4
  <2> QED
    BY <2>1, <2>5 DEF TrSees
<1>5. CASE TrTooLate(r)
  <2> DEFINE item == [tr.items[r] EXCEPT !.validate_state = "TOO_LATE"]
  <2>1. /\ TrWriteResult(r, item) /\ tr'.items = [tr.items EXCEPT ![r] = item] /\ tr'.pc = "scan"
        /\ Success(tr.items[r])
    BY <1>1, <1>5 DEF TrTooLate, TooLate, Awaiting, TrTypeOK
  <2>2. item \in ResultRow /\ item.server_state = tr.items[r].server_state
        /\ item.late = tr.items[r].late /\ item.outcome = "SUCCESS"
    BY <1>1, <2>1 DEF ResultRow, ValidateState, Success
  <2>3. LateRow(item)
    BY <2>2 DEF LateRow
  <2> HIDE DEF item
  <2>4. LateInv'
    BY <1>3, <2>1, <2>2, <2>3
  <2> QED
    BY <2>1, <2>4 DEF TrSees
<1>6. ASSUME NEW item \in ResultRow, TrWriteResult(r, item), tr'.items = [tr.items EXCEPT ![r] = item],
             item.outcome # "NO_REPLY", item.late = tr.items[r].late,
             item.server_state = "OVER" \/ item.server_state = tr.items[r].server_state,
             Awaits(item) => Awaits(tr.items[r]), tr'.need_validate = tr.need_validate, tr.pc = "act"
      PROVE  LateInv' /\ TrSees'
  <2>1. LateInv'
    BY <1>3, <1>6 DEF LateRow
  <2>2. \A q \in Result : Awaits(tr'.items[q]) => Awaits(tr.items[q])
    BY <1>1, <1>6 DEF TrTypeOK
  <2> QED
    BY <1>1, <1>6, <2>1, <2>2 DEF TrSees
<1>7. CASE TrClose(r)
  <2> DEFINE unneeded == [tr.items[r] EXCEPT !.server_state = "OVER", !.outcome = "DIDNT_NEED"]
             skipped  == [tr.items[r] EXCEPT !.validate_state = "NO_CHECK"]
  <2>1. PICK item \in {unneeded, skipped} :
          /\ TrWriteResult(r, item) /\ tr'.items = [tr.items EXCEPT ![r] = item]
          /\ tr'.need_validate = tr.need_validate /\ tr.pc = "act"
          /\ item = unneeded \/ (item = skipped /\ r \in Unchecked)
    BY <1>1, <1>7 DEF TrClose, ToClose, TrTypeOK
  <2>2. CASE item = unneeded
    <3>1. item \in ResultRow /\ item.outcome = "DIDNT_NEED" /\ item.late = tr.items[r].late
          /\ item.server_state = "OVER"
      BY <1>1, <2>2 DEF ResultRow, ServerState, Outcome
    <3> HIDE DEF unneeded, skipped
    <3> QED
      BY <1>6, <2>1, <3>1 DEF Awaits, Success
  <2>3. CASE item = skipped /\ r \in Unchecked
    <3>1. item \in ResultRow /\ item.outcome = "SUCCESS" /\ item.late = tr.items[r].late
          /\ item.server_state = tr.items[r].server_state /\ item.validate_state = "NO_CHECK"
      BY <1>1, <2>3 DEF ResultRow, ValidateState, Unchecked, Success
    <3> HIDE DEF unneeded, skipped
    <3> QED
      BY <1>6, <2>1, <3>1 DEF Awaits
  <2> QED
    BY <2>1, <2>2, <2>3
<1>8. CASE TrDelete(r)
  <2> DEFINE item == [tr.items[r] EXCEPT !.file_delete_state = "READY"]
  <2>1. /\ TrWriteResult(r, item) /\ tr'.items = [tr.items EXCEPT ![r] = item]
        /\ tr'.need_validate = tr.need_validate /\ tr.pc = "act"
    BY <1>1, <1>8 DEF TrDelete, TrTypeOK
  <2>2. tr.items[r].outcome \in {"CLIENT_ERROR", "SUCCESS"}
    BY <1>8 DEF TrDelete, Deletable
  <2>3. /\ item \in ResultRow /\ item.outcome = tr.items[r].outcome /\ item.late = tr.items[r].late
        /\ item.server_state = tr.items[r].server_state
        /\ item.validate_state = tr.items[r].validate_state
    BY <1>1 DEF ResultRow, FileDelete
  <2> HIDE DEF item
  <2> QED
    BY <1>6, <2>1, <2>2, <2>3 DEF Awaits, Success, Over
<1> QED
  BY <1>4, <1>5, <1>7, <1>8

LEMMA TransitionerWakes ==
  ASSUME "crash" \notin Faults, LateCounts, AloneInv, AloneInv', OrderlyStep, [Next]_vars, ~ValidatorStep,
         TransitionerStep, WakeInv
  PROVE  WakeInv'
<1>1. /\ TypeOK /\ TrTypeOK /\ TrFresh /\ TrFresh' /\ JobInv /\ LateInv /\ TrSees
      /\ res \in [Result -> ResultRow] /\ ("host" \notin Faults => QuorumKept)
  BY DEF AloneInv, FreshInv, TypeOK, DBTypeOK, WakeInv
<1>2. VaOff /\ VaOff'
  BY TransitionerAlone DEF AloneInv, VaOff, TransitionerStep
<1>3. PurgeLast'
  BY PurgeLastKept DEF WakeInv
<1>4. VaHandsOver'
  BY <1>2 DEF VaHandsOver, VaOff
<1>5. ASSUME "host" \notin Faults PROVE QuorumKept'
  <2>1. wu'.canonical_resultid = wu.canonical_resultid
    BY <1>1, OthersDecideNothing
  <2> QED
    BY <1>1, <1>2, <1>3, <1>5, <2>1, QuorumStays DEF QuorumKept, VaOff
<1>6. NeverForgotten'
  <2>1. CASE TrUpdateWorkunit
    BY <1>1, <1>2, <2>1, TransitionerJobWakes DEF NeverForgotten
  <2>2. CASE ~TrUpdateWorkunit
    <3>1. ASSUME TrDecide PROVE ~TrOff'
      <4>1. tr'.pc = "act"
        BY <1>1, <3>1, Zenon DEF TrDecide, TrTypeOK
      <4> QED
        BY <4>1 DEF TrOff
    <3>2. ASSUME NEW r \in Result, TrTimeOut(r) \/ TrTooLate(r) \/ TrClose(r) \/ TrDelete(r)
          PROVE  ~TrOff'
      BY <1>1, <3>2 DEF TrTimeOut, TrTooLate, TrClose, TrDelete, TrTypeOK, TrOff
    <3>3. ASSUME TrEnumerate \/ TrCreate PROVE ~TrOff'
      BY <1>1, <3>3 DEF TrEnumerate, TrCreate, TrIdle, TrTypeOK, TrOff
    <3>4. ~TrOff'
      BY <2>2, <3>1, <3>2, <3>3 DEF TransitionerStep, TrNext, TrStep, TrCrash
    <3> QED
      BY <1>1, <3>4 DEF TrFresh, NeverForgotten, Asleep
  <2> QED
    BY <2>1, <2>2
<1>7. LateInv' /\ TrSees'
  <2>1. CASE TrEnumerate
    <3>1. tr'.pc = "fetched" /\ tr'.items = res /\ res' = res
      BY <2>1 DEF TrEnumerate, TrIdle, dbVars
    <3> QED
      BY <1>1, <3>1 DEF LateInv, LateFor, TrSees
  <2>2. CASE TrDecide
    <3>1. tr'.items = tr.items /\ UNCHANGED <<wu, res>> /\ ~TrOff /\ tr.pc # "act"
      BY <1>1, <2>2, Zenon DEF TrDecide, TrTypeOK, TrOff, dbVars
    <3>2. tr'.need_validate = (tr.need_validate \/ tr.wu.need_validate
                                 \/ (Awaiting # {} /\ Cardinality(Successes) >= MinQuorum))
      BY <1>1, <2>2, Zenon DEF TrDecide, TrTypeOK
    <3>3. LateInv'
      BY <1>1, <3>1 DEF LateInv, LateFor, TrOff
    <3>4. \A r \in Result : Same(tr.items[r], res[r])
      BY <1>1, <3>1 DEF TrFresh, JustCreated
    <3>5. ASSUME wu.canonical_resultid # 0, wu.file_delete_state = "INIT",
                 NEW r \in Result, Awaits(tr.items[r])
          PROVE  Awaiting # {} /\ Cardinality(Successes) >= MinQuorum
      BY <1>1, <3>4, <3>5, LateResultSeen
    <3> QED
      BY <3>1, <3>2, <3>3, <3>5 DEF TrSees
  <2>3. ASSUME NEW r \in Result, TrTimeOut(r) \/ TrTooLate(r) \/ TrClose(r) \/ TrDelete(r)
        PROVE  LateInv' /\ TrSees'
    BY <1>1, <2>3, TransitionerRowWakes
  <2>4. CASE TrCreate
    <3>1. /\ tr'.items = tr.items /\ tr'.pc = "act" /\ tr.pc = "act" /\ wu' = wu
          /\ tr'.need_validate = tr.need_validate
      BY <1>1, <2>4 DEF TrCreate, TrTypeOK
    <3>2. ASSUME NEW r \in Result PROVE LateFor(r)'
      <4>1. LateFor(r)
        BY <1>1 DEF LateInv
      <4>2. CASE res'[r] = res[r]
        BY <3>1, <4>1, <4>2 DEF LateFor, TrOff
      <4>3. CASE res'[r] # res[r]
        <5>1. res[r].server_state = "NONE" /\ res'[r] = NewRow
          BY <2>4, <4>3 DEF TrCreate, NextIds, Fresh
        <5>2. tr.items[r].server_state = "NONE"
          BY <1>1, <3>1, <5>1 DEF TrFresh, JustCreated, Same, TrOff
        <5> QED
          BY <3>1, <5>1, <5>2 DEF LateFor, LateRow, NewRow, UnusedRow, Over
      <4> QED
        BY <4>2, <4>3
    <3> QED
      BY <1>1, <3>1, <3>2 DEF LateInv, TrSees
  <2>5. CASE TrUpdateWorkunit
    <3>1. tr'.pc = "idle" /\ res' = res
      BY <2>5 DEF TrUpdateWorkunit, TrIdle
    <3> QED
      BY <1>1, <3>1 DEF LateInv, LateFor, TrSees, TrOff
  <2>6. ~TrCrash
    BY DEF TrCrash
  <2> QED
    BY <2>1, <2>2, <2>3, <2>4, <2>5, <2>6 DEF TransitionerStep, TrNext, TrStep
<1> QED
  BY <1>3, <1>4, <1>5, <1>6, <1>7 DEF WakeInv

-----------------------------------------------------------------------------
(* All steps, and the invariant. *)

LEMMA StepWakes ==
  ASSUME "crash" \notin Faults, LateCounts, AloneInv, AloneInv', OrderlyStep, [Next]_vars, WakeInv
  PROVE  WakeInv'
<1>1. Exclusive'
  BY DEF AloneInv
<1>2. CASE ValidatorStep
  BY <1>1, <1>2, ValidatorWakes
<1>3. CASE ~ValidatorStep /\ TransitionerStep
  BY <1>3, TransitionerWakes
<1>4. CASE ~ValidatorStep /\ ~TransitionerStep
  BY <1>1, <1>4, OthersWake
<1> QED
  BY <1>2, <1>3, <1>4

LEMMA InitWakes == Init => WakeInv
<1> SUFFICES ASSUME Init PROVE WakeInv
  OBVIOUS
<1>1. /\ wu.canonical_resultid = 0 /\ wu.transition_time = "due"
      /\ \A r \in Result : res[r] = UnusedRow
      /\ tr.pc = "idle" /\ va.pc = "idle" /\ purge.pc = "idle"
  BY DEF Init, DBInit, TrInit, TrIdle, VaInit, VaIdle, FdInit, PurgeIdle
<1> QED
  BY <1>1 DEF WakeInv, NeverForgotten, Asleep, PurgeLast, PurgeOff, LateInv, LateFor, LateRow, TrOff,
     UnusedRow, Over, VaHandsOver, TrSees, QuorumKept

(***************************************************************************)
(* Programs that work on the job one after the other, and are not killed   *)
(* at it, hand it on to each other: none puts it to sleep that is not      *)
(* ready to be assimilated, waiting for the validator or cleaned up.       *)
(***************************************************************************)
THEOREM WakeInvariant ==
  ASSUME MaxBusy = 1, "crash" \notin Faults, LateCounts
  PROVE  Spec => []WakeInv
<1>1. AloneInv /\ AloneInv' /\ [OrderlyStep]_vars /\ [Next]_vars /\ WakeInv => WakeInv'
  <2>1. UNCHANGED vars /\ AloneInv /\ AloneInv' => OrderlyStep
    BY StepAlone DEF AloneInv
  <2> QED
    BY <2>1, StepWakes
<1> QED
  BY <1>1, InitWakes, AloneInvariant, OnlyOrderlySteps, PTL DEF Spec

LEMMA NobodyAtWork == ASSUME TypeOK, BusyCount = 0 PROVE VaOff
<1> DEFINE cgis == {r \in Result : cgi[r].pc # "idle"}
           detaching == {r \in Result : detach[r] # "idle"}
           t == One(tr.pc # "idle")
           v == One(va.pc # "idle")
           a == One(as.pc # "idle")
           f == One(fd.pc # "idle")
           p == One(purge.pc # "idle")
           o == One(cancel = "half-way")
<1>1. t + v + a + f + p + o + Cardinality(cgis) + Cardinality(detaching) = 0
  BY DEF BusyCount
<1>2. t \in Nat /\ v \in Nat /\ a \in Nat /\ f \in Nat /\ p \in Nat /\ o \in Nat
  BY DEF One
<1>3. Cardinality(cgis) \in Nat /\ Cardinality(detaching) \in Nat
  BY CountType
<1>4. ~VaOff => v = 1
  BY DEF VaOff, One
<1> HIDE DEF cgis, detaching, t, v, a, f, p, o
<1> QED
  BY <1>1, <1>2, <1>3, <1>4

(***************************************************************************)
(* No lost wake-up: a job at which the transitioner will not look again by *)
(* itself is always in another program's hands, for programs that work on  *)
(* it one after the other and are not killed, and if late results count:   *)
(* the quorum is at most four, and no result is left unwritten for want of *)
(* its host's record (or the quorum is one). Without any one of these a    *)
(* wake-up may be lost; the README has the behaviours.                     *)
(***************************************************************************)
THEOREM NoWakeUpLost ==
  ASSUME MaxBusy = 1, "crash" \notin Faults, LateCounts
  PROVE  Spec => []NotForgotten
<1>1. AloneInv /\ WakeInv => NotForgotten
  BY NobodyAtWork DEF AloneInv, WakeInv, NeverForgotten, Asleep, Waits, InHand, NotForgotten
<1> QED
  BY <1>1, AloneInvariant, WakeInvariant, PTL
=============================================================================
