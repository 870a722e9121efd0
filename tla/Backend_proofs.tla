--------------------------- MODULE Backend_proofs ---------------------------
(***************************************************************************)
(* Proofs about the back end, for every value of the constants.            *)
(***************************************************************************)
EXTENDS Backend, FiniteSetTheorems, WellFoundedInduction, TLAPS

-----------------------------------------------------------------------------
(* Lemmas about the operators the programs share. *)

LEMMA SetRowType ==
  ASSUME res \in [Result -> ResultRow], NEW r \in Result, NEW row \in ResultRow,
         SetRow(r, row)
  PROVE  res' \in [Result -> ResultRow]
  BY DEF SetRow

LEMMA SetWuType ==
  ASSUME wu \in WuRow, NEW row \in WuRow, SetWu(row)
  PROVE  wu' \in WuRow
  BY DEF SetWu

LEMMA UnusedRowType == UnusedRow \in ResultRow /\ NewRow \in ResultRow
  BY DEF UnusedRow, NewRow, ResultRow, ServerState, Outcome, ValidateState, FileDelete

LEMMA NotLaterThanType ==
  ASSUME NEW t \in TransitionTime
  PROVE  NotLaterThan(t) \in TransitionTime
  BY DEF NotLaterThan, TransitionTime

(* Sets of results are finite, so counting them gives a number. *)
LEMMA CountType ==
  ASSUME NEW S \in SUBSET Result
  PROVE  IsFiniteSet(S) /\ Cardinality(S) \in Nat
<1>1. NIds \in Nat
  BY BackendAssumption
<1>2. IsFiniteSet(Result)
  BY <1>1, FS_Interval DEF Result
<1> QED
  BY <1>2, FS_Subset, FS_CardinalityType

(* A set of results that is not empty has a least element. *)
LEMMA LeastResult ==
  ASSUME NEW S \in SUBSET Result, S # {}
  PROVE  \E r \in S : \A q \in S : r <= q
<1> DEFINE less == {ss \in Nat \X Nat : ss[1] < ss[2]}
<1>1. less = OpToRel(<, Nat)
  BY DEF OpToRel
<1>2. S \subseteq Nat
  BY BackendAssumption DEF Result
<1>3. PICK r \in S : \A q \in S : <<q, r>> \notin less
  BY <1>1, <1>2, NatLessThanWellFounded, WFMin
<1>4. \A q \in Nat : <<q, r>> \in less <=> q < r
  BY <1>2
<1> HIDE DEF less
<1>5. ASSUME NEW q \in S PROVE r <= q
  <2>1. q \in Nat /\ r \in Nat /\ ~(q < r)
    BY <1>2, <1>3, <1>4
  <2> QED
    BY <2>1
<1> QED
  BY <1>5

-----------------------------------------------------------------------------
(* The transitioner. *)

LEMMA TrIdleType == TrIdle \in [pc : TrPc, wu : WuRow, items : [Result -> ResultRow],
            need_validate : BOOLEAN, error_mask : SUBSET ErrorFlag,
            new : Nat, settled : BOOLEAN]
  BY UnusedRowType DEF TrIdle, TrPc, WuRow, Assimilate, FileDelete, TransitionTime

LEMMA TrWriteResultType ==
  ASSUME DBTypeOK, NEW r \in Result, NEW item \in ResultRow, TrWriteResult(r, item)
  PROVE  DBTypeOK'
<1>1. [res[r] EXCEPT !.server_state = item.server_state, !.outcome = item.outcome,
                     !.validate_state = item.validate_state,
                     !.file_delete_state = item.file_delete_state] \in ResultRow
  BY DEF DBTypeOK, ResultRow
<1> QED
  BY <1>1, SetRowType DEF DBTypeOK, TrWriteResult

LEMMA TransitionerType ==
  ASSUME DBTypeOK, TrTypeOK, TrNext
  PROVE  DBTypeOK' /\ TrTypeOK'
<1> USE DEF TrTypeOK
<1>1. CASE TrEnumerate
  BY <1>1, TrIdleType DEF TrEnumerate, DBTypeOK, dbVars, TrPc
<1>2. CASE TrDecide
  <2>1. TrErrors \in SUBSET ErrorFlag
    BY DEF TrErrors, ErrorFlag, WuRow
  <2>2. /\ Cardinality(Pending) \in Nat /\ Cardinality(Successes) \in Nat
        /\ Cardinality(Existing) \in Nat
    BY CountType DEF Pending, Successes, Existing
  <2>3. Needed \in Nat
    BY <2>2 DEF Needed, WuRow
  <2>4. NewResults \in Nat
    BY <2>2, <2>3, BackendAssumption DEF NewResults, NTotal
  <2> DEFINE nv == \/ tr.need_validate \/ tr.wu.need_validate
                   \/ Awaiting # {} /\ Cardinality(Successes) >= MinQuorum
             new == IF TrErrors = {} /\ tr.wu.canonical_resultid = 0 THEN NewResults ELSE 0
  <2>5. PICK settled \in BOOLEAN :
          tr' = [tr EXCEPT !.pc = "act", !.need_validate = nv, !.error_mask = TrErrors,
                           !.new = new, !.settled = settled]
    BY <1>2, Zenon DEF TrDecide
  <2>6. nv \in BOOLEAN /\ new \in Nat
    BY <2>4
  <2> HIDE DEF nv, new
  <2>7. TrTypeOK'
    BY <2>1, <2>5, <2>6 DEF TrPc
  <2> QED
    BY <1>2, <2>7 DEF TrDecide, DBTypeOK, dbVars
<1>3. CASE TrCreate
  BY <1>3, UnusedRowType DEF TrCreate, DBTypeOK
<1>4. CASE TrUpdateWorkunit
  <2>1. TrTransitionTime \in TransitionTime
    BY DEF TrTransitionTime, TransitionTime
  <2>2. TrAssimilate \in Assimilate /\ TrFileDelete \in FileDelete
    BY DEF TrAssimilate, TrFileDelete, Assimilate, FileDelete, WuRow
  <2>3. DBTypeOK'
    BY <1>4, <2>1, <2>2 DEF TrUpdateWorkunit, SetWu, Changed, DBTypeOK, WuRow
  <2> QED
    BY <1>4, <2>3, TrIdleType DEF TrUpdateWorkunit
<1>5. ASSUME NEW r \in Result, TrTimeOut(r) PROVE DBTypeOK' /\ TrTypeOK'
  <2> DEFINE item == [tr.items[r] EXCEPT !.server_state = "OVER", !.outcome = "NO_REPLY"]
  <2>1. item \in ResultRow
    BY DEF ResultRow, ServerState, Outcome
  <2> QED
    BY <1>5, <2>1, TrWriteResultType DEF TrTimeOut, TrPc
<1>6. ASSUME NEW r \in Result, TrTooLate(r) PROVE DBTypeOK' /\ TrTypeOK'
  <2> DEFINE item == [tr.items[r] EXCEPT !.validate_state = "TOO_LATE"]
  <2>1. item \in ResultRow
    BY DEF ResultRow, ValidateState
  <2> QED
    BY <1>6, <2>1, TrWriteResultType DEF TrTooLate, TrPc
<1>7. ASSUME NEW r \in Result, TrClose(r) PROVE DBTypeOK' /\ TrTypeOK'
  <2> DEFINE item == IF r \in Unneeded
                     THEN [tr.items[r] EXCEPT !.server_state = "OVER", !.outcome = "DIDNT_NEED"]
                     ELSE [tr.items[r] EXCEPT !.validate_state = "NO_CHECK"]
  <2>1. item \in ResultRow
    <3>1. tr.items[r] \in ResultRow
      OBVIOUS
    <3>2. /\ [tr.items[r] EXCEPT !.server_state = "OVER", !.outcome = "DIDNT_NEED"] \in ResultRow
          /\ [tr.items[r] EXCEPT !.validate_state = "NO_CHECK"] \in ResultRow
      BY <3>1 DEF ResultRow, ServerState, Outcome, ValidateState
    <3> QED
      BY <3>2
  <2> HIDE DEF item
  <2>2. TrWriteResult(r, item) /\ tr' = [tr EXCEPT !.items[r] = item]
    BY <1>7 DEF TrClose, item
  <2> QED
    BY <2>1, <2>2, TrWriteResultType
<1>8. ASSUME NEW r \in Result, TrDelete(r) PROVE DBTypeOK' /\ TrTypeOK'
  <2> DEFINE item == [tr.items[r] EXCEPT !.file_delete_state = "READY"]
  <2>1. item \in ResultRow
    BY DEF ResultRow, FileDelete
  <2> QED
    BY <1>8, <2>1, TrWriteResultType DEF TrDelete
<1>9. CASE TrCrash
  BY <1>9, TrIdleType DEF TrCrash, DBTypeOK, dbVars
<1> QED
  BY <1>1, <1>2, <1>3, <1>4, <1>5, <1>6, <1>7, <1>8, <1>9 DEF TrNext, TrStep

-----------------------------------------------------------------------------
(* The validator. *)

LEMMA VaIdleType == VaIdle \in [pc : VaPc, wu : WuRow, items : [Result -> ResultRow],
            todo : SUBSET Result, tt : {"NO_CHANGE", "IMMEDIATE", "DELAYED", "NEVER"}]
  BY UnusedRowType DEF VaIdle, VaPc, WuRow, Assimilate, FileDelete, TransitionTime

LEMMA VaWriteResultType ==
  ASSUME DBTypeOK, NEW r \in Result, NEW item \in ResultRow, VaWriteResult(r, item)
  PROVE  DBTypeOK'
<1>1. [res[r] EXCEPT !.server_state = item.server_state, !.outcome = item.outcome,
                     !.validate_state = item.validate_state] \in ResultRow
  BY DEF DBTypeOK, ResultRow
<1> QED
  BY <1>1, SetRowType DEF DBTypeOK, VaWriteResult

(* check_set() chooses one of the results it is given, or none. *)
LEMMA ChosenCanonicalType ==
  ASSUME NEW good \in SUBSET Result
  PROVE  ChosenCanonical(good) = 0 \/ ChosenCanonical(good) \in good
<1> DEFINE C == Candidates(good)
<1>1. C \subseteq good
  BY DEF Candidates
<1>2. CASE C # {}
  <2>1. \E r \in C : \A q \in C : r <= q
    BY <1>1, <1>2, LeastResult
  <2> QED
    BY <1>1, <2>1 DEF ChosenCanonical
<1> QED
  BY <1>2 DEF ChosenCanonical

LEMMA CheckedItemsType ==
  ASSUME VaTypeOK, NEW bad, NEW unseen, NEW c \in Result \cup {0}
  PROVE  CheckedItems(bad, unseen, c) \in [Result -> ResultRow]
<1>1. ASSUME NEW r \in Result PROVE Checked(r, bad, unseen, c) \in ResultRow
  BY DEF VaTypeOK, Checked, ResultRow, Outcome, ValidateState
<1>2. ASSUME NEW r \in Result
      PROVE  [va.items[r] EXCEPT !.server_state = "OVER", !.outcome = "DIDNT_NEED"] \in ResultRow
  <2>1. va.items[r] \in ResultRow
    BY DEF VaTypeOK
  <2> QED
    BY <2>1 DEF ResultRow, ServerState, Outcome
<1> QED
  BY <1>1, <1>2 DEF CheckedItems, VaTypeOK

LEMMA AfterCheckSetType ==
  ASSUME VaTypeOK, NEW bad \in SUBSET Result, NEW unseen \in SUBSET Result,
         va' = AfterCheckSet(bad, unseen)
  PROVE  VaTypeOK'
<1> DEFINE c == ChosenCanonical(SuccessItems \ (bad \cup unseen))
           n == Cardinality(SuccessItems \ bad)
           items == CheckedItems(bad, unseen, c)
           job == IF c # 0 THEN JobWithCanonical(c) ELSE JobWithoutConsensus(n)
           todo == {r \in Result :
                       \/ items[r] # va.items[r]
                       \/ r \in SuccessItems /\ items[r].validate_state \in {"VALID", "INVALID"}}
           tt == IF c # 0 THEN "NEVER"
                 ELSE IF bad # {} \/ n > MaxSuccess \/ n >= va.wu.target_nresults
                 THEN "IMMEDIATE" ELSE "NO_CHANGE"
<1>1. c \in Result \cup {0}
  BY ChosenCanonicalType DEF SuccessItems
<1>2. n \in Nat
  BY CountType DEF SuccessItems
<1>3. items \in [Result -> ResultRow]
  BY <1>1, CheckedItemsType
<1>4. JobWithCanonical(c) \in WuRow
  BY <1>1 DEF JobWithCanonical, VaTypeOK, WuRow, Assimilate
<1>5. JobWithoutConsensus(n) \in WuRow
  <2>1. va.wu \in WuRow
    BY DEF VaTypeOK
  <2>2. va.wu.error_mask \cup {"TOO_MANY_SUCCESS_RESULTS"} \in SUBSET ErrorFlag
    BY <2>1 DEF WuRow, ErrorFlag
  <2>3. n + 1 \in Nat
    BY <1>2
  <2> HIDE DEF n
  <2> QED
    BY <2>1, <2>2, <2>3 DEF JobWithoutConsensus, WuRow
<1>6. /\ job \in WuRow /\ todo \in SUBSET Result
      /\ tt \in {"NO_CHANGE", "IMMEDIATE", "DELAYED", "NEVER"}
  BY <1>4, <1>5
<1>7. va' = [va EXCEPT !.pc = "write", !.items = items, !.todo = todo, !.wu = job, !.tt = tt]
  BY DEF AfterCheckSet
<1> HIDE DEF items, todo, job, tt
<1> QED
  BY <1>3, <1>6, <1>7 DEF VaTypeOK, VaPc

LEMMA ValidatorType ==
  ASSUME DBTypeOK, VaTypeOK, VaNext
  PROVE  DBTypeOK' /\ VaTypeOK'
<1> USE DEF VaTypeOK
<1>1. CASE VaEnumerate
  BY <1>1, VaIdleType DEF VaEnumerate, DBTypeOK, dbVars, VaPc
<1>2. CASE VaNoCanonicalRow
  BY <1>2, VaIdleType DEF VaNoCanonicalRow, DBTypeOK, dbVars
<1>3. CASE VaCheckSet
  <2>1. SuccessItems \subseteq Result
    BY DEF SuccessItems
  <2>2. PICK unseen \in SUBSET Result, bad \in SUBSET Result : va' = AfterCheckSet(bad, unseen)
    BY <1>3, <2>1 DEF VaCheckSet
  <2> QED
    BY <1>3, <2>2, AfterCheckSetType DEF VaCheckSet, DBTypeOK, dbVars
<1>4. CASE VaNoQuorum
  BY <1>4 DEF VaNoQuorum, VaPc, DBTypeOK, dbVars
<1>5. CASE VaUpdateWorkunit
  <2>1. VaTransitionTime \in TransitionTime
    BY NotLaterThanType DEF VaTransitionTime, WuRow, TransitionTime
  <2>2. DBTypeOK'
    BY <1>5, <2>1 DEF VaUpdateWorkunit, SetWu, DBTypeOK, WuRow
  <2> QED
    BY <1>5, <2>2, VaIdleType DEF VaUpdateWorkunit
<1>6. CASE VaRetryPair
  BY <1>6 DEF VaRetryPair, VaPc, DBTypeOK, dbVars
<1>7. ASSUME NEW r \in Result, VaCheckPair(r) PROVE DBTypeOK' /\ VaTypeOK'
  <2>1. PICK item : /\ item \in ResultRow
                    /\ VaWriteResult(r, item)
    BY <1>7 DEF VaCheckPair, ResultRow, Outcome, ValidateState
  <2> QED
    BY <1>7, <2>1, VaWriteResultType DEF VaCheckPair
<1>8. ASSUME NEW r \in Result, VaSkipPair(r) PROVE DBTypeOK' /\ VaTypeOK'
  BY <1>8 DEF VaSkipPair, DBTypeOK, dbVars
<1>9. ASSUME NEW r \in Result, VaUpdateResult(r) PROVE DBTypeOK' /\ VaTypeOK'
  BY <1>9, VaWriteResultType DEF VaUpdateResult
<1>10. ASSUME NEW r \in Result, VaSkipResult(r) PROVE DBTypeOK' /\ VaTypeOK'
  BY <1>10 DEF VaSkipResult, DBTypeOK, dbVars
<1>11. CASE VaCrash
  BY <1>11, VaIdleType DEF VaCrash, DBTypeOK, dbVars
<1> QED
  BY <1>1, <1>2, <1>3, <1>4, <1>5, <1>6, <1>7, <1>8, <1>9, <1>10, <1>11 DEF VaNext, VaStep

-----------------------------------------------------------------------------
(* The scheduler and the hosts. *)

LEMMA CgiMovesType ==
  ASSUME SchedTypeOK, NEW r \in Result, NEW pc \in CgiPc
  PROVE  /\ CgiGoes(r, pc) => cgi' \in [Result -> [pc : CgiPc, validate_state : ValidateState]]
         /\ CgiEnds(r) => cgi' \in [Result -> [pc : CgiPc, validate_state : ValidateState]]
  BY DEF SchedTypeOK, CgiGoes, CgiEnds, CgiIdle, CgiPc, ValidateState

(* The scheduler changes nothing of the job but the time of its transition. *)
LEMMA TransitionTimeType ==
  ASSUME DBTypeOK, NEW t \in TransitionTime, SetWu([wu EXCEPT !.transition_time = t])
  PROVE  wu' \in WuRow
  BY DEF DBTypeOK, SetWu, WuRow

LEMMA SchedulerType ==
  ASSUME DBTypeOK, SchedTypeOK, SchedNext
  PROVE  DBTypeOK' /\ SchedTypeOK'
<1>1. "due" \in TransitionTime /\ NotLaterThan(wu.transition_time) \in TransitionTime
  BY NotLaterThanType DEF DBTypeOK, WuRow, TransitionTime
<1>2. PICK r \in Result :
        \/ SendCheck(r) \/ ResendCheck(r) \/ ReportCheck(r) \/ DetachCheck(r)
        \/ CgiStep(r) \/ CgiCrash(r) \/ ClientFinish(r) \/ ClientLoses(r)
  BY DEF SchedNext
<1>3. res[r] \in ResultRow /\ cgi[r] \in [pc : CgiPc, validate_state : ValidateState]
  BY DEF DBTypeOK, SchedTypeOK
<1> USE DEF SchedTypeOK
<1>4. CASE SendCheck(r)
  BY <1>4, CgiMovesType DEF SendCheck, DBTypeOK, dbVars, CgiPc
<1>5. CASE ResendCheck(r)
  BY <1>5, CgiMovesType DEF ResendCheck, DBTypeOK, dbVars, CgiPc
<1>6. CASE ReportCheck(r)
  <2>1. [pc |-> "report", validate_state |-> res[r].validate_state]
          \in [pc : CgiPc, validate_state : ValidateState]
    BY <1>3 DEF ResultRow, CgiPc
  <2>2. cgi' \in [Result -> [pc : CgiPc, validate_state : ValidateState]]
    BY <1>6, <2>1 DEF ReportCheck
  <2>3. client' \in [Result -> ClientState]
    BY <1>6 DEF ReportCheck, Acknowledge, ClientState
  <2> QED
    BY <1>6, <2>2, <2>3 DEF ReportCheck, DBTypeOK, dbVars
<1>7. CASE DetachCheck(r)
  BY <1>7 DEF DetachCheck, DBTypeOK, dbVars
<1>8. CASE SendJob(r)
  BY <1>1, <1>8, CgiMovesType, TransitionTimeType DEF SendJob, DBTypeOK, CgiPc
<1>9. CASE SendMark(r)
  <2>1. res' \in [Result -> ResultRow]
    BY <1>3, <1>9 DEF SendMark, DBTypeOK, ResultRow, ServerState
  <2> QED
    BY <1>9, <2>1, CgiMovesType DEF SendMark, DBTypeOK, Delivered, ClientState, CgiPc
<1>10. CASE ResendJob(r)
  BY <1>1, <1>10, CgiMovesType, TransitionTimeType DEF ResendJob, DBTypeOK, CgiPc
<1>11. CASE ResendMark(r)
  <2>1. res' \in [Result -> ResultRow]
    <3>1. [res[r] EXCEPT !.late = FALSE] \in ResultRow
      BY <1>3 DEF ResultRow
    <3> QED
      BY <1>11, <3>1 DEF ResendMark, DBTypeOK
  <2> QED
    BY <1>11, <2>1, CgiMovesType DEF ResendMark, DBTypeOK, Delivered, ClientState, CgiPc
<1>12. CASE ExpireMark(r)
  <2>1. res' \in [Result -> ResultRow]
    <3>1. [res[r] EXCEPT !.late = TRUE] \in ResultRow
      BY <1>3 DEF ResultRow
    <3> QED
      BY <1>12, <3>1 DEF ExpireMark, DBTypeOK
  <2> QED
    BY <1>12, <2>1, CgiMovesType DEF ExpireMark, DBTypeOK, CgiPc
<1>13. CASE ExpireJob(r)
  BY <1>1, <1>13, CgiMovesType, TransitionTimeType DEF ExpireJob, DBTypeOK, CgiPc
<1>14. CASE ReportRow(r)
  <2>1. Reported(r) \in ResultRow
    BY <1>3 DEF Reported, ResultRow, ServerState, Outcome, ValidateState
  <2>2. res' \in [Result -> ResultRow]
    BY <1>14, <2>1, SetRowType DEF ReportRow, DBTypeOK
  <2> QED
    BY <1>14, <2>2, CgiMovesType DEF ReportRow, DBTypeOK, CgiPc
<1>15. CASE ReportJob(r)
  BY <1>1, <1>15, CgiMovesType, TransitionTimeType
     DEF ReportJob, DBTypeOK, CgiPc, Acknowledge, ClientState
<1>16. CASE DetachRow(r)
  <2>1. [res[r] EXCEPT !.server_state = "OVER", !.outcome = "CLIENT_DETACHED",
                       !.received = TRUE] \in ResultRow
    BY <1>3 DEF ResultRow, ServerState, Outcome
  <2>2. res' \in [Result -> ResultRow]
    BY <1>16, <2>1, SetRowType DEF DetachRow, DBTypeOK
  <2> QED
    BY <1>16, <2>2 DEF DetachRow, DBTypeOK
<1>17. CASE DetachJob(r)
  BY <1>1, <1>17, TransitionTimeType DEF DetachJob, DBTypeOK
<1>18. CASE CgiCrash(r)
  BY <1>18, CgiMovesType DEF CgiCrash, DBTypeOK, dbVars, CgiPc
<1>19. CASE ClientFinish(r)
  BY <1>19 DEF ClientFinish, DBTypeOK, ClientState
<1>20. CASE ClientLoses(r)
  BY <1>20 DEF ClientLoses, DBTypeOK, dbVars, ClientState
<1> QED
  BY <1>2, <1>4, <1>5, <1>6, <1>7, <1>8, <1>9, <1>10, <1>11, <1>12, <1>13, <1>14, <1>15,
     <1>16, <1>17, <1>18, <1>19, <1>20 DEF CgiStep

-----------------------------------------------------------------------------
(* Assimilator, file deleter and purger. *)

LEMMA AssimilatorType ==
  ASSUME DBTypeOK, AsTypeOK, AsNext
  PROVE  DBTypeOK' /\ AsTypeOK'
<1> USE DEF AsTypeOK
<1>1. CASE AsEnumerate
  BY <1>1 DEF AsEnumerate, DBTypeOK, dbVars, WuRow
<1>2. CASE AsHandle
  <2>1. wu \in WuRow /\ [wu EXCEPT !.error_mask = {"NO_CANONICAL_RESULT"}] \in WuRow
    BY DEF DBTypeOK, WuRow, ErrorFlag
  <2>2. PICK row \in WuRow : SetWu(row)
    BY <1>2, <2>1 DEF AsHandle
  <2>3. wu' \in WuRow
    BY <2>1, <2>2, SetWuType
  <2> QED
    BY <1>2, <2>3 DEF AsHandle, DBTypeOK
<1>3. CASE AsDone
  <2>1. wu \in WuRow
    BY DEF DBTypeOK
  <2>2. \A state \in {"DONE", "INIT"} :
          [wu EXCEPT !.assimilate_state = state, !.transition_time = "due"] \in WuRow
    BY <2>1 DEF WuRow, Assimilate, TransitionTime
  <2>3. PICK row \in WuRow : SetWu(row)
    BY <1>3, <2>2 DEF AsDone
  <2>4. wu' \in WuRow
    BY <2>1, <2>3, SetWuType
  <2>5. AsTypeOK'
    BY <1>3 DEF AsDone, AsIdle
  <2> QED
    BY <1>3, <2>4, <2>5 DEF AsDone, DBTypeOK
<1>4. CASE AsCrash
  BY <1>4 DEF AsCrash, AsIdle, DBTypeOK, dbVars
<1> QED
  BY <1>1, <1>2, <1>3, <1>4 DEF AsNext, AsStep

LEMMA FileDeleterType ==
  ASSUME DBTypeOK, FdTypeOK, FdNext \/ PurgeNext
  PROVE  DBTypeOK' /\ FdTypeOK'
<1> USE DEF FdTypeOK
<1>1. CASE FdEnumerate
  BY <1>1 DEF FdEnumerate, DBTypeOK, dbVars
<1>2. CASE FdUnlink
  BY <1>2 DEF FdUnlink, DBTypeOK
<1>3. CASE FdUpdate
  <2>1. FdOutcome \in FileDelete
    BY DEF FdOutcome, FileDelete
  <2>2. CASE fd.id = 0
    <3>1. [wu EXCEPT !.file_delete_state = FdOutcome] \in WuRow
      BY <2>1 DEF DBTypeOK, WuRow
    <3> QED
      BY <1>3, <2>2, <3>1, SetWuType DEF FdUpdate, FdIdle, DBTypeOK
  <2>3. CASE fd.id # 0
    <3>1. fd.id \in Result /\ res[fd.id] \in ResultRow
      BY <2>3 DEF DBTypeOK
    <3>2. [res[fd.id] EXCEPT !.file_delete_state = FdOutcome] \in ResultRow
      BY <2>1, <3>1 DEF ResultRow
    <3> QED
      BY <1>3, <2>3, <3>1, <3>2, SetRowType DEF FdUpdate, FdIdle, DBTypeOK
  <2> QED
    BY <2>2, <2>3
<1>4. CASE FdCrash
  BY <1>4 DEF FdCrash, FdIdle, DBTypeOK, dbVars
<1>5. CASE PurgeEnumerate
  BY <1>5 DEF PurgeEnumerate, DBTypeOK, dbVars
<1>6. CASE PurgeQuery
  BY <1>6 DEF PurgeQuery, DBTypeOK, dbVars
<1>7. CASE PurgeResult
  <2>1. [UnusedRow EXCEPT !.server_state = "PURGED"] \in ResultRow
    BY UnusedRowType DEF ResultRow, ServerState
  <2> QED
    BY <1>7, <2>1, SetRowType DEF PurgeResult, DBTypeOK
<1>8. CASE PurgeSkip
  BY <1>8 DEF PurgeSkip, DBTypeOK, dbVars
<1>9. CASE PurgeJob
  BY <1>9 DEF PurgeJob, PurgeIdle, DBTypeOK, WuRow
<1>10. CASE PurgeCrash
  BY <1>10 DEF PurgeCrash, PurgeIdle, DBTypeOK, dbVars
<1> QED
  BY <1>1, <1>2, <1>3, <1>4, <1>5, <1>6, <1>7, <1>8, <1>9, <1>10
     DEF FdNext, PurgeNext, FdStep, PurgeStep

-----------------------------------------------------------------------------
(* The whole back end. *)

LEMMA UnchangedType ==
  /\ DBTypeOK /\ UNCHANGED dbVars => DBTypeOK'
  /\ TrTypeOK /\ UNCHANGED tr => TrTypeOK'
  /\ VaTypeOK /\ UNCHANGED va => VaTypeOK'
  /\ SchedTypeOK /\ UNCHANGED schedVars => SchedTypeOK'
  /\ AsTypeOK /\ UNCHANGED as => AsTypeOK'
  /\ FdTypeOK /\ UNCHANGED deleterVars => FdTypeOK'
<1>1. DBTypeOK /\ UNCHANGED dbVars => DBTypeOK'
  BY DEF dbVars, DBTypeOK
<1>2. /\ TrTypeOK /\ UNCHANGED tr => TrTypeOK'
      /\ VaTypeOK /\ UNCHANGED va => VaTypeOK'
      /\ AsTypeOK /\ UNCHANGED as => AsTypeOK'
  BY DEF TrTypeOK, VaTypeOK, AsTypeOK
<1>3. SchedTypeOK /\ UNCHANGED schedVars => SchedTypeOK'
  BY DEF schedVars, SchedTypeOK
<1>4. FdTypeOK /\ UNCHANGED deleterVars => FdTypeOK'
  BY DEF deleterVars, FdTypeOK
<1> QED
  BY <1>1, <1>2, <1>3, <1>4

LEMMA StepType == TypeOK /\ [Next]_vars => TypeOK'
<1> SUFFICES ASSUME TypeOK, [Next]_vars PROVE TypeOK'
  OBVIOUS
<1> USE UnchangedType
<1>1. /\ DBTypeOK /\ TrTypeOK /\ VaTypeOK /\ SchedTypeOK /\ AsTypeOK /\ FdTypeOK
      /\ cancel \in {"no", "half-way", "yes"}
  BY DEF TypeOK
<1>2. CASE TrNext /\ UNCHANGED <<va, schedVars, as, deleterVars, cancel>>
  BY <1>1, <1>2, TransitionerType DEF TypeOK
<1>3. CASE VaNext /\ UNCHANGED <<tr, schedVars, as, deleterVars, cancel>>
  BY <1>1, <1>3, ValidatorType DEF TypeOK
<1>4. CASE SchedNext /\ UNCHANGED <<tr, va, as, deleterVars, cancel>>
  BY <1>1, <1>4, SchedulerType DEF TypeOK
<1>5. CASE AsNext /\ UNCHANGED <<tr, va, schedVars, deleterVars, cancel>>
  BY <1>1, <1>5, AssimilatorType DEF TypeOK
<1>6. CASE (FdNext \/ PurgeNext) /\ UNCHANGED <<tr, va, schedVars, as, cancel>>
  BY <1>1, <1>6, FileDeleterType DEF TypeOK
<1>7. CASE CancelResults
  <2>1. \A r \in Result : [res[r] EXCEPT !.server_state = "OVER", !.outcome = "DIDNT_NEED"]
                            \in ResultRow
    BY <1>1 DEF DBTypeOK, ResultRow, ServerState, Outcome
  <2>2. DBTypeOK'
    BY <1>1, <1>7, <2>1 DEF CancelResults, DBTypeOK
  <2> QED
    BY <1>1, <1>7, <2>2 DEF CancelResults, TypeOK
<1>8. CASE CancelJob
  <2>1. DBTypeOK'
    BY <1>1, <1>8 DEF CancelJob, SetWu, DBTypeOK, WuRow, ErrorFlag, TransitionTime
  <2> QED
    BY <1>1, <1>8, <2>1 DEF CancelJob, TypeOK
<1>9. CASE TransitionTimeComes
  <2>1. DBTypeOK'
    BY <1>1, <1>9 DEF TransitionTimeComes, DBTypeOK, WuRow, TransitionTime
  <2> QED
    BY <1>1, <1>9, <2>1 DEF TransitionTimeComes, TypeOK
<1>10. ASSUME NEW r \in Result, DeadlinePasses(r) PROVE TypeOK'
  <2>1. res[r] \in ResultRow /\ tr.items[r] \in ResultRow
    BY <1>1 DEF DBTypeOK, TrTypeOK
  <2>2. /\ [res[r] EXCEPT !.late = TRUE] \in ResultRow
        /\ [tr.items[r] EXCEPT !.late = TRUE] \in ResultRow
    BY <2>1 DEF ResultRow
  <2>3. DBTypeOK'
    BY <1>1, <1>10, <2>2 DEF DeadlinePasses, DBTypeOK
  <2>4. TrTypeOK'
    BY <1>1, <1>10, <2>2 DEF DeadlinePasses, TrTypeOK
  <2> QED
    BY <1>1, <1>10, <2>3, <2>4 DEF DeadlinePasses, TypeOK
<1>11. CASE UNCHANGED vars
  BY <1>1, <1>11 DEF vars, TypeOK
<1> QED
  BY <1>2, <1>3, <1>4, <1>5, <1>6, <1>7, <1>8, <1>9, <1>10, <1>11 DEF Next, Step

LEMMA InitType == Init => TypeOK
<1> SUFFICES ASSUME Init PROVE TypeOK
  OBVIOUS
<1>1. DBTypeOK
  BY UnusedRowType, BackendAssumption
     DEF Init, DBInit, DBTypeOK, WuRow, Assimilate, FileDelete, TransitionTime
<1>2. TrTypeOK /\ VaTypeOK
  BY TrIdleType, VaIdleType DEF Init, TrInit, VaInit, TrTypeOK, VaTypeOK
<1>3. SchedTypeOK /\ AsTypeOK /\ FdTypeOK
  BY DEF Init, SchedInit, CgiIdle, CgiPc, ClientState, ValidateState, AsInit, AsIdle,
     FdInit, FdIdle, PurgeIdle, SchedTypeOK, AsTypeOK, FdTypeOK
<1> QED
  BY <1>1, <1>2, <1>3 DEF Init, TypeOK

(***************************************************************************)
(* The rows and every program's copies of them stay of their types: what   *)
(* is written back from a copy is always a legal row.                      *)
(***************************************************************************)
THEOREM TypeCorrect == Spec => []TypeOK
<1>1. Init => TypeOK
  BY InitType
<1>2. TypeOK /\ [Next]_vars => TypeOK'
  BY StepType
<1> QED
  BY <1>1, <1>2, PTL DEF Spec

-----------------------------------------------------------------------------
(* The life of a job: what a statement may do to the stages of the results. *)

(* A statement that leaves every server_state and the canonical result alone. *)
LEMMA SameStages ==
  ASSUME \A r \in Result : res'[r].server_state = res[r].server_state,
         wu'.canonical_resultid = wu.canonical_resultid
  PROVE  [Life!LifeNext]_(Life!lifeVars)
  BY DEF Life!lifeVars

(* A row that is written back as over ends the result, or changes no stage. *)
LEMMA WriteBackOver ==
  ASSUME DBTypeOK, NEW r \in Result, NEW row \in ResultRow, Over(row),
         SetRow(r, row), UNCHANGED wu
  PROVE  [Life!LifeNext]_(Life!lifeVars)
<1>1. res \in [Result -> ResultRow] /\ res[r].server_state \in ServerState
  BY DEF DBTypeOK, ResultRow
<1>2. CASE res[r].server_state \in {"UNSENT", "IN_PROGRESS"}
  <2>1. \A q \in Result : res'[q].server_state = IF q = r THEN "OVER" ELSE res[q].server_state
    BY <1>1, <1>2 DEF SetRow, Exists, Over
  <2>2. Life!End({r})
    BY <1>2, <2>1 DEF Life!End, Life!Move
  <2> QED
    BY <2>2 DEF Life!LifeNext
<1>3. CASE res[r].server_state \notin {"UNSENT", "IN_PROGRESS"}
  <2>1. \A q \in Result : res'[q].server_state = res[q].server_state
    BY <1>1, <1>3 DEF SetRow, Exists, Over
  <2> QED
    BY <2>1, SameStages
<1> QED
  BY <1>2, <1>3

LEMMA TransitionerLife ==
  ASSUME DBTypeOK, TrTypeOK, CopiesConsistent, TrNext
  PROVE  [Life!LifeNext]_(Life!lifeVars)
<1>1. \A r \in Result : tr.items[r] \in ResultRow /\ Sound(tr.items[r])
  BY DEF TrTypeOK, CopiesConsistent
<1>2. CASE TrEnumerate \/ TrDecide \/ TrCrash
  BY <1>2, SameStages DEF TrEnumerate, TrDecide, TrCrash, dbVars
<1>3. CASE TrCreate
  <2>1. PICK S \in SUBSET Result : S = NextIds(tr.new)
    BY DEF NextIds, Fresh
  <2>2. \A r \in S : res[r].server_state = "NONE"
    BY <2>1 DEF NextIds, Fresh
  <2>3. \A r \in Result : res'[r].server_state =
          IF r \in S THEN "UNSENT" ELSE res[r].server_state
    BY <1>3, <2>1 DEF TrCreate, NewRow, UnusedRow
  <2>4. UNCHANGED wu
    BY <1>3 DEF TrCreate
  <2>5. Life!Create(S)
    BY <2>2, <2>3, <2>4 DEF Life!Create, Life!Move
  <2> QED
    BY <2>5, Zenon DEF Life!LifeNext
<1>4. CASE TrUpdateWorkunit
  BY <1>4, SameStages DEF TrUpdateWorkunit, SetWu, DBTypeOK, WuRow
<1>5. ASSUME NEW r \in Result, NEW item \in ResultRow, Over(item), TrWriteResult(r, item)
      PROVE  [Life!LifeNext]_(Life!lifeVars)
  <2> DEFINE row == [res[r] EXCEPT !.server_state = item.server_state,
                                   !.outcome = item.outcome,
                                   !.validate_state = item.validate_state,
                                   !.file_delete_state = item.file_delete_state]
  <2>1. row \in ResultRow /\ Over(row)
    BY <1>5 DEF DBTypeOK, ResultRow, Over
  <2>2. SetRow(r, row) /\ UNCHANGED wu
    BY <1>5 DEF TrWriteResult
  <2> QED
    BY <2>1, <2>2, WriteBackOver
<1>6. ASSUME NEW r \in Result, TrTimeOut(r) PROVE [Life!LifeNext]_(Life!lifeVars)
  <2> DEFINE item == [tr.items[r] EXCEPT !.server_state = "OVER", !.outcome = "NO_REPLY"]
  <2>1. item \in ResultRow /\ Over(item)
    BY <1>1 DEF ResultRow, ServerState, Outcome, Over
  <2>2. TrWriteResult(r, item)
    BY <1>6 DEF TrTimeOut
  <2> QED
    BY <1>5, <2>1, <2>2
<1>7. ASSUME NEW r \in Result, TrTooLate(r) PROVE [Life!LifeNext]_(Life!lifeVars)
  <2> DEFINE item == [tr.items[r] EXCEPT !.validate_state = "TOO_LATE"]
  <2>1. Over(tr.items[r])
    BY <1>7 DEF TrTooLate, TooLate, Awaiting, Success
  <2>2. item \in ResultRow /\ Over(item)
    BY <1>1, <2>1 DEF ResultRow, ValidateState, Over
  <2>3. TrWriteResult(r, item)
    BY <1>7 DEF TrTooLate
  <2> QED
    BY <1>5, <2>2, <2>3
<1>8. ASSUME NEW r \in Result, TrClose(r) PROVE [Life!LifeNext]_(Life!lifeVars)
  <2> DEFINE off == [tr.items[r] EXCEPT !.server_state = "OVER", !.outcome = "DIDNT_NEED"]
             unchecked == [tr.items[r] EXCEPT !.validate_state = "NO_CHECK"]
  <2>1. off \in ResultRow /\ Over(off)
    BY <1>1 DEF ResultRow, ServerState, Outcome, Over
  <2>2. r \notin Unneeded => unchecked \in ResultRow /\ Over(unchecked)
    BY <1>1, <1>8 DEF TrClose, ToClose, Unchecked, Success, ResultRow, ValidateState, Over
  <2>3. TrWriteResult(r, IF r \in Unneeded THEN off ELSE unchecked)
    BY <1>8 DEF TrClose
  <2> QED
    BY <1>5, <2>1, <2>2, <2>3
<1>9. ASSUME NEW r \in Result, TrDelete(r) PROVE [Life!LifeNext]_(Life!lifeVars)
  <2> DEFINE item == [tr.items[r] EXCEPT !.file_delete_state = "READY"]
  <2>1. Over(tr.items[r])
    BY <1>1, <1>9 DEF TrDelete, Deletable, Sound
  <2>2. item \in ResultRow /\ Over(item)
    BY <1>1, <2>1 DEF ResultRow, FileDelete, Over
  <2>3. TrWriteResult(r, item)
    BY <1>9 DEF TrDelete
  <2> QED
    BY <1>5, <2>2, <2>3
<1> QED
  BY <1>2, <1>3, <1>4, <1>6, <1>7, <1>8, <1>9 DEF TrNext, TrStep

LEMMA ValidatorLife ==
  ASSUME DBTypeOK, VaTypeOK, CopiesConsistent, VaNext
  PROVE  [Life!LifeNext]_(Life!lifeVars)
<1>1. \A r \in Result : va.items[r] \in ResultRow
  BY DEF VaTypeOK
<1>2. ASSUME NEW r \in Result, NEW item \in ResultRow, Over(item), VaWriteResult(r, item)
      PROVE  [Life!LifeNext]_(Life!lifeVars)
  <2> DEFINE row == [res[r] EXCEPT !.server_state = item.server_state,
                                   !.outcome = item.outcome,
                                   !.validate_state = item.validate_state]
  <2>1. row \in ResultRow /\ Over(row)
    BY <1>2 DEF DBTypeOK, ResultRow, Over
  <2>2. SetRow(r, row) /\ UNCHANGED wu
    BY <1>2 DEF VaWriteResult
  <2> QED
    BY <2>1, <2>2, WriteBackOver
<1>3. CASE VaUpdateWorkunit
  <2>1. /\ \A r \in Result : res'[r].server_state = res[r].server_state
        /\ wu'.canonical_resultid = IF wu.exists THEN va.wu.canonical_resultid
                                    ELSE wu.canonical_resultid
    BY <1>3 DEF VaUpdateWorkunit, SetWu, DBTypeOK, WuRow
  <2>2. va.pc # "idle"
    BY <1>3 DEF VaUpdateWorkunit, HasCanonical
  <2>3. CASE wu.canonical_resultid # 0 \/ va.wu.canonical_resultid = 0 \/ ~wu.exists
    <3>1. wu'.canonical_resultid = wu.canonical_resultid
      BY <2>1, <2>2, <2>3 DEF CopiesConsistent
    <3> QED
      BY <2>1, <3>1, SameStages
  <2>4. CASE wu.canonical_resultid = 0 /\ va.wu.canonical_resultid # 0 /\ wu.exists
    <3> DEFINE c == va.wu.canonical_resultid
    <3>1. c \in Result /\ Ended(c)
      BY <2>4 DEF CopiesConsistent, VaTypeOK, WuRow
    <3>2. Life!Choose(c)
      BY <2>1, <2>4, <3>1 DEF Life!Choose, Ended
    <3> QED
      BY <3>1, <3>2, Zenon DEF Life!LifeNext
  <2> QED
    BY <2>3, <2>4
<1>4. ASSUME NEW r \in Result, VaCheckPair(r) PROVE [Life!LifeNext]_(Life!lifeVars)
  <2>1. Over(va.items[r])
    BY <1>4 DEF VaCheckPair, CopiesConsistent
  <2>2. PICK item \in ResultRow : Over(item) /\ VaWriteResult(r, item)
    BY <1>1, <1>4, <2>1 DEF VaCheckPair, ResultRow, Outcome, ValidateState, Over
  <2> QED
    BY <1>2, <2>2
<1>5. ASSUME NEW r \in Result, VaUpdateResult(r) PROVE [Life!LifeNext]_(Life!lifeVars)
  <2>1. Over(va.items[r]) /\ VaWriteResult(r, va.items[r])
    BY <1>5 DEF VaUpdateResult, CopiesConsistent
  <2> QED
    BY <1>1, <1>2, <2>1
<1>6. ASSUME UNCHANGED dbVars PROVE [Life!LifeNext]_(Life!lifeVars)
  BY <1>6, SameStages DEF dbVars
<1>7. CASE VaEnumerate \/ VaNoCanonicalRow \/ VaCheckSet \/ VaNoQuorum \/ VaRetryPair \/ VaCrash
  BY <1>6, <1>7 DEF VaEnumerate, VaNoCanonicalRow, VaCheckSet, VaNoQuorum, VaRetryPair, VaCrash
<1>8. ASSUME NEW r \in Result, VaSkipPair(r) \/ VaSkipResult(r)
      PROVE  [Life!LifeNext]_(Life!lifeVars)
  BY <1>6, <1>8 DEF VaSkipPair, VaSkipResult
<1> QED
  BY <1>3, <1>4, <1>5, <1>7, <1>8 DEF VaNext, VaStep

LEMMA SchedulerLife ==
  ASSUME DBTypeOK, SchedTypeOK, CopiesConsistent, SchedNext
  PROVE  [Life!LifeNext]_(Life!lifeVars)
<1>1. PICK r \in Result :
        \/ SendCheck(r) \/ ResendCheck(r) \/ ReportCheck(r) \/ DetachCheck(r)
        \/ CgiStep(r) \/ CgiCrash(r) \/ ClientFinish(r) \/ ClientLoses(r)
  BY DEF SchedNext
<1>2. res \in [Result -> ResultRow] /\ res[r] \in ResultRow
  BY DEF DBTypeOK
<1>3. CASE UNCHANGED <<wu, res>>
  BY <1>3, SameStages
<1>4. ASSUME NEW t, SetWu([wu EXCEPT !.transition_time = t]), UNCHANGED res
      PROVE  [Life!LifeNext]_(Life!lifeVars)
  BY <1>4, SameStages DEF SetWu, DBTypeOK, WuRow
<1>5. CASE SendMark(r)
  <2>1. CASE res[r].server_state = "UNSENT"
    <3>1. \A q \in Result : res'[q].server_state =
            IF q = r THEN "IN_PROGRESS" ELSE res[q].server_state
      BY <1>2, <1>5, <2>1 DEF SendMark, ResultRow
    <3>2. Life!Send(r)
      BY <1>5, <2>1, <3>1 DEF SendMark, Life!Send, Life!Move
    <3> QED
      BY <3>2, Zenon DEF Life!LifeNext
  <2> QED
    BY <1>3, <1>5, <2>1 DEF SendMark
<1>6. CASE ResendMark(r) \/ ExpireMark(r)
  <2>1. UNCHANGED wu /\ \A q \in Result : res'[q].server_state = res[q].server_state
    BY <1>2, <1>6 DEF ResendMark, ExpireMark, ResultRow
  <2> QED
    BY <2>1, SameStages
<1>7. CASE ReportRow(r)
  <2>1. Reported(r) \in ResultRow /\ Over(Reported(r))
    BY <1>2 DEF Reported, ResultRow, ServerState, Outcome, ValidateState, SchedTypeOK, Over
  <2> QED
    BY <1>7, <2>1, WriteBackOver DEF ReportRow
<1>8. CASE DetachRow(r)
  <2> DEFINE row == [res[r] EXCEPT !.server_state = "OVER", !.outcome = "CLIENT_DETACHED",
                                   !.received = TRUE]
  <2>1. row \in ResultRow /\ Over(row)
    BY <1>2 DEF ResultRow, ServerState, Outcome, Over
  <2> QED
    BY <1>8, <2>1, WriteBackOver DEF DetachRow
<1>9. CASE SendJob(r) \/ ResendJob(r) \/ ExpireJob(r) \/ ReportJob(r) \/ DetachJob(r)
  BY <1>4, <1>9 DEF SendJob, ResendJob, ExpireJob, ReportJob, DetachJob
<1>10. CASE SendCheck(r) \/ ResendCheck(r) \/ ReportCheck(r) \/ DetachCheck(r)
            \/ CgiCrash(r) \/ ClientFinish(r) \/ ClientLoses(r)
  BY <1>3, <1>10 DEF SendCheck, ResendCheck, ReportCheck, DetachCheck, CgiCrash, ClientFinish,
     ClientLoses, dbVars
<1> QED
  BY <1>1, <1>5, <1>6, <1>7, <1>8, <1>9, <1>10 DEF CgiStep

LEMMA AssimilatorLife ==
  ASSUME DBTypeOK, AsNext
  PROVE  [Life!LifeNext]_(Life!lifeVars)
<1>1. /\ \A r \in Result : res'[r].server_state = res[r].server_state
      /\ wu'.canonical_resultid = wu.canonical_resultid
  BY DEF AsNext, AsStep, AsEnumerate, AsHandle, AsDone, AsCrash, dbVars, SetWu, DBTypeOK, WuRow
<1> QED
  BY <1>1, SameStages

LEMMA FileDeleterLife ==
  ASSUME DBTypeOK, FdTypeOK, FdNext \/ PurgeNext
  PROVE  [Life!LifeNext]_(Life!lifeVars)
<1>1. res \in [Result -> ResultRow] /\ wu \in WuRow
  BY DEF DBTypeOK
<1>2. CASE UNCHANGED <<wu, res>>
  BY <1>2, SameStages
<1>3. CASE FdUpdate
  <2>1. /\ \A r \in Result : res'[r].server_state = res[r].server_state
        /\ wu'.canonical_resultid = wu.canonical_resultid
    BY <1>1, <1>3 DEF FdUpdate, SetRow, SetWu, FdTypeOK, ResultRow, WuRow
  <2> QED
    BY <2>1, SameStages
<1>4. CASE PurgeResult
  <2>1. PICK r \in Result : SetRow(r, [UnusedRow EXCEPT !.server_state = "PURGED"])
    BY <1>4 DEF PurgeResult, FdTypeOK
  <2>2. UNCHANGED wu
    BY <1>4 DEF PurgeResult
  <2>3. CASE Exists(res[r])
    <3>1. \A q \in Result : res'[q].server_state = IF q = r THEN "PURGED" ELSE res[q].server_state
      BY <1>1, <2>1, <2>3 DEF SetRow, UnusedRow
    <3>2. Life!Archive(r)
      BY <2>2, <2>3, <3>1 DEF Exists, Life!Archive, Life!Move
    <3> QED
      BY <3>2, Zenon DEF Life!LifeNext
  <2>4. CASE ~Exists(res[r])
    BY <1>2, <2>1, <2>2, <2>4 DEF SetRow
  <2> QED
    BY <2>3, <2>4
<1>5. CASE PurgeJob
  BY <1>1, <1>5, SameStages DEF PurgeJob, WuRow
<1>6. CASE FdEnumerate \/ FdUnlink \/ FdCrash \/ PurgeEnumerate \/ PurgeQuery \/ PurgeSkip
           \/ PurgeCrash
  BY <1>2, <1>6 DEF FdEnumerate, FdUnlink, FdCrash, PurgeEnumerate, PurgeQuery, PurgeSkip,
     PurgeCrash, dbVars
<1> QED
  BY <1>3, <1>4, <1>5, <1>6 DEF FdNext, PurgeNext, FdStep, PurgeStep

(* Every step of the back end is a step in the life of the job, or none. *)
LEMMA StepLife ==
  ASSUME TypeOK, CopiesConsistent, [Next]_vars
  PROVE  [Life!LifeNext]_(Life!lifeVars)
<1>1. DBTypeOK /\ TrTypeOK /\ VaTypeOK /\ SchedTypeOK /\ AsTypeOK /\ FdTypeOK
  BY DEF TypeOK
<1>2. res \in [Result -> ResultRow] /\ wu \in WuRow
  BY <1>1 DEF DBTypeOK
<1>3. CASE CancelResults
  <2>1. PICK S \in SUBSET Result : S = {r \in Result : res[r].server_state = "UNSENT"}
    OBVIOUS
  <2>2. \A r \in Result : res'[r].server_state =
          IF r \in S THEN "OVER" ELSE res[r].server_state
    BY <1>2, <1>3, <2>1 DEF CancelResults, ResultRow
  <2>3. Life!End(S)
    BY <1>3, <2>1, <2>2 DEF CancelResults, Life!End, Life!Move
  <2> QED
    BY <2>3, Zenon DEF Life!LifeNext
<1>4. CASE CancelJob \/ TransitionTimeComes
  BY <1>2, <1>4, SameStages DEF CancelJob, TransitionTimeComes, SetWu, WuRow
<1>5. ASSUME NEW r \in Result, DeadlinePasses(r) PROVE [Life!LifeNext]_(Life!lifeVars)
  <2>1. UNCHANGED wu /\ \A q \in Result : res'[q].server_state = res[q].server_state
    BY <1>2, <1>5 DEF DeadlinePasses, ResultRow
  <2> QED
    BY <2>1, SameStages
<1>6. CASE UNCHANGED vars
  BY <1>6, SameStages DEF vars, dbVars
<1> QED
  BY <1>1, <1>3, <1>4, <1>5, <1>6, TransitionerLife, ValidatorLife, SchedulerLife,
     AssimilatorLife, FileDeleterLife DEF Next, Step

(* Along any step of that life a result that has ended stays ended. *)
LEMMA EndedKept ==
  ASSUME [Life!LifeNext]_(Life!lifeVars), NEW r \in Result, Ended(r)
  PROVE  Ended(r)'
<1> DEFINE life == [q \in Result |-> res[q].server_state]
<1>1. life[r] \in {"OVER", "PURGED"}
  BY DEF Ended
<1>2. CASE life' = life
  <2>1. life'[r] = life[r]
    BY <1>2
  <2> QED
    BY <1>1, <2>1 DEF Ended
<1>3. ASSUME NEW S, NEW from, NEW to, Life!Move(S, from, to),
             to \in {"OVER", "PURGED"} \/ from \cap {"OVER", "PURGED"} = {}
      PROVE  Ended(r)'
  <2>1. life' = [q \in Result |-> IF q \in S THEN to ELSE life[q]]
    BY <1>3 DEF Life!Move
  <2>2. life'[r] = IF r \in S THEN to ELSE life[r]
    BY <2>1
  <2>3. r \in S => life[r] \in from
    BY <1>3 DEF Life!Move
  <2>4. life'[r] \in {"OVER", "PURGED"}
    BY <1>1, <1>3, <2>2, <2>3
  <2> QED
    BY <2>4 DEF Ended
<1>4. CASE UNCHANGED Life!lifeVars
  BY <1>2, <1>4 DEF Life!lifeVars
<1>5. CASE Life!LifeNext
  <2>1. ASSUME NEW S \in SUBSET Result, Life!Create(S) \/ Life!End(S) PROVE Ended(r)'
    BY <1>3, <2>1 DEF Life!Create, Life!End
  <2>2. ASSUME NEW q \in Result, Life!Send(q) \/ Life!Archive(q) \/ Life!Choose(q)
        PROVE  Ended(r)'
    BY <1>2, <1>3, <2>2 DEF Life!Send, Life!Archive, Life!Choose
  <2> QED
    BY <1>5, <2>1, <2>2 DEF Life!LifeNext
<1> QED
  BY <1>4, <1>5

-----------------------------------------------------------------------------
(* The parts of CopiesConsistent: the table and the two daemons' copies. *)

RowsSound == \A r \in Result : Sound(res[r])
TrSound   == \A r \in Result : Sound(tr.items[r])
VaSound ==
    /\ \A r \in Result : Sound(va.items[r])
    /\ \A r \in va.todo : Over(va.items[r])
    /\ va.pc = "fetched" => \A r \in Result : Over(va.items[r]) => Ended(r)
    /\ \A c \in {wu.canonical_resultid, va.wu.canonical_resultid} \ {0} : Ended(c)
    /\ va.pc # "idle" /\ wu.canonical_resultid # 0
         => va.wu.canonical_resultid = wu.canonical_resultid

LEMMA ConsistentParts == CopiesConsistent <=> RowsSound /\ TrSound /\ VaSound
  BY DEF CopiesConsistent, RowsSound, TrSound, VaSound

(* What the validator knows stays right while others are at work. *)
LEMMA VaSoundKept ==
  ASSUME VaSound, UNCHANGED va, wu'.canonical_resultid = wu.canonical_resultid,
         VaTypeOK, wu \in WuRow, \A r \in Result : Ended(r) => Ended(r)'
  PROVE  VaSound'
<1>1. {wu.canonical_resultid, va.wu.canonical_resultid} \subseteq Result \cup {0}
  BY DEF VaTypeOK, WuRow
<1>2. \A c \in {wu'.canonical_resultid, va'.wu.canonical_resultid} \ {0} : Ended(c)'
  BY <1>1 DEF VaSound
<1>3. va'.pc = "fetched" => \A r \in Result : Over(va'.items[r]) => Ended(r)'
  BY DEF VaSound
<1> QED
  BY <1>2, <1>3 DEF VaSound

(* A sound row that is written over another leaves the table sound. *)
LEMMA SoundWrite ==
  ASSUME res \in [Result -> ResultRow], RowsSound, NEW r \in Result, NEW row,
         Sound(row), SetRow(r, row)
  PROVE  RowsSound'
  BY DEF RowsSound, SetRow

LEMMA TransitionerSound ==
  ASSUME DBTypeOK, TrTypeOK, RowsSound, TrSound, TrNext
  PROVE  RowsSound' /\ TrSound'
<1>1. res \in [Result -> ResultRow] /\ tr.items \in [Result -> ResultRow]
  BY DEF DBTypeOK, TrTypeOK
<1>2. Sound(UnusedRow) /\ Sound(NewRow)
  BY DEF Sound, UnusedRow, NewRow
<1>3. ASSUME UNCHANGED dbVars PROVE RowsSound'
  BY <1>3 DEF dbVars, RowsSound
<1>4. ASSUME NEW r \in Result, NEW item \in ResultRow, Sound(item), TrWriteResult(r, item)
      PROVE  RowsSound'
  <2> DEFINE row == [res[r] EXCEPT !.server_state = item.server_state,
                                   !.outcome = item.outcome,
                                   !.validate_state = item.validate_state,
                                   !.file_delete_state = item.file_delete_state]
  <2>1. Sound(row)
    BY <1>1, <1>4 DEF Sound, Over, ResultRow
  <2> QED
    BY <1>1, <1>4, <2>1, SoundWrite DEF TrWriteResult
<1>5. CASE TrEnumerate
  BY <1>3, <1>5 DEF TrEnumerate, TrSound, RowsSound
<1>6. CASE TrDecide
  <2>1. tr'.items = tr.items
    BY <1>6, Zenon DEF TrDecide, TrTypeOK
  <2> QED
    BY <1>3, <1>6, <2>1 DEF TrDecide, TrSound
<1>7. CASE TrCreate
  <2>1. RowsSound'
    BY <1>2, <1>7 DEF TrCreate, RowsSound
  <2>2. tr'.items = tr.items
    BY <1>7 DEF TrCreate, TrTypeOK
  <2> QED
    BY <2>1, <2>2 DEF TrSound
<1>8. CASE TrUpdateWorkunit \/ TrCrash
  BY <1>2, <1>8 DEF TrUpdateWorkunit, TrCrash, TrIdle, dbVars, RowsSound, TrSound
<1>9. ASSUME NEW r \in Result, TrTimeOut(r) \/ TrTooLate(r) \/ TrClose(r) \/ TrDelete(r)
      PROVE  RowsSound' /\ TrSound'
  <2>1. tr.items[r] \in ResultRow /\ Sound(tr.items[r])
    BY <1>1 DEF TrSound
  <2>2. PICK item \in ResultRow :
          Sound(item) /\ TrWriteResult(r, item) /\ tr'.items = [tr.items EXCEPT ![r] = item]
    <3>1. CASE TrTimeOut(r)
      BY <2>1, <3>1 DEF TrTimeOut, TrTypeOK, Sound, Over, ResultRow, ServerState, Outcome
    <3>2. CASE TrTooLate(r)
      BY <2>1, <3>2 DEF TrTooLate, TrTypeOK, Sound, Over, ResultRow, ValidateState
    <3>3. CASE TrClose(r) /\ r \in Unneeded
      BY <2>1, <3>3 DEF TrClose, TrTypeOK, Sound, Over, ResultRow, ServerState, Outcome
    <3>4. CASE TrClose(r) /\ r \notin Unneeded
      BY <2>1, <3>4 DEF TrClose, TrTypeOK, Sound, Over, ResultRow, ValidateState
    <3>5. CASE TrDelete(r)
      BY <2>1, <3>5 DEF TrDelete, TrTypeOK, Sound, Over, ResultRow, FileDelete
    <3> QED
      BY <1>9, <3>1, <3>2, <3>3, <3>4, <3>5
  <2> QED
    BY <1>1, <1>4, <2>2 DEF TrSound
<1> QED
  BY <1>5, <1>6, <1>7, <1>8, <1>9 DEF TrNext, TrStep

LEMMA SchedulerSound ==
  ASSUME DBTypeOK, RowsSound, SchedNext
  PROVE  RowsSound'
<1>1. PICK r \in Result :
        \/ SendCheck(r) \/ ResendCheck(r) \/ ReportCheck(r) \/ DetachCheck(r)
        \/ CgiStep(r) \/ CgiCrash(r) \/ ClientFinish(r) \/ ClientLoses(r)
  BY DEF SchedNext
<1>2. res \in [Result -> ResultRow] /\ res[r] \in ResultRow /\ Sound(res[r])
  BY DEF DBTypeOK, RowsSound
<1>3. CASE UNCHANGED res
  BY <1>3 DEF RowsSound
<1>4. CASE SendMark(r) \/ ResendMark(r) \/ ExpireMark(r)
  BY <1>2, <1>4 DEF SendMark, ResendMark, ExpireMark, RowsSound, Sound, Over, ResultRow
<1>5. CASE ReportRow(r)
  <2>1. Sound(Reported(r))
    BY <1>2 DEF Reported, Sound, Over, ResultRow
  <2> QED
    BY <1>2, <1>5, <2>1, SoundWrite DEF ReportRow
<1>6. CASE DetachRow(r)
  <2> DEFINE row == [res[r] EXCEPT !.server_state = "OVER", !.outcome = "CLIENT_DETACHED",
                                   !.received = TRUE]
  <2>1. Sound(row)
    BY <1>2 DEF Sound, Over, ResultRow
  <2> QED
    BY <1>2, <1>6, <2>1, SoundWrite DEF DetachRow
<1>7. CASE SendJob(r) \/ ResendJob(r) \/ ExpireJob(r) \/ ReportJob(r) \/ DetachJob(r)
           \/ SendCheck(r) \/ ResendCheck(r) \/ ReportCheck(r) \/ DetachCheck(r)
           \/ CgiCrash(r) \/ ClientFinish(r) \/ ClientLoses(r)
  BY <1>3, <1>7 DEF SendJob, ResendJob, ExpireJob, ReportJob, DetachJob, SendCheck,
     ResendCheck, ReportCheck, DetachCheck, CgiCrash, ClientFinish, ClientLoses, dbVars
<1> QED
  BY <1>1, <1>4, <1>5, <1>6, <1>7 DEF CgiStep

LEMMA FileDeleterSound ==
  ASSUME DBTypeOK, FdTypeOK, RowsSound, FdNext \/ PurgeNext
  PROVE  RowsSound'
<1>1. res \in [Result -> ResultRow]
  BY DEF DBTypeOK
<1>2. CASE UNCHANGED res
  BY <1>2 DEF RowsSound
<1>3. CASE FdUpdate
  <2>1. CASE fd.id = 0
    BY <1>2, <1>3, <2>1 DEF FdUpdate
  <2>2. CASE fd.id # 0
    <3>1. fd.id \in Result /\ res[fd.id] \in ResultRow /\ Sound(res[fd.id])
      BY <1>1, <2>2 DEF FdTypeOK, RowsSound
    <3>2. Sound([res[fd.id] EXCEPT !.file_delete_state = FdOutcome])
      BY <3>1 DEF Sound, Over, ResultRow
    <3> QED
      BY <1>1, <1>3, <2>2, <3>1, <3>2 DEF FdUpdate, RowsSound, SetRow
  <2> QED
    BY <2>1, <2>2
<1>4. CASE PurgeResult
  <2>1. Sound([UnusedRow EXCEPT !.server_state = "PURGED"])
    BY DEF Sound, UnusedRow
  <2> QED
    BY <1>1, <1>4, <2>1 DEF PurgeResult, FdTypeOK, RowsSound, SetRow
<1>5. CASE FdEnumerate \/ FdUnlink \/ FdCrash \/ PurgeEnumerate \/ PurgeQuery \/ PurgeSkip
           \/ PurgeJob \/ PurgeCrash
  BY <1>2, <1>5 DEF FdEnumerate, FdUnlink, FdCrash, PurgeEnumerate, PurgeQuery, PurgeSkip,
     PurgeJob, PurgeCrash, dbVars
<1> QED
  BY <1>3, <1>4, <1>5 DEF FdNext, PurgeNext, FdStep, PurgeStep

(* check_set() and the scan after it leave every row they change over. *)
LEMMA CheckedItemsOver ==
  ASSUME VaTypeOK, VaSound, NEW bad, NEW unseen, NEW c, NEW r \in Result
  PROVE  LET item == CheckedItems(bad, unseen, c)[r]
         IN  /\ Sound(item)
             /\ item # va.items[r] \/ r \in SuccessItems => Over(item)
<1> DEFINE off == [va.items[r] EXCEPT !.server_state = "OVER", !.outcome = "DIDNT_NEED"]
<1>1. va.items[r] \in ResultRow /\ Sound(va.items[r])
  BY DEF VaTypeOK, VaSound
<1>2. CASE r \in SuccessItems
  <2>1. va.items[r].server_state = "OVER"
    BY <1>2 DEF SuccessItems, Success, Over
  <2>2. Checked(r, bad, unseen, c).server_state = "OVER"
    BY <1>1, <2>1 DEF Checked, ResultRow
  <2> QED
    BY <1>2, <2>2 DEF CheckedItems, Sound, Over
<1>3. CASE r \notin SuccessItems /\ r \in CalledOff(c)
  <2>1. CheckedItems(bad, unseen, c)[r] = off /\ off.server_state = "OVER"
    BY <1>1, <1>3 DEF CheckedItems, ResultRow
  <2> QED
    BY <1>3, <2>1 DEF Sound, Over
<1>4. CASE r \notin SuccessItems /\ r \notin CalledOff(c)
  BY <1>1, <1>4 DEF CheckedItems
<1> QED
  BY <1>2, <1>3, <1>4

LEMMA AfterCheckSetSound ==
  ASSUME VaTypeOK, VaSound, wu \in WuRow, UNCHANGED dbVars,
         va.pc = "fetched", va.wu.canonical_resultid = 0,
         NEW bad \in SUBSET Result, NEW unseen \in SUBSET Result,
         va' = AfterCheckSet(bad, unseen)
  PROVE  VaSound'
<1> DEFINE c == ChosenCanonical(SuccessItems \ (bad \cup unseen))
           n == Cardinality(SuccessItems \ bad)
           items == CheckedItems(bad, unseen, c)
           job == IF c # 0 THEN JobWithCanonical(c) ELSE JobWithoutConsensus(n)
<1>1. c = 0 \/ c \in SuccessItems
  BY ChosenCanonicalType DEF SuccessItems
<1>2. c = 0 \/ Ended(c)
  BY <1>1 DEF VaSound, SuccessItems, Success
<1>3. /\ va'.pc = "write" /\ va'.items = items /\ va'.wu = job
      /\ \A r \in va'.todo : r \in Result /\ (items[r] # va.items[r] \/ r \in SuccessItems)
  BY DEF AfterCheckSet, VaTypeOK
<1>4. job.canonical_resultid = c
  BY DEF JobWithCanonical, JobWithoutConsensus, VaTypeOK, WuRow
<1>5. wu.canonical_resultid = 0
  BY DEF VaSound
<1>6. \A r \in Result : Sound(va'.items[r])
  BY <1>3, CheckedItemsOver
<1>7. \A r \in va'.todo : Over(va'.items[r])
  BY <1>3, CheckedItemsOver
<1>8. UNCHANGED <<wu, res>>
  BY DEF dbVars
<1> HIDE DEF c, items, job
<1> QED
  BY <1>2, <1>3, <1>4, <1>5, <1>6, <1>7, <1>8 DEF VaSound, Ended

LEMMA ValidatorSound ==
  ASSUME DBTypeOK, VaTypeOK, RowsSound, VaSound, VaNext,
         \A r \in Result : Ended(r) => Ended(r)'
  PROVE  RowsSound' /\ VaSound'
<1>1. res \in [Result -> ResultRow] /\ wu \in WuRow
  BY DEF DBTypeOK
<1>2. ASSUME UNCHANGED dbVars PROVE RowsSound' /\ UNCHANGED <<wu, res>>
  BY <1>2 DEF dbVars, RowsSound
<1>3. ASSUME NEW r \in Result, NEW item \in ResultRow, Over(item), VaWriteResult(r, item)
      PROVE  RowsSound' /\ UNCHANGED wu
  <2> DEFINE row == [res[r] EXCEPT !.server_state = item.server_state,
                                   !.outcome = item.outcome,
                                   !.validate_state = item.validate_state]
  <2>1. Sound(row)
    BY <1>1, <1>3 DEF Sound, Over, ResultRow
  <2> QED
    BY <1>1, <1>3, <2>1, SoundWrite DEF VaWriteResult
<1>4. ASSUME va' = VaIdle, wu'.canonical_resultid \in {wu.canonical_resultid, va.wu.canonical_resultid}
      PROVE  VaSound'
  <2>1. \A c \in {wu.canonical_resultid, va.wu.canonical_resultid} \ {0} :
          c \in Result /\ Ended(c)
    BY <1>1 DEF VaSound, VaTypeOK, WuRow
  <2>2. \A c \in {wu.canonical_resultid, va.wu.canonical_resultid} \ {0} : Ended(c)'
    BY <2>1
  <2>3. va'.wu.canonical_resultid = 0 /\ va'.pc = "idle" /\ va'.todo = {}
        /\ \A r \in Result : va'.items[r] = UnusedRow
    BY <1>4 DEF VaIdle
  <2>4. \A c \in {wu'.canonical_resultid, va'.wu.canonical_resultid} \ {0} : Ended(c)'
    BY <1>4, <2>2, <2>3
  <2> QED
    BY <2>3, <2>4 DEF VaSound, Sound, UnusedRow
<1>5. ASSUME va'.wu = va.wu, va'.items = va.items, va'.todo \subseteq va.todo,
             va.pc # "idle", va'.pc = "fetched" => va.pc = "fetched",
             wu'.canonical_resultid = wu.canonical_resultid
      PROVE  VaSound'
  <2>1. {wu.canonical_resultid, va.wu.canonical_resultid} \subseteq Result \cup {0}
    BY <1>1 DEF VaTypeOK, WuRow
  <2>2. \A c \in {wu'.canonical_resultid, va'.wu.canonical_resultid} \ {0} : Ended(c)'
    BY <1>5, <2>1 DEF VaSound
  <2>3. va'.pc = "fetched" => \A r \in Result : Over(va'.items[r]) => Ended(r)'
    BY <1>5 DEF VaSound
  <2> QED
    BY <1>5, <2>2, <2>3 DEF VaSound
<1>6. CASE VaEnumerate
  <2>1. /\ va'.pc = "fetched" /\ va'.wu = wu /\ va'.items = res
        /\ \A r \in va'.todo : Over(res[r])
    BY <1>6 DEF VaEnumerate, VaIdle, Success
  <2>2. RowsSound' /\ UNCHANGED <<wu, res>>
    BY <1>2, <1>6 DEF VaEnumerate
  <2> QED
    BY <2>1, <2>2 DEF VaSound, RowsSound, Ended, Over
<1>7. CASE VaNoCanonicalRow \/ VaCrash
  BY <1>2, <1>4, <1>7 DEF VaNoCanonicalRow, VaCrash
<1>8. CASE VaCheckSet
  <2>1. SuccessItems \subseteq Result
    BY DEF SuccessItems
  <2>2. PICK unseen \in SUBSET Result, bad \in SUBSET Result : va' = AfterCheckSet(bad, unseen)
    BY <1>8, <2>1 DEF VaCheckSet
  <2> QED
    BY <1>1, <1>2, <1>8, <2>2, AfterCheckSetSound DEF VaCheckSet
<1>9. CASE VaNoQuorum
  BY <1>2, <1>5, <1>9 DEF VaNoQuorum, VaTypeOK
<1>10. CASE VaUpdateWorkunit
  <2>1. wu'.canonical_resultid \in {wu.canonical_resultid, va.wu.canonical_resultid}
    BY <1>1, <1>10 DEF VaUpdateWorkunit, SetWu, WuRow
  <2>2. RowsSound' /\ va' = VaIdle
    BY <1>10 DEF VaUpdateWorkunit, RowsSound
  <2> QED
    BY <1>4, <2>1, <2>2
<1>11. CASE VaRetryPair
  BY <1>2, <1>5, <1>11 DEF VaRetryPair, HasCanonical, VaTypeOK
<1>12. ASSUME NEW r \in Result, VaCheckPair(r) PROVE RowsSound' /\ VaSound'
  <2>1. va.items[r] \in ResultRow /\ Over(va.items[r])
    BY <1>12 DEF VaCheckPair, VaSound, VaTypeOK
  <2>2. PICK item \in ResultRow : Over(item) /\ VaWriteResult(r, item)
    BY <1>12, <2>1 DEF VaCheckPair, ResultRow, Outcome, ValidateState, Over
  <2>3. RowsSound' /\ UNCHANGED wu
    BY <1>3, <2>2
  <2> QED
    BY <1>5, <1>12, <2>3 DEF VaCheckPair, HasCanonical, VaTypeOK
<1>13. ASSUME NEW r \in Result, VaUpdateResult(r) PROVE RowsSound' /\ VaSound'
  <2>1. va.items[r] \in ResultRow /\ Over(va.items[r]) /\ VaWriteResult(r, va.items[r])
    BY <1>13 DEF VaUpdateResult, VaSound, VaTypeOK
  <2>2. RowsSound' /\ UNCHANGED wu
    BY <1>3, <2>1
  <2> QED
    BY <1>5, <1>13, <2>2 DEF VaUpdateResult, VaTypeOK
<1>14. ASSUME NEW r \in Result, VaSkipPair(r) \/ VaSkipResult(r) PROVE RowsSound' /\ VaSound'
  BY <1>2, <1>5, <1>14 DEF VaSkipPair, VaSkipResult, HasCanonical, VaTypeOK
<1> QED
  BY <1>6, <1>7, <1>8, <1>9, <1>10, <1>11, <1>12, <1>13, <1>14 DEF VaNext, VaStep

LEMMA StepConsistent ==
  ASSUME TypeOK, CopiesConsistent, [Next]_vars
  PROVE  CopiesConsistent'
<1>1. /\ DBTypeOK /\ TrTypeOK /\ VaTypeOK /\ SchedTypeOK /\ AsTypeOK /\ FdTypeOK
      /\ RowsSound /\ TrSound /\ VaSound
  BY ConsistentParts DEF TypeOK
<1>2. \A r \in Result : Ended(r) => Ended(r)'
  BY StepLife, EndedKept
<1>3. res \in [Result -> ResultRow] /\ wu \in WuRow
  BY <1>1 DEF DBTypeOK
<1>4. ASSUME UNCHANGED va, wu'.canonical_resultid = wu.canonical_resultid PROVE VaSound'
  BY <1>1, <1>2, <1>3, <1>4, VaSoundKept
<1>5. ASSUME UNCHANGED tr PROVE TrSound'
  BY <1>1, <1>5 DEF TrSound
<1>6. ASSUME UNCHANGED res PROVE RowsSound'
  BY <1>1, <1>6 DEF RowsSound
<1> SUFFICES RowsSound' /\ TrSound' /\ VaSound'
  BY ConsistentParts DEF CopiesConsistent, RowsSound, TrSound, VaSound
<1>7. CASE TrNext /\ UNCHANGED <<va, schedVars, as, deleterVars, cancel>>
  <2>1. wu'.canonical_resultid = wu.canonical_resultid
    BY <1>3, <1>7 DEF TrNext, TrStep, TrEnumerate, TrDecide, TrCreate, TrUpdateWorkunit,
       TrTimeOut, TrTooLate, TrClose, TrDelete, TrCrash, TrWriteResult, SetWu, dbVars, WuRow
  <2> QED
    BY <1>1, <1>4, <1>7, <2>1, TransitionerSound
<1>8. CASE VaNext /\ UNCHANGED <<tr, schedVars, as, deleterVars, cancel>>
  BY <1>1, <1>2, <1>5, <1>8, ValidatorSound
<1>9. CASE SchedNext /\ UNCHANGED <<tr, va, as, deleterVars, cancel>>
  <2>1. wu'.canonical_resultid = wu.canonical_resultid
    BY <1>3, <1>9 DEF SchedNext, CgiStep, SendCheck, ResendCheck, ReportCheck, DetachCheck,
       SendJob, SendMark, ResendJob, ResendMark, ExpireMark, ExpireJob, ReportRow, ReportJob,
       DetachRow, DetachJob, CgiCrash, ClientFinish, ClientLoses, SetWu, dbVars, WuRow
  <2> QED
    BY <1>1, <1>4, <1>5, <1>9, <2>1, SchedulerSound
<1>10. CASE AsNext /\ UNCHANGED <<tr, va, schedVars, deleterVars, cancel>>
  <2>1. UNCHANGED res /\ wu'.canonical_resultid = wu.canonical_resultid
    BY <1>3, <1>10
       DEF AsNext, AsStep, AsEnumerate, AsHandle, AsDone, AsCrash, SetWu, dbVars, WuRow
  <2> QED
    BY <1>4, <1>5, <1>6, <1>10, <2>1
<1>11. CASE (FdNext \/ PurgeNext) /\ UNCHANGED <<tr, va, schedVars, as, cancel>>
  <2>1. wu'.canonical_resultid = wu.canonical_resultid
    BY <1>3, <1>11 DEF FdNext, PurgeNext, FdStep, PurgeStep, FdEnumerate, FdUnlink, FdUpdate, FdCrash,
       PurgeEnumerate, PurgeQuery, PurgeResult, PurgeSkip, PurgeJob, PurgeCrash, SetWu, dbVars,
       WuRow
  <2> QED
    BY <1>1, <1>4, <1>5, <1>11, <2>1, FileDeleterSound
<1>12. CASE CancelResults
  <2>1. RowsSound'
    BY <1>1, <1>3, <1>12 DEF CancelResults, RowsSound, Sound, Over, ResultRow
  <2> QED
    BY <1>4, <1>5, <1>12, <2>1 DEF CancelResults
<1>13. CASE CancelJob \/ TransitionTimeComes
  <2>1. /\ UNCHANGED <<res, tr, va>>
        /\ wu'.canonical_resultid = wu.canonical_resultid
    BY <1>3, <1>13 DEF CancelJob, TransitionTimeComes, SetWu, WuRow
  <2> QED
    BY <1>4, <1>5, <1>6, <2>1
<1>14. ASSUME NEW r \in Result, DeadlinePasses(r) PROVE RowsSound' /\ TrSound' /\ VaSound'
  <2>1. RowsSound'
    BY <1>1, <1>3, <1>14 DEF DeadlinePasses, RowsSound, Sound, Over, ResultRow
  <2>2. TrSound'
    BY <1>1, <1>14 DEF DeadlinePasses, TrSound, Sound, Over, TrTypeOK, ResultRow
  <2> QED
    BY <1>4, <1>14, <2>1, <2>2 DEF DeadlinePasses
<1>15. CASE UNCHANGED vars
  BY <1>4, <1>5, <1>6, <1>15 DEF vars, dbVars
<1> QED
  BY <1>7, <1>8, <1>9, <1>10, <1>11, <1>12, <1>13, <1>14, <1>15 DEF Next, Step

LEMMA InitConsistent == Init => CopiesConsistent
  BY DEF Init, DBInit, TrInit, VaInit, TrIdle, VaIdle, UnusedRow, CopiesConsistent, Sound

(***************************************************************************)
(* The transitioner and the validator never hold, and never write back, a  *)
(* row that is wrong about whether a result has ended, however old their   *)
(* copies are and however their statements interleave with other programs. *)
(***************************************************************************)
THEOREM Consistent == Spec => []CopiesConsistent
<1>1. Init => TypeOK /\ CopiesConsistent
  BY InitType, InitConsistent
<1>2. TypeOK /\ CopiesConsistent /\ [Next]_vars => TypeOK' /\ CopiesConsistent'
  BY StepType, StepConsistent
<1> QED
  BY <1>1, <1>2, PTL DEF Spec

(***************************************************************************)
(* The back end implements JobLife: a result is created, sent at most      *)
(* once, ends and is archived, never the other way, and the canonical      *)
(* result is chosen once, among the results that have ended.               *)
(***************************************************************************)
THEOREM Refinement == Spec => ImplementsJobLife
<1>1. Init => Life!LifeInit
  BY DEF Init, DBInit, UnusedRow, Life!LifeInit
<1>2. TypeOK /\ CopiesConsistent /\ [Next]_vars => [Life!LifeNext]_(Life!lifeVars)
  BY StepLife
<1> QED
  BY <1>1, <1>2, TypeCorrect, Consistent, PTL DEF Spec, ImplementsJobLife, Life!LifeSpec
=============================================================================
