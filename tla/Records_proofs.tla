--------------------------- MODULE Records_proofs ---------------------------
(***************************************************************************)
(* Proofs about reports and output files, for every value of the constants *)
(* and any overlap of the programs: what is acknowledged is on record, an  *)
(* output file stays until the validator has seen the result, and rows     *)
(* that say their files are deleted tell the truth.  At the end: a job     *)
(* never has more results than its limit.                                  *)
(***************************************************************************)
EXTENDS Backend_proofs

-----------------------------------------------------------------------------
(* The inductive invariant. *)

(* A row, or a copy, that only a result some host reported can have led to. *)
Told(row) ==
    \/ row.outcome \in {"SUCCESS", "CLIENT_ERROR", "VALIDATE_ERROR"}
    \/ row.validate_state # "INIT"
    \/ row.file_delete_state # "INIT"

(* The file deleter is at work on the result. *)
FdOn(r) == fd.pc # "idle" /\ fd.id = r

(***************************************************************************)
(* The host is done with the result and the server will take in no report  *)
(* of it any more; once true this stays true.                              *)
(***************************************************************************)
HandedIn(r) ==
    /\ Ended(r) /\ client[r] \notin {"none", "computing"}
    /\ res[r].received \/ res[r].server_state = "PURGED"
    /\ cgi[r].pc # "report"

HostSound ==
    \A r \in Result :
      /\ client[r] # "none" => res[r].server_state \notin {"NONE", "UNSENT"}
      /\ res[r].received => Ended(r)
      /\ cgi[r].pc = "reported" => Ended(r)
      /\ cgi[r].pc = "report" => /\ client[r] \in {"success", "error"}
                                 /\ cgi[r].validate_state = "INIT"
      /\ client[r] = "acked" => Ended(r)

AnyTold(r) == Told(res[r]) \/ Told(tr.items[r]) \/ Told(va.items[r])
OutputGone(r) == client[r] = "success" /\ file[r] = "none"

ToldSound == \A r \in Result : AnyTold(r) \/ FdOn(r) \/ OutputGone(r) => HandedIn(r)

Deleted(r) == res[r].file_delete_state = "DONE" \/ tr.items[r].file_delete_state = "DONE"

FilesSound ==
    /\ fd.pc = "done" => IF fd.id = 0 THEN ~inputs ELSE file[fd.id] = "none"
    /\ wu.file_delete_state = "DONE" => ~inputs
    /\ \A r \in Result : Deleted(r) => file[r] = "none"

AwaitingRow(row) == Success(row) /\ row.validate_state = "INIT"

AwaitingSound ==
    \A r \in Result : AwaitingRow(res[r]) =>
      res[r].file_delete_state = "INIT" /\ ~FdOn(r) /\ file[r] # "none"

(* What the validator is still to compare is a success, to write is judged. *)
TodoSound ==
    \A r \in va.todo :
      /\ va.pc = "fetched" => Success(va.items[r])
      /\ va.pc = "write" => ~AwaitingRow(va.items[r])

RecordsInv == HostSound /\ ToldSound /\ FilesSound /\ AwaitingSound /\ TodoSound

-----------------------------------------------------------------------------
(* What the life of a job means for a result in a step. *)

StagesKept ==
    \A r \in Result :
      /\ Ended(r) => Ended(r)'
      /\ res[r].server_state = "PURGED" => res'[r].server_state = "PURGED"
      /\ res[r].server_state \notin {"NONE", "UNSENT"}
           => res'[r].server_state \notin {"NONE", "UNSENT"}

LEMMA LifeKeepsStages ==
  ASSUME [Life!LifeNext]_(Life!lifeVars)
  PROVE  StagesKept
<1> DEFINE life == [q \in Result |-> res[q].server_state]
<1>1. SUFFICES ASSUME NEW r \in Result
               PROVE  /\ life[r] = "PURGED" => life'[r] = "PURGED"
                      /\ life[r] \notin {"NONE", "UNSENT"} => life'[r] \notin {"NONE", "UNSENT"}
  <2>1. ASSUME NEW r \in Result PROVE Ended(r) => Ended(r)'
    BY EndedKept
  <2> QED
    BY <2>1 DEF StagesKept
<1>2. CASE life' = life
  BY <1>2
<1>3. ASSUME NEW S, NEW from, NEW to, Life!Move(S, from, to), "PURGED" \notin from,
             to \in {"NONE", "UNSENT"} => from \subseteq {"NONE", "UNSENT"}
      PROVE  /\ life[r] = "PURGED" => life'[r] = "PURGED"
             /\ life[r] \notin {"NONE", "UNSENT"} => life'[r] \notin {"NONE", "UNSENT"}
  <2>1. life' = [q \in Result |-> IF q \in S THEN to ELSE life[q]]
    BY <1>3 DEF Life!Move
  <2>2. life'[r] = IF r \in S THEN to ELSE life[r]
    BY <2>1
  <2>3. r \in S => life[r] \in from
    BY <1>3 DEF Life!Move
  <2> HIDE DEF life
  <2> QED
    BY <1>3, <2>2, <2>3
<1>4. CASE UNCHANGED Life!lifeVars
  BY <1>2, <1>4 DEF Life!lifeVars
<1>5. CASE Life!LifeNext
  <2>1. CASE \E S \in SUBSET Result : Life!Create(S) \/ Life!End(S)
    BY <1>3, <2>1 DEF Life!Create, Life!End
  <2>2. CASE \E q \in Result : Life!Send(q) \/ Life!Archive(q) \/ Life!Choose(q)
    BY <1>2, <1>3, <2>2 DEF Life!Send, Life!Archive, Life!Choose
  <2> QED
    BY <1>5, <2>1, <2>2 DEF Life!LifeNext
<1> QED
  BY <1>4, <1>5

-----------------------------------------------------------------------------
(* Steps of the programs that talk to no host and delete no file. *)

(* The mark that a report was received goes only when the row goes. *)
MarksKept ==
    \A r \in Result :
      /\ res'[r].received => res[r].received
      /\ res[r].received /\ Ended(r) => res'[r].received \/ res'[r].server_state = "PURGED"

LEMMA OthersKeepHosts ==
  ASSUME HostSound, StagesKept, MarksKept, UNCHANGED schedVars
  PROVE  HostSound' /\ \A r \in Result : HandedIn(r) => HandedIn(r)'
<1>1. client' = client /\ cgi' = cgi
  BY DEF schedVars
<1>2. ASSUME NEW r \in Result, HandedIn(r) PROVE HandedIn(r)'
  BY <1>1, <1>2 DEF HandedIn, StagesKept, MarksKept
<1>3. HostSound'
  BY <1>1 DEF HostSound, StagesKept, MarksKept
<1> QED
  BY <1>2, <1>3

Quiet(r) ==
    /\ res'[r].received => res[r].received
    /\ res[r].received /\ Ended(r) => res'[r].received
    /\ AnyTold(r)' => AnyTold(r)
    /\ Deleted(r)' => Deleted(r)
    /\ AwaitingRow(res'[r]) => AwaitingRow(res[r]) /\ res'[r].file_delete_state = "INIT"

LEMMA QuietStep ==
  ASSUME RecordsInv, StagesKept, UNCHANGED <<schedVars, deleterVars, file>>,
         wu'.file_delete_state = "DONE" => wu.file_delete_state = "DONE",
         \A r \in Result : Quiet(r), TodoSound'
  PROVE  RecordsInv'
<1>1. MarksKept
  BY DEF MarksKept, Quiet
<1>2. HostSound' /\ \A r \in Result : HandedIn(r) => HandedIn(r)'
  BY <1>1, OthersKeepHosts DEF RecordsInv
<1>3. client' = client /\ fd' = fd /\ inputs' = inputs /\ file' = file
  BY DEF schedVars, deleterVars
<1>4. ToldSound'
  <2>1. ASSUME NEW r \in Result, AnyTold(r)' \/ FdOn(r)' \/ OutputGone(r)' PROVE HandedIn(r)'
    <3>1. AnyTold(r) \/ FdOn(r) \/ OutputGone(r)
      BY <1>3, <2>1 DEF Quiet, FdOn, OutputGone
    <3> QED
      BY <1>2, <3>1 DEF RecordsInv, ToldSound
  <2> QED
    BY <2>1 DEF ToldSound
<1>5. FilesSound'
  BY <1>3 DEF RecordsInv, FilesSound, Quiet
<1>6. AwaitingSound'
  BY <1>3 DEF RecordsInv, AwaitingSound, Quiet, FdOn
<1> QED
  BY <1>2, <1>4, <1>5, <1>6 DEF RecordsInv

LEMMA UnchangedRowsQuiet ==
  ASSUME RecordsInv, UNCHANGED res, NEW r \in Result,
         Told(tr'.items[r]) => AnyTold(r), Told(va'.items[r]) => AnyTold(r),
         tr'.items[r].file_delete_state = "DONE" => Deleted(r)
  PROVE  Quiet(r)
  BY DEF Quiet, AnyTold, Deleted, RecordsInv, AwaitingSound

LEMMA BlankRows == ~Told(UnusedRow) /\ ~Told(NewRow)
                   /\ UnusedRow.file_delete_state = "INIT" /\ NewRow.file_delete_state = "INIT"
                   /\ ~AwaitingRow(UnusedRow) /\ ~AwaitingRow(NewRow)
                   /\ ~UnusedRow.received /\ ~NewRow.received
  BY DEF UnusedRow, NewRow, Told, AwaitingRow, Success, Over

-----------------------------------------------------------------------------
(* The transitioner writes back only what its copy already said. *)

LEMMA TransitionerWriteQuiet ==
  ASSUME DBTypeOK, TrTypeOK, RecordsInv, UNCHANGED va,
         NEW r \in Result, NEW item \in ResultRow, TrWriteResult(r, item),
         tr'.items = [tr.items EXCEPT ![r] = item],
         Told(item) => Told(tr.items[r]),
         item.file_delete_state = "DONE" => tr.items[r].file_delete_state = "DONE",
         ~AwaitingRow(item)
  PROVE  \A q \in Result : Quiet(q)
<1>1. res \in [Result -> ResultRow] /\ tr.items \in [Result -> ResultRow]
  BY DEF DBTypeOK, TrTypeOK
<1>2. ASSUME NEW q \in Result, q # r PROVE Quiet(q)
  <2>1. res'[q] = res[q] /\ tr'.items[q] = tr.items[q]
    BY <1>1, <1>2 DEF TrWriteResult, SetRow
  <2> QED
    BY <2>1 DEF Quiet, AnyTold, Deleted, RecordsInv, AwaitingSound
<1>3. Quiet(r)
  <2>1. tr'.items[r] = item /\ va' = va
    BY <1>1
  <2>2. CASE res'[r] = res[r]
    BY <2>1, <2>2 DEF Quiet, AnyTold, Deleted, RecordsInv, AwaitingSound
  <2>3. CASE res'[r] # res[r]
    <3>1. /\ res'[r].received = res[r].received
          /\ res'[r].server_state = item.server_state /\ res'[r].outcome = item.outcome
          /\ res'[r].validate_state = item.validate_state
          /\ res'[r].file_delete_state = item.file_delete_state
      BY <1>1, <2>3 DEF TrWriteResult, SetRow, ResultRow
    <3>2. ~AwaitingRow(res'[r])
      BY <3>1 DEF AwaitingRow, Success, Over
    <3>3. AnyTold(r)' => AnyTold(r)
      BY <2>1, <3>1 DEF AnyTold, Told
    <3>4. Deleted(r)' => Deleted(r)
      BY <2>1, <3>1 DEF Deleted
    <3> QED
      BY <3>1, <3>2, <3>3, <3>4 DEF Quiet
  <2> QED
    BY <2>2, <2>3
<1> QED
  BY <1>2, <1>3

LEMMA TransitionerRecords ==
  ASSUME DBTypeOK, TrTypeOK, RecordsInv, StagesKept, TrNext,
         UNCHANGED <<va, schedVars, deleterVars>>
  PROVE  RecordsInv'
<1>1. res \in [Result -> ResultRow] /\ tr.items \in [Result -> ResultRow] /\ wu \in WuRow
  BY DEF DBTypeOK, TrTypeOK
<1>2. TodoSound'
  BY DEF RecordsInv, TodoSound
<1>3. ASSUME UNCHANGED <<res, file>>,
             \A r \in Result : tr'.items[r] \in {tr.items[r], res[r], UnusedRow},
             wu'.file_delete_state = "DONE" => wu.file_delete_state = "DONE"
      PROVE  RecordsInv'
  <2>1. ASSUME NEW r \in Result PROVE Quiet(r)
    <3>1. tr'.items[r] \in {tr.items[r], res[r], UnusedRow}
      BY <1>3
    <3>2. Told(tr'.items[r]) => AnyTold(r)
      BY <3>1, BlankRows DEF AnyTold
    <3>3. tr'.items[r].file_delete_state = "DONE" => Deleted(r)
      BY <3>1, BlankRows DEF Deleted
    <3>4. Told(va'.items[r]) => AnyTold(r)
      BY DEF AnyTold
    <3> QED
      BY <1>3, <3>2, <3>3, <3>4, UnchangedRowsQuiet
  <2> QED
    BY <1>2, <1>3, <2>1, QuietStep
<1>4. ASSUME NEW r \in Result, NEW item \in ResultRow, TrWriteResult(r, item),
             tr'.items = [tr.items EXCEPT ![r] = item],
             Told(item) => Told(tr.items[r]),
             item.file_delete_state = "DONE" => tr.items[r].file_delete_state = "DONE",
             ~AwaitingRow(item)
      PROVE  RecordsInv'
  <2>1. \A q \in Result : Quiet(q)
    BY <1>4, TransitionerWriteQuiet
  <2>2. UNCHANGED <<wu, file>>
    BY <1>4 DEF TrWriteResult
  <2> QED
    BY <1>2, <2>1, <2>2, QuietStep
<1>5. CASE TrEnumerate
  BY <1>3, <1>5 DEF TrEnumerate, TrIdle, dbVars
<1>6. CASE TrDecide
  <2>1. tr'.items = tr.items
    BY <1>6, Zenon DEF TrDecide, TrTypeOK
  <2> QED
    BY <1>3, <1>6, <2>1 DEF TrDecide, dbVars
<1>7. CASE TrCreate
  <2>1. tr'.items = tr.items /\ UNCHANGED <<wu, file>>
    BY <1>7 DEF TrCreate, TrTypeOK
  <2>2. ASSUME NEW r \in Result PROVE Quiet(r)
    <3>1. res'[r] = res[r] \/ (res'[r] = NewRow /\ res[r].server_state = "NONE")
      BY <1>7 DEF TrCreate, NextIds, Fresh
    <3>2. CASE res'[r] = res[r]
      BY <2>1, <3>2 DEF Quiet, AnyTold, Deleted, RecordsInv, AwaitingSound
    <3>3. CASE res'[r] = NewRow /\ res[r].server_state = "NONE"
      BY <2>1, <3>3, BlankRows DEF Quiet, AnyTold, Deleted, Ended
    <3> QED
      BY <3>1, <3>2, <3>3
  <2> QED
    BY <1>2, <2>1, <2>2, QuietStep
<1>8. CASE TrUpdateWorkunit
  <2>1. wu'.file_delete_state = "DONE" => wu.file_delete_state = "DONE"
    BY <1>1, <1>8 DEF TrUpdateWorkunit, SetWu, Changed, TrFileDelete, WuRow
  <2> QED
    BY <1>3, <1>8, <2>1 DEF TrUpdateWorkunit, TrIdle
<1>9. CASE TrCrash
  BY <1>3, <1>9 DEF TrCrash, TrIdle, dbVars
<1>10. ASSUME NEW r \in Result, TrTimeOut(r) PROVE RecordsInv'
  <2> DEFINE item == [tr.items[r] EXCEPT !.server_state = "OVER", !.outcome = "NO_REPLY"]
  <2>1. item \in ResultRow /\ item.outcome = "NO_REPLY"
        /\ item.validate_state = tr.items[r].validate_state
        /\ item.file_delete_state = tr.items[r].file_delete_state
    BY <1>1 DEF ResultRow, ServerState, Outcome
  <2>2. TrWriteResult(r, item) /\ tr'.items = [tr.items EXCEPT ![r] = item]
    BY <1>10 DEF TrTimeOut, TrTypeOK
  <2> HIDE DEF item
  <2> QED
    BY <1>4, <2>1, <2>2 DEF Told, AwaitingRow, Success
<1>11. ASSUME NEW r \in Result, TrTooLate(r) PROVE RecordsInv'
  <2> DEFINE item == [tr.items[r] EXCEPT !.validate_state = "TOO_LATE"]
  <2>1. item \in ResultRow /\ item.validate_state = "TOO_LATE"
        /\ item.outcome = tr.items[r].outcome
        /\ item.file_delete_state = tr.items[r].file_delete_state
    BY <1>1 DEF ResultRow, ValidateState
  <2>2. TrWriteResult(r, item) /\ tr'.items = [tr.items EXCEPT ![r] = item]
    BY <1>11 DEF TrTooLate, TrTypeOK
  <2>3. tr.items[r].outcome = "SUCCESS"
    BY <1>11 DEF TrTooLate, TooLate, Awaiting, Success
  <2> HIDE DEF item
  <2> QED
    BY <1>4, <2>1, <2>2, <2>3 DEF Told, AwaitingRow
<1>12. ASSUME NEW r \in Result, TrClose(r), r \in Unneeded PROVE RecordsInv'
  <2> DEFINE item == [tr.items[r] EXCEPT !.server_state = "OVER", !.outcome = "DIDNT_NEED"]
  <2>1. item \in ResultRow /\ item.outcome = "DIDNT_NEED"
        /\ item.validate_state = tr.items[r].validate_state
        /\ item.file_delete_state = tr.items[r].file_delete_state
    BY <1>1 DEF ResultRow, ServerState, Outcome
  <2>2. TrWriteResult(r, item) /\ tr'.items = [tr.items EXCEPT ![r] = item]
    BY <1>12 DEF TrClose, TrTypeOK
  <2> HIDE DEF item
  <2> QED
    BY <1>4, <2>1, <2>2 DEF Told, AwaitingRow, Success
<1>13. ASSUME NEW r \in Result, TrClose(r), r \notin Unneeded PROVE RecordsInv'
  <2> DEFINE item == [tr.items[r] EXCEPT !.validate_state = "NO_CHECK"]
  <2>1. item \in ResultRow /\ item.validate_state = "NO_CHECK"
        /\ item.outcome = tr.items[r].outcome
        /\ item.file_delete_state = tr.items[r].file_delete_state
    BY <1>1 DEF ResultRow, ValidateState
  <2>2. TrWriteResult(r, item) /\ tr'.items = [tr.items EXCEPT ![r] = item]
    BY <1>13 DEF TrClose, TrTypeOK
  <2>3. tr.items[r].outcome = "SUCCESS"
    BY <1>13 DEF TrClose, ToClose, Unchecked, Success
  <2> HIDE DEF item
  <2> QED
    BY <1>4, <2>1, <2>2, <2>3 DEF Told, AwaitingRow
<1>14. ASSUME NEW r \in Result, TrDelete(r) PROVE RecordsInv'
  <2> DEFINE item == [tr.items[r] EXCEPT !.file_delete_state = "READY"]
  <2>1. item \in ResultRow /\ item.file_delete_state = "READY"
        /\ item.outcome = tr.items[r].outcome
        /\ item.validate_state = tr.items[r].validate_state
    BY <1>1 DEF ResultRow, FileDelete
  <2>2. TrWriteResult(r, item) /\ tr'.items = [tr.items EXCEPT ![r] = item]
    BY <1>14 DEF TrDelete, TrTypeOK
  <2>3. \/ item.outcome = "CLIENT_ERROR"
        \/ item.outcome = "SUCCESS" /\ item.validate_state # "INIT"
    BY <1>14, <2>1 DEF TrDelete, Deletable
  <2> HIDE DEF item
  <2> QED
    BY <1>4, <2>1, <2>2, <2>3 DEF Told, AwaitingRow, Success
<1> QED
  BY <1>5, <1>6, <1>7, <1>8, <1>9, <1>10, <1>11, <1>12, <1>13, <1>14 DEF TrNext, TrStep

-----------------------------------------------------------------------------
(* The validator judges only successes, and writes no row it has not judged. *)

LEMMA ValidatorWriteQuiet ==
  ASSUME DBTypeOK, VaTypeOK, RecordsInv, UNCHANGED tr, va'.items = va.items,
         NEW r \in Result, NEW item \in ResultRow, VaWriteResult(r, item),
         Told(item) => AnyTold(r), ~AwaitingRow(item)
  PROVE  \A q \in Result : Quiet(q)
<1>1. res \in [Result -> ResultRow]
  BY DEF DBTypeOK
<1>2. ASSUME NEW q \in Result, res'[q] = res[q] PROVE Quiet(q)
  BY <1>2 DEF Quiet, AnyTold, Deleted, RecordsInv, AwaitingSound
<1>3. ASSUME res'[r] # res[r] PROVE Quiet(r)
  <2>1. /\ res'[r].received = res[r].received
        /\ res'[r].server_state = item.server_state /\ res'[r].outcome = item.outcome
        /\ res'[r].validate_state = item.validate_state
        /\ res'[r].file_delete_state = res[r].file_delete_state
    BY <1>1, <1>3 DEF VaWriteResult, SetRow, ResultRow
  <2>2. ~AwaitingRow(res'[r])
    BY <2>1 DEF AwaitingRow, Success, Over
  <2>3. AnyTold(r)' => AnyTold(r)
    BY <2>1 DEF AnyTold, Told
  <2>4. Deleted(r)' => Deleted(r)
    BY <2>1 DEF Deleted
  <2> QED
    BY <2>1, <2>2, <2>3, <2>4 DEF Quiet
<1>4. \A q \in Result : q # r => res'[q] = res[q]
  BY <1>1 DEF VaWriteResult, SetRow
<1>5. Quiet(r)
  BY <1>2, <1>3
<1>6. \A q \in Result : q # r => Quiet(q)
  BY <1>2, <1>4
<1> QED
  BY <1>5, <1>6

(* The rows check_set() leaves to be written have been judged. *)
LEMMA CheckedItemsJudged ==
  ASSUME VaTypeOK, NEW bad \in SUBSET SuccessItems, NEW unseen, NEW c, NEW r \in Result
  PROVE  LET item == CheckedItems(bad, unseen, c)[r]
         IN  /\ Told(item) => Told(va.items[r])
             /\ item # va.items[r] \/ r \in SuccessItems => ~AwaitingRow(item)
<1> DEFINE off == [va.items[r] EXCEPT !.server_state = "OVER", !.outcome = "DIDNT_NEED"]
           checked == Checked(r, bad, unseen, c)
<1>1. va.items[r] \in ResultRow
  BY DEF VaTypeOK
<1>2. CASE r \in SuccessItems
  <2>1. Told(va.items[r])
    BY <1>2 DEF SuccessItems, Success, Told
  <2>2. checked.outcome = "VALIDATE_ERROR" \/ checked.validate_state # "INIT"
    BY <1>1 DEF Checked, ResultRow
  <2>3. CheckedItems(bad, unseen, c)[r] = checked
    BY <1>2 DEF CheckedItems
  <2> HIDE DEF checked
  <2> QED
    BY <2>1, <2>2, <2>3 DEF AwaitingRow, Success
<1>3. CASE r \notin SuccessItems /\ r \in CalledOff(c)
  <2>1. CheckedItems(bad, unseen, c)[r] = off
    BY <1>3 DEF CheckedItems
  <2>2. /\ off.outcome = "DIDNT_NEED" /\ off.validate_state = va.items[r].validate_state
        /\ off.file_delete_state = va.items[r].file_delete_state
    BY <1>1 DEF ResultRow
  <2> HIDE DEF off
  <2> QED
    BY <2>1, <2>2 DEF Told, AwaitingRow, Success
<1>4. CASE r \notin SuccessItems /\ r \notin CalledOff(c)
  BY <1>4 DEF CheckedItems
<1> QED
  BY <1>2, <1>3, <1>4

LEMMA ValidatorRecords ==
  ASSUME DBTypeOK, VaTypeOK, RecordsInv, StagesKept, VaNext,
         UNCHANGED <<tr, schedVars, deleterVars>>
  PROVE  RecordsInv'
<1>1. res \in [Result -> ResultRow] /\ va.items \in [Result -> ResultRow] /\ wu \in WuRow
  BY DEF DBTypeOK, VaTypeOK
<1>2. TodoSound
  BY DEF RecordsInv
<1>3. ASSUME UNCHANGED <<res, file>>, TodoSound',
             \A r \in Result : Told(va'.items[r]) => AnyTold(r),
             wu'.file_delete_state = "DONE" => wu.file_delete_state = "DONE"
      PROVE  RecordsInv'
  <2>1. ASSUME NEW r \in Result PROVE Quiet(r)
    BY <1>3, UnchangedRowsQuiet DEF AnyTold, Deleted
  <2> QED
    BY <1>3, <2>1, QuietStep
<1>4. ASSUME UNCHANGED dbVars, va' = VaIdle PROVE RecordsInv'
  BY <1>3, <1>4, BlankRows DEF VaIdle, dbVars, TodoSound
<1>5. ASSUME va'.items = va.items, va'.todo \subseteq va.todo,
             va'.pc \in {va.pc, "leave"}
      PROVE  TodoSound'
  BY <1>2, <1>5 DEF TodoSound
<1>6. ASSUME UNCHANGED dbVars, va'.items = va.items, va'.todo \subseteq va.todo,
             va'.pc \in {va.pc, "leave"}
      PROVE  RecordsInv'
  BY <1>3, <1>5, <1>6 DEF dbVars, AnyTold
<1>7. ASSUME NEW r \in Result, NEW item \in ResultRow, VaWriteResult(r, item),
             Told(item) => AnyTold(r), ~AwaitingRow(item),
             va'.items = va.items, va'.todo \subseteq va.todo, va'.pc = va.pc
      PROVE  RecordsInv'
  <2>1. \A q \in Result : Quiet(q)
    BY <1>7, ValidatorWriteQuiet
  <2>2. UNCHANGED <<wu, file>>
    BY <1>7 DEF VaWriteResult
  <2> QED
    BY <1>5, <1>7, <2>1, <2>2, QuietStep
<1>8. CASE VaEnumerate
  <2>1. va'.pc = "fetched" /\ va'.items = res /\ \A r \in va'.todo : Success(va'.items[r])
    BY <1>8 DEF VaEnumerate, VaIdle
  <2> QED
    BY <1>3, <1>8, <2>1 DEF VaEnumerate, dbVars, TodoSound, AnyTold
<1>9. CASE VaNoCanonicalRow \/ VaCrash
  BY <1>4, <1>9 DEF VaNoCanonicalRow, VaCrash
<1>10. CASE VaCheckSet
  <2>1. PICK unseen, bad \in SUBSET SuccessItems : va' = AfterCheckSet(bad, unseen)
    BY <1>10 DEF VaCheckSet
  <2> DEFINE c == ChosenCanonical(SuccessItems \ (bad \cup unseen))
             items == CheckedItems(bad, unseen, c)
  <2>2. /\ va'.pc = "write" /\ va'.items = items
        /\ \A r \in va'.todo : r \in Result /\ (items[r] # va.items[r] \/ r \in SuccessItems)
    BY <2>1 DEF AfterCheckSet, VaTypeOK
  <2>3. \A r \in Result : /\ Told(items[r]) => Told(va.items[r])
                          /\ items[r] # va.items[r] \/ r \in SuccessItems => ~AwaitingRow(items[r])
    BY CheckedItemsJudged
  <2> HIDE DEF items
  <2>4. TodoSound'
    BY <2>2, <2>3 DEF TodoSound
  <2> QED
    BY <1>3, <1>10, <2>2, <2>3, <2>4 DEF VaCheckSet, dbVars, AnyTold
<1>11. CASE VaNoQuorum
  BY <1>6, <1>11 DEF VaNoQuorum, VaTypeOK
<1>12. CASE VaUpdateWorkunit
  <2>1. wu'.file_delete_state = wu.file_delete_state
    BY <1>1, <1>12 DEF VaUpdateWorkunit, SetWu, WuRow
  <2> QED
    BY <1>3, <1>12, <2>1, BlankRows DEF VaUpdateWorkunit, VaIdle, TodoSound
<1>13. CASE VaRetryPair
  BY <1>6, <1>13 DEF VaRetryPair, VaTypeOK
<1>14. ASSUME NEW r \in Result, VaCheckPair(r) PROVE RecordsInv'
  <2>1. va.items[r] \in ResultRow /\ Success(va.items[r])
    BY <1>1, <1>2, <1>14 DEF VaCheckPair, HasCanonical, TodoSound
  <2>2. PICK item \in ResultRow : ~AwaitingRow(item) /\ VaWriteResult(r, item)
    BY <1>14, <2>1 DEF VaCheckPair, ResultRow, Outcome, ValidateState, AwaitingRow, Success
  <2>3. AnyTold(r)
    BY <2>1 DEF AnyTold, Told, Success
  <2> QED
    BY <1>7, <1>14, <2>2, <2>3 DEF VaCheckPair, VaTypeOK
<1>15. ASSUME NEW r \in Result, VaUpdateResult(r) PROVE RecordsInv'
  <2>1. va.items[r] \in ResultRow /\ ~AwaitingRow(va.items[r])
    BY <1>1, <1>2, <1>15 DEF VaUpdateResult, TodoSound
  <2> QED
    BY <1>7, <1>15, <2>1 DEF VaUpdateResult, VaTypeOK, AnyTold
<1>16. ASSUME NEW r \in Result, VaSkipPair(r) \/ VaSkipResult(r) PROVE RecordsInv'
  BY <1>6, <1>16 DEF VaSkipPair, VaSkipResult, VaTypeOK
<1> QED
  BY <1>8, <1>9, <1>10, <1>11, <1>12, <1>13, <1>14, <1>15, <1>16 DEF VaNext, VaStep

-----------------------------------------------------------------------------
(* The file deleter works on results that were handed in. *)

LEMMA FileDeleterRecords ==
  ASSUME DBTypeOK, FdTypeOK, RecordsInv, StagesKept, FdNext,
         UNCHANGED <<tr, va, schedVars>>
  PROVE  RecordsInv'
<1>1. res \in [Result -> ResultRow] /\ wu \in WuRow /\ file \in [Result -> Answers \cup {"none"}]
      /\ fd.id \in Result \cup {0} /\ 0 \notin Result
  BY DEF DBTypeOK, FdTypeOK, Result
<1>2. client' = client /\ cgi' = cgi /\ TodoSound'
  BY DEF schedVars, RecordsInv, TodoSound
<1>3. CASE FdEnumerate
  <2>1. UNCHANGED <<wu, res, file, inputs>> /\ fd'.pc = "fetched"
        /\ (fd'.id \in Result => res[fd'.id].file_delete_state # "INIT")
    BY <1>1, <1>3 DEF FdEnumerate, dbVars
  <2>2. HostSound' /\ \A r \in Result : HandedIn(r) <=> HandedIn(r)'
    BY <1>2, <2>1 DEF RecordsInv, HostSound, HandedIn, Ended
  <2>3. ToldSound'
    <3>1. ASSUME NEW r \in Result, AnyTold(r)' \/ FdOn(r)' \/ OutputGone(r)'
          PROVE  AnyTold(r) \/ OutputGone(r)
      BY <1>2, <2>1, <3>1 DEF AnyTold, FdOn, OutputGone, Told
    <3> QED
      BY <2>2, <3>1 DEF RecordsInv, ToldSound
  <2>4. FilesSound'
    BY <2>1 DEF RecordsInv, FilesSound, Deleted
  <2>5. AwaitingSound'
    BY <2>1 DEF RecordsInv, AwaitingSound, FdOn
  <2> QED
    BY <1>2, <2>2, <2>3, <2>4, <2>5 DEF RecordsInv
<1>4. CASE FdUnlink
  <2>1. /\ UNCHANGED <<wu, res>> /\ fd.pc = "fetched" /\ fd'.id = fd.id
        /\ fd'.pc \in {"done", "failed"}
        /\ (fd'.pc = "done" => IF fd.id = 0 THEN ~inputs' ELSE file'[fd.id] = "none")
        /\ (inputs' = inputs \/ inputs' = FALSE)
    BY <1>1, <1>4 DEF FdUnlink, FdTypeOK
  <2>2. \A r \in Result : file'[r] = file[r] \/ (fd.id = r /\ file'[r] = "none")
    BY <1>1, <1>4 DEF FdUnlink
  <2>3. HostSound' /\ \A r \in Result : HandedIn(r) <=> HandedIn(r)'
    BY <1>2, <2>1 DEF RecordsInv, HostSound, HandedIn, Ended
  <2>4. ToldSound'
    <3>1. ASSUME NEW r \in Result, AnyTold(r)' \/ FdOn(r)' \/ OutputGone(r)'
          PROVE  AnyTold(r) \/ FdOn(r) \/ OutputGone(r)
      BY <1>2, <2>1, <2>2, <3>1 DEF AnyTold, FdOn, OutputGone
    <3> QED
      BY <2>3, <3>1 DEF RecordsInv, ToldSound
  <2>5. FilesSound'
    BY <2>1, <2>2 DEF RecordsInv, FilesSound, Deleted
  <2>6. AwaitingSound'
    BY <2>1, <2>2 DEF RecordsInv, AwaitingSound, FdOn
  <2> QED
    BY <1>2, <2>3, <2>4, <2>5, <2>6 DEF RecordsInv
<1>5. CASE FdUpdate
  <2>1. /\ UNCHANGED <<file, inputs>> /\ fd'.pc = "idle" /\ fd.pc \in {"done", "failed"}
        /\ (FdOutcome = "DONE" => fd.pc = "done")
    BY <1>5 DEF FdUpdate, FdIdle, deleterVars, FdOutcome
  <2>2. wu'.file_delete_state = "DONE" =>
          wu.file_delete_state = "DONE" \/ (fd.pc = "done" /\ fd.id = 0)
    BY <1>1, <1>5, <2>1 DEF FdUpdate, SetWu, WuRow
  <2>3. ASSUME NEW r \in Result
        PROVE  /\ res'[r].server_state = res[r].server_state
               /\ res'[r].outcome = res[r].outcome
               /\ res'[r].validate_state = res[r].validate_state
               /\ res'[r].received = res[r].received
               /\ \/ res'[r].file_delete_state = res[r].file_delete_state
                  \/ fd.id = r /\ res'[r].file_delete_state = FdOutcome
    BY <1>1, <1>5 DEF FdUpdate, SetRow, ResultRow
  <2>4. HostSound' /\ \A r \in Result : HandedIn(r) <=> HandedIn(r)'
    BY <1>2, <2>3 DEF RecordsInv, HostSound, HandedIn, Ended
  <2>5. ToldSound'
    <3>1. ASSUME NEW r \in Result, AnyTold(r)' \/ FdOn(r)' \/ OutputGone(r)'
          PROVE  AnyTold(r) \/ FdOn(r) \/ OutputGone(r)
      BY <1>2, <2>1, <2>3, <3>1 DEF AnyTold, FdOn, OutputGone, Told
    <3> QED
      BY <2>4, <3>1 DEF RecordsInv, ToldSound
  <2>6. FilesSound'
    BY <1>1, <2>1, <2>2, <2>3 DEF RecordsInv, FilesSound, Deleted
  <2>7. AwaitingSound'
    BY <2>1, <2>3 DEF RecordsInv, AwaitingSound, FdOn, AwaitingRow, Success, Over
  <2> QED
    BY <1>2, <2>4, <2>5, <2>6, <2>7 DEF RecordsInv
<1>6. CASE FdCrash
  <2>1. UNCHANGED <<wu, res, file, inputs>> /\ fd'.pc = "idle"
    BY <1>6 DEF FdCrash, FdIdle, dbVars
  <2>2. HostSound' /\ ToldSound'
    BY <1>2, <2>1 DEF RecordsInv, HostSound, ToldSound, HandedIn, Ended, AnyTold, FdOn, OutputGone
  <2>3. FilesSound' /\ AwaitingSound'
    BY <2>1 DEF RecordsInv, FilesSound, AwaitingSound, Deleted, FdOn
  <2> QED
    BY <1>2, <2>2, <2>3 DEF RecordsInv
<1> QED
  BY <1>3, <1>4, <1>5, <1>6 DEF FdNext, FdStep

(* The purger removes rows, and nothing else that matters here. *)
LEMMA PurgerRecords ==
  ASSUME DBTypeOK, FdTypeOK, RecordsInv, StagesKept, PurgeNext,
         UNCHANGED <<tr, va, schedVars>>
  PROVE  RecordsInv'
<1>1. res \in [Result -> ResultRow] /\ wu \in WuRow
  BY DEF DBTypeOK
<1>2. client' = client /\ cgi' = cgi /\ TodoSound'
  BY DEF schedVars, RecordsInv, TodoSound
<1>3. UNCHANGED <<fd, inputs, file>> /\ wu'.file_delete_state = wu.file_delete_state
  BY <1>1 DEF PurgeNext, PurgeStep, PurgeEnumerate, PurgeQuery, PurgeResult, PurgeSkip,
     PurgeJob, PurgeCrash, dbVars, WuRow
<1>4. ASSUME NEW r \in Result
      PROVE  \/ res'[r] = res[r]
             \/ res'[r] = [UnusedRow EXCEPT !.server_state = "PURGED"]
  BY <1>1 DEF PurgeNext, PurgeStep, PurgeEnumerate, PurgeQuery, PurgeResult, PurgeSkip,
     PurgeJob, PurgeCrash, dbVars, SetRow, FdTypeOK
<1>5. ASSUME NEW r \in Result
      PROVE  \/ res'[r] = res[r]
             \/ /\ res'[r].server_state = "PURGED" /\ ~res'[r].received /\ ~Told(res'[r])
                /\ res'[r].file_delete_state = "INIT"
  BY <1>4 DEF UnusedRow, Told
<1>6. MarksKept
  BY <1>5 DEF MarksKept
<1>7. HostSound' /\ \A r \in Result : HandedIn(r) => HandedIn(r)'
  BY <1>6, OthersKeepHosts DEF RecordsInv
<1>8. ToldSound'
  <2>1. ASSUME NEW r \in Result, AnyTold(r)' \/ FdOn(r)' \/ OutputGone(r)'
        PROVE  AnyTold(r) \/ FdOn(r) \/ OutputGone(r)
    BY <1>2, <1>3, <1>5, <2>1 DEF AnyTold, FdOn, OutputGone
  <2> QED
    BY <1>7, <2>1 DEF RecordsInv, ToldSound
<1>9. FilesSound'
  BY <1>3, <1>5 DEF RecordsInv, FilesSound, Deleted
<1>10. AwaitingSound'
  BY <1>3, <1>5 DEF RecordsInv, AwaitingSound, FdOn, AwaitingRow, Success, Over
<1> QED
  BY <1>2, <1>7, <1>8, <1>9, <1>10 DEF RecordsInv

-----------------------------------------------------------------------------
(* The scheduler and the hosts: the one place where reports are written. *)

(* What a request writes to the marks of a result does not hand it back. *)
LEMMA HandedInKept ==
  ASSUME StagesKept, NEW r \in Result, HandedIn(r),
         res[r].received => res'[r].received, cgi'[r].pc # "report",
         client'[r] \notin {"none", "computing"}
  PROVE  HandedIn(r)'
  BY DEF HandedIn, StagesKept

LEMMA SchedulerRecords ==
  ASSUME DBTypeOK, SchedTypeOK, FdTypeOK, RecordsInv, StagesKept, SchedNext,
         UNCHANGED <<tr, va, deleterVars>>
  PROVE  RecordsInv'
<1>1. PICK r \in Result :
        \/ SendCheck(r) \/ ResendCheck(r) \/ ReportCheck(r) \/ DetachCheck(r)
        \/ CgiStep(r) \/ CgiCrash(r) \/ ClientFinish(r) \/ ClientLoses(r)
  BY DEF SchedNext
<1>2. /\ res \in [Result -> ResultRow] /\ wu \in WuRow
      /\ file \in [Result -> Answers \cup {"none"}]
      /\ cgi \in [Result -> [pc : CgiPc, validate_state : ValidateState]]
      /\ client \in [Result -> ClientState]
      /\ fd.id \in Result \cup {0} /\ 0 \notin Result
  BY DEF DBTypeOK, SchedTypeOK, FdTypeOK, Result
<1>3. TodoSound' /\ fd' = fd /\ inputs' = inputs /\ tr' = tr /\ va' = va
  BY DEF RecordsInv, TodoSound, deleterVars
<1>4. wu'.file_delete_state = wu.file_delete_state
  BY <1>1, <1>2 DEF CgiStep, SendCheck, ResendCheck, ReportCheck, DetachCheck,
     SendJob, SendMark, ResendJob, ResendMark, ExpireMark, ExpireJob, ReportRow, ReportJob,
     DetachRow, DetachJob, CgiCrash, ClientFinish, ClientLoses, SetWu, dbVars, WuRow
<1>5. HostSound /\ ToldSound /\ FilesSound /\ AwaitingSound
  BY DEF RecordsInv
(* Whatever a step of one request does, the other results stay as they are. *)
<1>6. ASSUME NEW q \in Result, q # r
      PROVE  res'[q] = res[q] /\ file'[q] = file[q] /\ cgi'[q] = cgi[q] /\ client'[q] = client[q]
  BY <1>1, <1>2, <1>6 DEF CgiStep, SendCheck, ResendCheck, ReportCheck, DetachCheck,
     SendJob, SendMark, ResendJob, ResendMark, ExpireMark, ExpireJob, ReportRow, ReportJob,
     DetachRow, DetachJob, CgiCrash, ClientFinish, ClientLoses, Acknowledge, CgiGoes, CgiEnds,
     SetRow, dbVars
<1> DEFINE HostOK == /\ client[r] # "none" => res[r].server_state \notin {"NONE", "UNSENT"}
                     /\ res[r].received => Ended(r)
                     /\ cgi[r].pc = "reported" => Ended(r)
                     /\ cgi[r].pc = "report" => /\ client[r] \in {"success", "error"}
                                                /\ cgi[r].validate_state = "INIT"
                     /\ client[r] = "acked" => Ended(r)
           ToldOK == AnyTold(r) \/ FdOn(r) \/ OutputGone(r) => HandedIn(r)
           FileOK == Deleted(r) \/ (FdOn(r) /\ fd.pc = "done") => file[r] = "none"
           AwaitOK == AwaitingRow(res[r]) =>
                        res[r].file_delete_state = "INIT" /\ ~FdOn(r) /\ file[r] # "none"
<1>7. HostOK /\ ToldOK /\ FileOK /\ AwaitOK
  BY <1>2, <1>5 DEF HostSound, ToldSound, FilesSound, AwaitingSound, FdOn
(* So it is enough to look at the result of the request. *)
<1>8. ASSUME HostOK', ToldOK', FileOK', AwaitOK' PROVE RecordsInv'
  <2>1. HostSound'
    BY <1>5, <1>6, <1>8 DEF HostSound, Ended
  <2>2. ToldSound'
    BY <1>3, <1>5, <1>6, <1>8 DEF ToldSound, AnyTold, FdOn, OutputGone, HandedIn, Ended
  <2>3. FilesSound'
    <3>1. ASSUME NEW q \in Result, Deleted(q)' PROVE file'[q] = "none"
      BY <1>3, <1>5, <1>6, <1>8, <3>1 DEF FilesSound, Deleted
    <3>2. ASSUME fd'.pc = "done" PROVE IF fd'.id = 0 THEN ~inputs' ELSE file'[fd'.id] = "none"
      <4>1. CASE fd.id = r
        BY <1>2, <1>3, <1>8, <3>2, <4>1 DEF FdOn
      <4>2. CASE fd.id # r
        BY <1>2, <1>3, <1>5, <1>6, <3>2, <4>2 DEF FilesSound
      <4> QED
        BY <4>1, <4>2
    <3> QED
      BY <1>3, <1>4, <1>5, <3>1, <3>2 DEF FilesSound
  <2>4. AwaitingSound'
    BY <1>3, <1>5, <1>6, <1>8 DEF AwaitingSound, FdOn
  <2> QED
    BY <1>3, <2>1, <2>2, <2>3, <2>4 DEF RecordsInv
<1>9. res[r] \in ResultRow /\ cgi[r] \in [pc : CgiPc, validate_state : ValidateState]
  BY <1>2
<1>10. /\ Ended(r) => Ended(r)'
       /\ res[r].server_state = "PURGED" => res'[r].server_state = "PURGED"
       /\ res[r].server_state \notin {"NONE", "UNSENT"}
            => res'[r].server_state \notin {"NONE", "UNSENT"}
  BY DEF StagesKept
<1> HIDE DEF HostOK, ToldOK, FileOK, AwaitOK
(* The row says as much as before and the file is there or not as before. *)
<1>11. ASSUME UNCHANGED file, res'[r].outcome = res[r].outcome,
              res'[r].validate_state = res[r].validate_state,
              res'[r].file_delete_state = res[r].file_delete_state,
              res'[r].received = res[r].received,
              AwaitingRow(res'[r]) => AwaitingRow(res[r]),
              OutputGone(r)' => OutputGone(r),
              HandedIn(r) => cgi'[r].pc # "report" /\ client'[r] \notin {"none", "computing"}
       PROVE  ToldOK' /\ FileOK' /\ AwaitOK'
  <2>1. ToldOK'
    BY <1>3, <1>7, <1>11, HandedInKept DEF ToldOK, AnyTold, Told, FdOn
  <2>2. FileOK' /\ AwaitOK'
    BY <1>3, <1>7, <1>11 DEF FileOK, AwaitOK, Deleted, FdOn
  <2> QED
    BY <2>1, <2>2
<1>12. CASE SendCheck(r) \/ ResendCheck(r)
  <2>1. UNCHANGED <<res, file, client>> /\ cgi'[r].pc \in {"send", "resend", "expire"}
    BY <1>2, <1>12 DEF SendCheck, ResendCheck, CgiGoes, dbVars
  <2>2. HostOK'
    BY <1>7, <2>1 DEF HostOK, Ended
  <2>3. ToldOK' /\ FileOK' /\ AwaitOK'
    BY <1>11, <2>1 DEF OutputGone, HandedIn
  <2> QED
    BY <1>8, <2>2, <2>3
<1>13. CASE DetachCheck(r) \/ DetachJob(r) \/ CgiCrash(r)
  <2>1. UNCHANGED <<res, file, client>> /\ (cgi'[r] = cgi[r] \/ cgi'[r].pc = "idle")
    BY <1>2, <1>13 DEF DetachCheck, DetachJob, CgiCrash, CgiEnds, CgiIdle, dbVars
  <2>2. HostOK'
    BY <1>7, <2>1 DEF HostOK, Ended
  <2>3. ToldOK' /\ FileOK' /\ AwaitOK'
    BY <1>11, <2>1 DEF OutputGone, HandedIn
  <2> QED
    BY <1>8, <2>2, <2>3
<1>14. CASE ReportCheck(r)
  <2>1. CASE Accepts(res[r])
    <3>1. UNCHANGED <<res, file, client>> /\ cgi'[r].pc = "report"
          /\ cgi'[r].validate_state = res[r].validate_state
          /\ client[r] \in {"success", "error"}
      BY <1>2, <1>14, <2>1 DEF ReportCheck, dbVars
    <3>2. ~HandedIn(r)
      BY <2>1 DEF Accepts, Over, HandedIn
    <3>3. HostOK'
      <4>1. res[r].validate_state = "INIT"
        BY <1>7, <3>2 DEF ToldOK, AnyTold, Told
      <4> QED
        BY <1>7, <3>1, <4>1 DEF HostOK, Ended
    <3>4. ToldOK' /\ FileOK' /\ AwaitOK'
      BY <1>11, <3>1, <3>2 DEF OutputGone
    <3> QED
      BY <1>8, <3>3, <3>4
  <2>2. CASE ~Accepts(res[r])
    <3>1. UNCHANGED <<res, file, cgi>> /\ client[r] \in {"success", "error"}
          /\ client'[r] \in {client[r], "acked"} /\ cgi[r].pc = "idle"
      BY <1>2, <1>14, <2>2 DEF ReportCheck, Acknowledge, dbVars
    <3>2. Ended(r)
      BY <1>7, <1>9, <2>2, <3>1
         DEF HostOK, Accepts, Over, Ended, ResultRow, ServerState
    <3>3. HostOK'
      BY <1>7, <3>1, <3>2 DEF HostOK, Ended
    <3>4. ToldOK' /\ FileOK' /\ AwaitOK'
      BY <1>11, <3>1 DEF OutputGone
    <3> QED
      BY <1>8, <3>3, <3>4
  <2> QED
    BY <2>1, <2>2
<1>15. CASE SendJob(r) \/ ResendJob(r) \/ ExpireJob(r)
  <2>1. UNCHANGED <<res, file, client>> /\ cgi'[r].pc \in {"mark", "remark", "idle"}
    BY <1>2, <1>15 DEF SendJob, ResendJob, ExpireJob, CgiGoes, CgiEnds, CgiIdle
  <2>2. HostOK'
    BY <1>7, <2>1 DEF HostOK, Ended
  <2>3. ToldOK' /\ FileOK' /\ AwaitOK'
    BY <1>11, <2>1 DEF OutputGone, HandedIn
  <2> QED
    BY <1>8, <2>2, <2>3
<1>16. CASE SendMark(r) \/ ResendMark(r)
  <2>1. UNCHANGED file /\ cgi'[r].pc = "idle"
    BY <1>2, <1>16 DEF SendMark, ResendMark, CgiEnds, CgiIdle
  <2>2. CASE UNCHANGED <<res, client>>
    <3>1. HostOK'
      BY <1>7, <2>1, <2>2 DEF HostOK, Ended
    <3>2. ToldOK' /\ FileOK' /\ AwaitOK'
      BY <1>11, <2>1, <2>2 DEF OutputGone, HandedIn
    <3> QED
      BY <1>8, <3>1, <3>2
  <2>3. CASE ~UNCHANGED <<res, client>>
    <3>1. /\ res[r].server_state \in {"UNSENT", "IN_PROGRESS"}
          /\ res'[r].server_state = "IN_PROGRESS"
          /\ res'[r].outcome = res[r].outcome
          /\ res'[r].validate_state = res[r].validate_state
          /\ res'[r].file_delete_state = res[r].file_delete_state
          /\ res'[r].received = res[r].received
          /\ client'[r] \in {"computing", "lost"}
      BY <1>2, <1>9, <1>16, <2>3 DEF SendMark, ResendMark, Delivered, ResultRow
    <3>2. HostOK'
      BY <1>7, <1>10, <2>1, <3>1 DEF HostOK, Ended
    <3>3. ToldOK' /\ FileOK' /\ AwaitOK'
      BY <1>11, <2>1, <3>1 DEF OutputGone, HandedIn, Ended, AwaitingRow, Success, Over
    <3> QED
      BY <1>8, <3>2, <3>3
  <2> QED
    BY <2>2, <2>3
<1>17. CASE ExpireMark(r)
  <2>1. /\ UNCHANGED <<file, client>> /\ cgi'[r].pc \in {"expired", "idle"}
        /\ res'[r].server_state = res[r].server_state
        /\ res'[r].outcome = res[r].outcome
        /\ res'[r].validate_state = res[r].validate_state
        /\ res'[r].file_delete_state = res[r].file_delete_state
        /\ res'[r].received = res[r].received
    BY <1>2, <1>9, <1>17 DEF ExpireMark, CgiGoes, CgiEnds, CgiIdle, ResultRow
  <2>2. HostOK'
    BY <1>7, <2>1 DEF HostOK, Ended
  <2>3. ToldOK' /\ FileOK' /\ AwaitOK'
    BY <1>11, <2>1 DEF OutputGone, HandedIn, AwaitingRow, Success, Over
  <2> QED
    BY <1>8, <2>2, <2>3
<1>18. CASE ReportRow(r)
  <2>1. /\ UNCHANGED <<file, client>> /\ cgi[r].pc = "report"
        /\ cgi'[r].pc = IF Exists(res[r]) THEN "reported" ELSE "failed"
        /\ client[r] \in {"success", "error"}
    BY <1>2, <1>7, <1>18 DEF ReportRow, CgiGoes, HostOK
  <2>2. ~AnyTold(r) /\ ~FdOn(r) /\ ~OutputGone(r)
    BY <1>7, <2>1 DEF ToldOK, HandedIn
  <2>3. CASE Exists(res[r])
    <3>1. /\ res'[r].server_state = "OVER" /\ res'[r].received
          /\ res'[r].outcome = IF client[r] = "success" THEN "SUCCESS" ELSE "CLIENT_ERROR"
          /\ res'[r].file_delete_state = res[r].file_delete_state
      BY <1>2, <1>9, <1>18, <2>3 DEF ReportRow, SetRow, Reported, ResultRow
    <3>2. HostOK' /\ HandedIn(r)'
      BY <1>7, <2>1, <2>3, <3>1 DEF HostOK, HandedIn, Ended
    <3>3. FileOK'
      BY <1>3, <1>7, <2>1, <2>2, <3>1 DEF FileOK, Deleted, FdOn
    <3>4. AwaitOK'
      BY <1>3, <2>1, <2>2, <3>1
         DEF AwaitOK, AnyTold, Told, FdOn, OutputGone, AwaitingRow, Success
    <3>5. ToldOK'
      BY <3>2 DEF ToldOK
    <3> QED
      BY <1>8, <3>2, <3>3, <3>4, <3>5
  <2>4. CASE ~Exists(res[r])
    <3>1. UNCHANGED res /\ cgi'[r].pc = "failed"
      BY <1>18, <2>1, <2>4 DEF ReportRow, SetRow
    <3>2. HostOK'
      BY <1>7, <2>1, <3>1 DEF HostOK, Ended
    <3>3. ToldOK' /\ FileOK' /\ AwaitOK'
      BY <1>11, <2>1, <3>1 DEF OutputGone, HandedIn
    <3> QED
      BY <1>8, <3>2, <3>3
  <2> QED
    BY <2>3, <2>4
<1>19. CASE ReportJob(r)
  <2>1. /\ UNCHANGED <<res, file>> /\ cgi'[r].pc = "idle"
        /\ client'[r] = client[r] \/ (client'[r] = "acked" /\ cgi[r].pc = "reported")
    BY <1>2, <1>19 DEF ReportJob, Acknowledge, CgiEnds, CgiIdle
  <2>2. HostOK'
    BY <1>7, <2>1 DEF HostOK, Ended
  <2>3. ToldOK' /\ FileOK' /\ AwaitOK'
    BY <1>11, <2>1 DEF OutputGone, HandedIn
  <2> QED
    BY <1>8, <2>2, <2>3
<1>20. CASE DetachRow(r)
  <2>1. UNCHANGED <<file, client, cgi>>
    BY <1>20 DEF DetachRow
  <2>2. CASE Exists(res[r])
    <3>1. /\ res'[r].server_state = "OVER" /\ res'[r].received
          /\ res'[r].outcome = "CLIENT_DETACHED"
          /\ res'[r].validate_state = res[r].validate_state
          /\ res'[r].file_delete_state = res[r].file_delete_state
      BY <1>2, <1>9, <1>20, <2>2 DEF DetachRow, SetRow, ResultRow
    <3>2. HostOK'
      BY <1>7, <1>10, <2>1, <3>1 DEF HostOK, Ended
    <3>3. ToldOK'
      BY <1>3, <1>7, <2>1, <3>1, HandedInKept
         DEF ToldOK, AnyTold, Told, FdOn, OutputGone, HandedIn
    <3>4. FileOK' /\ AwaitOK'
      BY <1>3, <1>7, <2>1, <3>1 DEF FileOK, AwaitOK, Deleted, FdOn, AwaitingRow, Success
    <3> QED
      BY <1>8, <3>2, <3>3, <3>4
  <2>3. CASE ~Exists(res[r])
    <3>1. UNCHANGED res
      BY <1>20, <2>3 DEF DetachRow, SetRow
    <3>2. HostOK'
      BY <1>7, <2>1, <3>1 DEF HostOK, Ended
    <3>3. ToldOK' /\ FileOK' /\ AwaitOK'
      BY <1>11, <2>1, <3>1 DEF OutputGone, HandedIn
    <3> QED
      BY <1>8, <3>2, <3>3
  <2> QED
    BY <2>2, <2>3
<1>21. CASE ClientFinish(r)
  <2>1. /\ UNCHANGED <<res, cgi>> /\ client[r] = "computing" /\ client'[r] \in {"success", "error"}
        /\ client'[r] = "success" => file'[r] # "none"
        /\ file'[r] = file[r] \/ file'[r] # "none"
    BY <1>2, <1>21, BackendAssumption DEF ClientFinish
  <2>2. ~AnyTold(r) /\ ~FdOn(r)
    BY <1>7, <2>1 DEF ToldOK, HandedIn
  <2>3. HostOK'
    BY <1>7, <2>1 DEF HostOK, Ended
  <2>4. ToldOK' /\ FileOK' /\ AwaitOK'
    BY <1>3, <2>1, <2>2 DEF ToldOK, FileOK, AwaitOK, AnyTold, Deleted, Told, FdOn, OutputGone,
       AwaitingRow, Success
  <2> QED
    BY <1>8, <2>3, <2>4
<1>22. CASE ClientLoses(r)
  <2>1. UNCHANGED <<res, file, cgi>> /\ client[r] # "none" /\ client'[r] = "lost"
        /\ cgi[r].pc = "idle"
    BY <1>2, <1>22 DEF ClientLoses, dbVars
  <2>2. HostOK'
    BY <1>7, <2>1 DEF HostOK, Ended
  <2>3. ToldOK' /\ FileOK' /\ AwaitOK'
    BY <1>11, <2>1 DEF OutputGone
  <2> QED
    BY <1>8, <2>2, <2>3
<1> QED
  BY <1>1, <1>12, <1>13, <1>14, <1>15, <1>16, <1>17, <1>18, <1>19, <1>20, <1>21, <1>22 DEF CgiStep

-----------------------------------------------------------------------------
(* The whole back end. *)

LEMMA StepRecords ==
  ASSUME TypeOK, CopiesConsistent, RecordsInv, [Next]_vars
  PROVE  RecordsInv'
<1>1. DBTypeOK /\ TrTypeOK /\ VaTypeOK /\ SchedTypeOK /\ AsTypeOK /\ FdTypeOK
  BY DEF TypeOK
<1>2. StagesKept
  BY StepLife, LifeKeepsStages
<1>3. res \in [Result -> ResultRow] /\ wu \in WuRow /\ tr.items \in [Result -> ResultRow]
  BY <1>1 DEF DBTypeOK, TrTypeOK
<1>4. CASE TrNext /\ UNCHANGED <<va, schedVars, as, deleterVars, cancel>>
  BY <1>1, <1>2, <1>4, TransitionerRecords
<1>5. CASE VaNext /\ UNCHANGED <<tr, schedVars, as, deleterVars, cancel>>
  BY <1>1, <1>2, <1>5, ValidatorRecords
<1>6. CASE SchedNext /\ UNCHANGED <<tr, va, as, deleterVars, cancel>>
  BY <1>1, <1>2, <1>6, SchedulerRecords
<1>7. CASE FdNext /\ UNCHANGED <<tr, va, schedVars, as, cancel>>
  BY <1>1, <1>2, <1>7, FileDeleterRecords
<1>8. CASE PurgeNext /\ UNCHANGED <<tr, va, schedVars, as, cancel>>
  BY <1>1, <1>2, <1>8, PurgerRecords
(* The rest writes no more of a result than that it is not needed, or late. *)
<1>9. ASSUME UNCHANGED <<va, schedVars, deleterVars, file>>,
             wu'.file_delete_state = wu.file_delete_state,
             \A r \in Result :
               /\ \/ res'[r] = res[r]
                  \/ res'[r] = [res[r] EXCEPT !.server_state = "OVER", !.outcome = "DIDNT_NEED"]
                  \/ res'[r] = [res[r] EXCEPT !.late = TRUE]
               /\ \/ tr'.items[r] = tr.items[r]
                  \/ tr'.items[r] = [tr.items[r] EXCEPT !.late = TRUE]
      PROVE  RecordsInv'
  <2>1. TodoSound'
    BY <1>9 DEF RecordsInv, TodoSound
  <2>2. ASSUME NEW r \in Result PROVE Quiet(r)
    <3>1. /\ res'[r].received = res[r].received
          /\ res'[r].file_delete_state = res[r].file_delete_state
          /\ Told(res'[r]) => Told(res[r])
          /\ AwaitingRow(res'[r]) => AwaitingRow(res[r])
      <4>1. res[r] \in ResultRow
        BY <1>3
      <4>2. CASE res'[r] = res[r]
        BY <4>2
      <4>3. CASE res'[r] = [res[r] EXCEPT !.server_state = "OVER", !.outcome = "DIDNT_NEED"]
        BY <4>1, <4>3 DEF ResultRow, Told, AwaitingRow, Success
      <4>4. CASE res'[r] = [res[r] EXCEPT !.late = TRUE]
        BY <4>1, <4>4 DEF ResultRow, Told, AwaitingRow, Success, Over
      <4> QED
        BY <1>9, <4>2, <4>3, <4>4
    <3>2. /\ tr'.items[r].outcome = tr.items[r].outcome
          /\ tr'.items[r].validate_state = tr.items[r].validate_state
          /\ tr'.items[r].file_delete_state = tr.items[r].file_delete_state
      <4>1. tr.items[r] \in ResultRow
        BY <1>3
      <4>2. CASE tr'.items[r] = [tr.items[r] EXCEPT !.late = TRUE]
        BY <4>1, <4>2 DEF ResultRow
      <4> QED
        BY <1>9, <4>2
    <3> QED
      BY <1>9, <3>1, <3>2 DEF Quiet, AnyTold, Told, Deleted, RecordsInv, AwaitingSound
  <2> QED
    BY <1>2, <1>9, <2>1, <2>2, QuietStep
<1>10. CASE AsNext /\ UNCHANGED <<tr, va, schedVars, deleterVars, cancel>>
  <2>1. UNCHANGED <<res, file>> /\ wu'.file_delete_state = wu.file_delete_state
    BY <1>3, <1>10
       DEF AsNext, AsStep, AsEnumerate, AsHandle, AsDone, AsCrash, SetWu, dbVars, WuRow
  <2> QED
    BY <1>9, <1>10, <2>1
<1>11. CASE CancelResults
  BY <1>3, <1>9, <1>11 DEF CancelResults
<1>12. CASE CancelJob \/ TransitionTimeComes
  <2>1. UNCHANGED <<res, file, tr, va, schedVars, deleterVars>>
        /\ wu'.file_delete_state = wu.file_delete_state
    BY <1>3, <1>12 DEF CancelJob, TransitionTimeComes, SetWu, WuRow
  <2> QED
    BY <1>9, <2>1
<1>13. ASSUME NEW r \in Result, DeadlinePasses(r) PROVE RecordsInv'
  BY <1>1, <1>3, <1>9, <1>13 DEF DeadlinePasses, TrTypeOK
<1>14. CASE UNCHANGED vars
  BY <1>9, <1>14 DEF vars, dbVars
<1> QED
  BY <1>4, <1>5, <1>6, <1>7, <1>8, <1>10, <1>11, <1>12, <1>13, <1>14 DEF Next, Step

LEMMA InitRecords == Init => RecordsInv
<1> SUFFICES ASSUME Init PROVE RecordsInv
  OBVIOUS
<1>1. /\ res = [r \in Result |-> UnusedRow] /\ tr = TrIdle /\ va = VaIdle /\ fd = FdIdle
      /\ client = [r \in Result |-> "none"] /\ cgi = [r \in Result |-> CgiIdle]
      /\ wu.file_delete_state = "INIT"
  BY DEF Init, DBInit, TrInit, VaInit, FdInit, SchedInit
<1>2. HostSound
  BY <1>1, BlankRows DEF HostSound, CgiIdle
<1>3. ToldSound
  BY <1>1, BlankRows DEF ToldSound, AnyTold, FdOn, OutputGone, TrIdle, VaIdle, FdIdle
<1>4. FilesSound /\ AwaitingSound /\ TodoSound
  BY <1>1, BlankRows DEF FilesSound, AwaitingSound, TodoSound, Deleted, TrIdle, VaIdle, FdIdle
<1> QED
  BY <1>2, <1>3, <1>4 DEF RecordsInv

(***************************************************************************)
(* Whatever the programs overlap and whichever of them fail: a result that *)
(* is down as reported, deleted or judged anywhere, in the table or in a   *)
(* daemon's copy, was handed in by its host for good.                      *)
(***************************************************************************)
THEOREM RecordsInvariant == Spec => []RecordsInv
<1>1. Init => TypeOK /\ CopiesConsistent /\ RecordsInv
  BY InitType, InitConsistent, InitRecords
<1>2. TypeOK /\ CopiesConsistent /\ RecordsInv /\ [Next]_vars
        => TypeOK' /\ CopiesConsistent' /\ RecordsInv'
  BY StepType, StepConsistent, StepRecords
<1> QED
  BY <1>1, <1>2, PTL DEF Spec

(***************************************************************************)
(* A host never forgets a result the server does not have down as over:    *)
(* no reply acknowledges a report before the row is written.               *)
(***************************************************************************)
THEOREM Acknowledged == Spec => []AckedRecorded
<1>1. RecordsInv => AckedRecorded
  BY DEF RecordsInv, HostSound, AckedRecorded
<1> QED
  BY <1>1, RecordsInvariant, PTL

(***************************************************************************)
(* The output of a success waits for the validator: the file deleter is    *)
(* never sent to it before, not by a stale copy nor by a second report.    *)
(***************************************************************************)
THEOREM OutputKept == Spec => []AwaitingFileKept
<1>1. RecordsInv => AwaitingFileKept
  BY DEF RecordsInv, AwaitingSound, AwaitingRow, AwaitingFileKept
<1> QED
  BY <1>1, RecordsInvariant, PTL

(***************************************************************************)
(* Rows whose file_delete_state is DONE have no files: no host puts one    *)
(* back, and no attempt that failed is written down as done.               *)
(***************************************************************************)
THEOREM DeletionTrue == Spec => []DeletedMeansGone
<1>1. RecordsInv => DeletedMeansGone
  BY DEF RecordsInv, FilesSound, Deleted, DeletedMeansGone
<1> QED
  BY <1>1, RecordsInvariant, PTL

-----------------------------------------------------------------------------
(* The number of results: counting what the transitioner may create. *)

Stored == {r \in Result : Exists(res[r])}

TotalInv ==
    /\ Cardinality(Stored) <= MaxTotal
    /\ tr.pc \in {"fetched", "scan"} => Stored \subseteq Existing
    /\ tr.pc = "act" => Cardinality(Stored) + tr.new <= MaxTotal

(* The ids below r in a set are fewer than those below a later id. *)
LEMMA RankGrows ==
  ASSUME NEW S \in SUBSET Result, NEW r \in S, NEW q \in S, r < q
  PROVE  Cardinality({p \in S : p < r}) < Cardinality({p \in S : p < q})
<1> DEFINE low == {p \in S : p < r}
           high == {p \in S : p < q}
<1>1. S \subseteq Nat
  BY BackendAssumption DEF Result
<1>2. low \subseteq high /\ r \in high /\ r \notin low
  <2>1. r \in Nat /\ q \in Nat /\ ~(r < r)
    BY <1>1
  <2>2. ASSUME NEW p \in S, p < r PROVE p < q
    <3>1. p \in Nat
      BY <1>1
    <3> QED
      BY <2>1, <2>2, <3>1
  <2> QED
    BY <2>1, <2>2
<1>3. low \in SUBSET Result /\ high \in SUBSET Result
  OBVIOUS
<1> HIDE DEF low, high
<1>4. /\ IsFiniteSet(high) /\ Cardinality(low) \in Nat /\ Cardinality(high) \in Nat
  BY <1>3, CountType
<1>5. Cardinality(low) <= Cardinality(high) /\ (Cardinality(high) = Cardinality(low) => high = low)
  BY <1>2, <1>4, FS_Subset
<1>6. Cardinality(low) < Cardinality(high)
  BY <1>2, <1>4, <1>5
<1> QED
  BY <1>6 DEF low, high

(* A statement that inserts n results inserts no more than n. *)
LEMMA NextIdsBound ==
  ASSUME NEW n \in Nat
  PROVE  Cardinality(NextIds(n)) <= n
<1> DEFINE S == NextIds(n)
           rank == [r \in S |-> Cardinality({p \in Fresh : p < r})]
<1>1. S \subseteq Fresh /\ Fresh \subseteq Result /\ Result \subseteq Nat
  BY BackendAssumption DEF NextIds, Fresh, Result
<1>2. rank \in [S -> 0 .. n - 1]
  <2>1. ASSUME NEW r \in S PROVE Cardinality({p \in Fresh : p < r}) \in 0 .. n - 1
    <3>1. {p \in Fresh : p < r} \in SUBSET Result
      BY <1>1
    <3>2. Cardinality({p \in Fresh : p < r}) \in Nat
      BY <3>1, CountType
    <3>3. Cardinality({p \in Fresh : p < r}) < n
      BY DEF NextIds
    <3> QED
      BY <3>2, <3>3
  <2> QED
    BY <2>1
<1>3. ASSUME NEW r \in S, NEW q \in S, r < q PROVE rank[r] # rank[q]
  <2>1. Cardinality({p \in Fresh : p < r}) < Cardinality({p \in Fresh : p < q})
    BY <1>1, <1>3, RankGrows
  <2>2. rank[r] < rank[q] /\ rank[r] \in Int /\ rank[q] \in Int
    BY <1>2, <2>1
  <2> QED
    BY <2>2
<1> HIDE DEF rank
<1>4. ASSUME NEW r \in S, NEW q \in S, rank[r] = rank[q] PROVE r = q
  <2>1. r \in Nat /\ q \in Nat
    BY <1>1
  <2>2. ~(r < q) /\ ~(q < r)
    BY <1>3, <1>4
  <2> QED
    BY <2>1, <2>2
<1> HIDE DEF S
<1>5. rank \in Injection(S, 0 .. n - 1)
  BY <1>2, <1>4 DEF Injection, IsInjective
<1>6. IsFiniteSet(0 .. n - 1) /\ Cardinality(0 .. n - 1) = n
  BY FS_Interval
<1>7. Cardinality(S) <= Cardinality(0 .. n - 1)
  BY <1>5, <1>6, FS_Injection
<1> QED
  BY <1>6, <1>7 DEF S

(* Only the transitioner brings a row into being. *)
NoNewRows == \A r \in Result : Exists(res'[r]) => Exists(res[r])

LEMMA FewerRows ==
  ASSUME NoNewRows
  PROVE  Stored' \subseteq Stored /\ Cardinality(Stored') <= Cardinality(Stored)
<1>1. Stored' \subseteq Stored /\ Stored \in SUBSET Result
  BY DEF NoNewRows, Stored
<1>2. IsFiniteSet(Stored)
  BY <1>1, CountType
<1> QED
  BY <1>1, <1>2, FS_Subset

LEMMA StoredCount ==
  /\ IsFiniteSet(Stored) /\ Cardinality(Stored) \in Nat
  /\ Cardinality(Stored') \in Nat
<1>1. Stored \in SUBSET Result /\ Stored' \in SUBSET Result
  BY DEF Stored
<1> QED
  BY <1>1, CountType

LEMMA WriteNoNewRow ==
  ASSUME res \in [Result -> ResultRow], NEW r \in Result, NEW row, SetRow(r, row)
  PROVE  NoNewRows
  BY DEF SetRow, NoNewRows

(* The other programs leave the transitioner's reckoning right. *)
LEMMA OthersKeepTotal ==
  ASSUME TypeOK, TotalInv, NoNewRows, tr'.pc = tr.pc, tr'.new = tr.new,
         \A r \in Result : Exists(tr.items[r]) => Exists(tr'.items[r])
  PROVE  TotalInv'
<1>1. tr.new \in Nat /\ MaxTotal \in Nat
  BY BackendAssumption DEF TypeOK, TrTypeOK
<1>2. Existing \subseteq Existing'
  BY DEF Existing
<1> QED
  BY <1>1, <1>2, FewerRows, StoredCount DEF TotalInv

LEMMA TransitionerTotal ==
  ASSUME TypeOK, TotalInv, TrNext
  PROVE  TotalInv'
<1>1. /\ res \in [Result -> ResultRow] /\ tr.items \in [Result -> ResultRow]
      /\ tr.new \in Nat /\ MaxTotal \in Nat
  BY BackendAssumption DEF TypeOK, DBTypeOK, TrTypeOK
<1>2. ASSUME UNCHANGED res PROVE NoNewRows
  BY <1>2 DEF NoNewRows
<1>3. ASSUME NoNewRows, tr'.pc = "idle" PROVE TotalInv'
  BY <1>1, <1>3, FewerRows, StoredCount DEF TotalInv
<1>4. CASE TrEnumerate
  <2>1. tr'.pc = "fetched" /\ tr'.items = res /\ UNCHANGED res
    BY <1>4 DEF TrEnumerate, TrIdle, dbVars
  <2>2. Stored' \subseteq Existing'
    BY <2>1 DEF Stored, Existing
  <2> QED
    BY <1>1, <1>2, <2>1, <2>2, FewerRows, StoredCount DEF TotalInv
<1>5. CASE TrDecide
  <2>1. /\ tr.pc \in {"fetched", "scan"} /\ tr'.pc = "act"
        /\ tr'.new \in {NewResults, 0} /\ UNCHANGED res
    <3>1. PICK nv, settled :
            tr' = [tr EXCEPT !.pc = "act", !.need_validate = nv, !.error_mask = TrErrors,
                             !.new = IF TrErrors = {} /\ tr.wu.canonical_resultid = 0
                                     THEN NewResults ELSE 0,
                             !.settled = settled]
      BY <1>5, Zenon DEF TrDecide
    <3>2. tr'.pc = "act" /\ tr'.new \in {NewResults, 0}
      BY <3>1 DEF TypeOK, TrTypeOK
    <3> QED
      BY <1>5, <3>2 DEF TrDecide, dbVars
  <2>2. Stored \subseteq Existing /\ Existing \in SUBSET Result
    BY <2>1 DEF TotalInv, Existing
  <2>3. Cardinality(Stored) <= NTotal /\ NTotal \in Nat
    BY <2>2, CountType, FS_Subset DEF NTotal
  <2>4. /\ Cardinality(Pending) \in Nat /\ Cardinality(Successes) \in Nat
        /\ tr.wu.target_nresults \in Nat
    BY CountType DEF Pending, Successes, TypeOK, TrTypeOK, WuRow
  <2>5. Needed \in Nat
    BY <2>4 DEF Needed
  <2>6. Cardinality(Stored) <= MaxTotal /\ Cardinality(Stored) \in Nat
    BY StoredCount DEF TotalInv
  <2>7. Cardinality(Stored) + NewResults <= MaxTotal /\ NewResults \in Nat
    BY <1>1, <2>3, <2>5, <2>6 DEF NewResults
  <2>8. Stored' = Stored
    BY <2>1 DEF Stored
  <2> QED
    BY <1>1, <2>1, <2>6, <2>7, <2>8 DEF TotalInv
<1>6. CASE TrCreate
  <2>1. tr.pc = "act" /\ tr'.pc = "act" /\ tr'.new = 0
    BY <1>6 DEF TrCreate, TypeOK, TrTypeOK
  <2>2. Stored' \subseteq Stored \cup NextIds(tr.new)
    BY <1>6 DEF TrCreate, Stored
  <2>3. NextIds(tr.new) \in SUBSET Result /\ Stored \in SUBSET Result
    BY DEF NextIds, Fresh, Stored
  <2>4. /\ IsFiniteSet(NextIds(tr.new)) /\ Cardinality(NextIds(tr.new)) \in Nat
        /\ IsFiniteSet(Stored) /\ Cardinality(Stored) \in Nat
        /\ Cardinality(Stored \cap NextIds(tr.new)) \in Nat
    BY <2>3, CountType
  <2>5. /\ IsFiniteSet(Stored \cup NextIds(tr.new))
        /\ Cardinality(Stored \cup NextIds(tr.new))
              <= Cardinality(Stored) + Cardinality(NextIds(tr.new))
    <3>1. /\ IsFiniteSet(Stored \cup NextIds(tr.new))
          /\ Cardinality(Stored \cup NextIds(tr.new))
               = Cardinality(Stored) + Cardinality(NextIds(tr.new))
                   - Cardinality(Stored \cap NextIds(tr.new))
      BY <2>4, FS_Union
    <3> QED
      BY <2>4, <3>1
  <2>6. Cardinality(Stored') <= Cardinality(Stored \cup NextIds(tr.new))
    BY <2>2, <2>5, FS_Subset
  <2>7. Cardinality(NextIds(tr.new)) <= tr.new
    BY <1>1, NextIdsBound
  <2>8. Cardinality(Stored) + tr.new <= MaxTotal
    BY <2>1 DEF TotalInv
  <2>9. Cardinality(Stored') <= MaxTotal
    <3>1. Cardinality(Stored \cup NextIds(tr.new)) \in Nat /\ Cardinality(Stored') \in Nat
      BY <2>5, FS_CardinalityType, StoredCount
    <3> QED
      BY <1>1, <2>4, <2>5, <2>6, <2>7, <2>8, <3>1
  <2> QED
    BY <1>1, <2>1, <2>9, StoredCount DEF TotalInv
<1>7. CASE TrUpdateWorkunit \/ TrCrash
  BY <1>2, <1>3, <1>7 DEF TrUpdateWorkunit, TrCrash, TrIdle, dbVars
<1>8. ASSUME NEW r \in Result, TrTimeOut(r) \/ TrTooLate(r) \/ TrClose(r) \/ TrDelete(r)
      PROVE  TotalInv'
  <2>1. NoNewRows
    BY <1>1, <1>8, WriteNoNewRow DEF TrTimeOut, TrTooLate, TrClose, TrDelete, TrWriteResult
  <2>2. CASE TrTimeOut(r) \/ TrTooLate(r)
    <3>1. /\ tr.pc \in {"fetched", "scan"} /\ tr'.pc = "scan"
          /\ \A q \in Result : q # r => tr'.items[q] = tr.items[q]
          /\ tr'.items[r].server_state \in {"OVER", tr.items[r].server_state}
      <4>1. tr.items[r] \in ResultRow
        BY <1>1
      <4>2. CASE TrTimeOut(r)
        BY <1>1, <4>1, <4>2 DEF TrTimeOut, TypeOK, TrTypeOK, ResultRow
      <4>3. CASE TrTooLate(r)
        BY <1>1, <4>1, <4>3 DEF TrTooLate, TypeOK, TrTypeOK, ResultRow
      <4> QED
        BY <2>2, <4>2, <4>3
    <3>2. Existing \subseteq Existing'
      BY <3>1 DEF Existing, Exists
    <3>3. Stored' \subseteq Existing'
      BY <2>1, <3>1, <3>2, FewerRows DEF TotalInv
    <3> QED
      BY <1>1, <2>1, <3>1, <3>3, FewerRows, StoredCount DEF TotalInv
  <2>3. CASE TrClose(r) \/ TrDelete(r)
    <3>1. tr.pc = "act" /\ tr'.pc = "act" /\ tr'.new = tr.new
      BY <2>3 DEF TrClose, TrDelete, TypeOK, TrTypeOK
    <3> QED
      BY <1>1, <2>1, <3>1, FewerRows, StoredCount DEF TotalInv
  <2> QED
    BY <1>8, <2>2, <2>3
<1> QED
  BY <1>4, <1>5, <1>6, <1>7, <1>8 DEF TrNext, TrStep

LEMMA StepTotal ==
  ASSUME TypeOK, TotalInv, [Next]_vars
  PROVE  TotalInv'
<1>1. res \in [Result -> ResultRow] /\ tr.items \in [Result -> ResultRow]
  BY DEF TypeOK, DBTypeOK, TrTypeOK
<1>2. CASE TrNext
  BY <1>2, TransitionerTotal
<1>3. ASSUME NoNewRows, UNCHANGED tr PROVE TotalInv'
  BY <1>3, OthersKeepTotal
<1>4. ASSUME UNCHANGED res PROVE NoNewRows
  BY <1>4 DEF NoNewRows
<1>5. CASE VaNext /\ UNCHANGED <<tr, schedVars, as, deleterVars, cancel>>
  BY <1>1, <1>3, <1>4, <1>5, WriteNoNewRow
     DEF VaNext, VaStep, VaEnumerate, VaNoCanonicalRow, VaCheckSet, VaNoQuorum, VaUpdateWorkunit,
         VaRetryPair, VaCheckPair, VaSkipPair, VaUpdateResult, VaSkipResult, VaCrash,
         VaWriteResult, dbVars
<1>6. CASE SchedNext /\ UNCHANGED <<tr, va, as, deleterVars, cancel>>
  <2>1. PICK r \in Result :
          \/ SendCheck(r) \/ ResendCheck(r) \/ ReportCheck(r) \/ DetachCheck(r)
          \/ CgiStep(r) \/ CgiCrash(r) \/ ClientFinish(r) \/ ClientLoses(r)
    BY <1>6 DEF SchedNext
  <2>2. CASE SendMark(r) \/ ResendMark(r) \/ ExpireMark(r)
    BY <1>1, <1>3, <1>6, <2>2 DEF SendMark, ResendMark, ExpireMark, NoNewRows, Exists, ResultRow
  <2>3. CASE ReportRow(r) \/ DetachRow(r)
    BY <1>1, <1>3, <1>6, <2>3, WriteNoNewRow DEF ReportRow, DetachRow
  <2>4. CASE UNCHANGED res
    BY <1>3, <1>4, <1>6, <2>4
  <2> QED
    BY <2>1, <2>2, <2>3, <2>4 DEF CgiStep, SendJob, ResendJob, ExpireJob, ReportJob, DetachJob,
       SendCheck, ResendCheck, ReportCheck, DetachCheck, CgiCrash, ClientFinish, ClientLoses, dbVars
<1>7. CASE AsNext /\ UNCHANGED <<tr, va, schedVars, deleterVars, cancel>>
  BY <1>3, <1>4, <1>7 DEF AsNext, AsStep, AsEnumerate, AsHandle, AsDone, AsCrash, dbVars
<1>8. CASE (FdNext \/ PurgeNext) /\ UNCHANGED <<tr, va, schedVars, as, cancel>>
  <2>1. CASE FdUpdate
    <3>1. CASE fd.id = 0
      BY <1>3, <1>4, <1>8, <2>1, <3>1 DEF FdUpdate
    <3>2. CASE fd.id # 0
      BY <1>1, <1>3, <1>8, <2>1, <3>2, WriteNoNewRow DEF FdUpdate, TypeOK, FdTypeOK
    <3> QED
      BY <3>1, <3>2
  <2>2. CASE PurgeResult
    <3>1. PICK r \in Result : SetRow(r, [UnusedRow EXCEPT !.server_state = "PURGED"])
      BY <2>2 DEF PurgeResult, TypeOK, FdTypeOK
    <3> QED
      BY <1>1, <1>3, <1>8, <3>1, WriteNoNewRow
  <2> QED
    BY <1>3, <1>4, <1>8, <2>1, <2>2 DEF FdNext, PurgeNext, FdStep, PurgeStep, FdEnumerate, FdUnlink,
       FdCrash, PurgeEnumerate, PurgeQuery, PurgeSkip, PurgeJob, PurgeCrash, dbVars
<1>9. CASE CancelResults
  BY <1>1, <1>3, <1>9 DEF CancelResults, NoNewRows, Exists, ResultRow
<1>10. CASE CancelJob \/ TransitionTimeComes
  BY <1>3, <1>4, <1>10 DEF CancelJob, TransitionTimeComes
<1>11. ASSUME NEW r \in Result, DeadlinePasses(r) PROVE TotalInv'
  <2>1. NoNewRows
    BY <1>1, <1>11 DEF DeadlinePasses, NoNewRows, Exists, ResultRow
  <2>2. tr'.pc = tr.pc /\ tr'.new = tr.new
        /\ \A q \in Result : tr'.items[q].server_state = tr.items[q].server_state
    BY <1>1, <1>11 DEF DeadlinePasses, TypeOK, TrTypeOK, ResultRow
  <2> QED
    BY <2>1, <2>2, OthersKeepTotal DEF Exists
<1>12. CASE UNCHANGED vars
  BY <1>3, <1>4, <1>12 DEF vars, dbVars
<1> QED
  BY <1>2, <1>5, <1>6, <1>7, <1>8, <1>9, <1>10, <1>11, <1>12 DEF Next, Step

LEMMA InitTotal == Init => TotalInv
<1> SUFFICES ASSUME Init PROVE TotalInv
  OBVIOUS
<1>1. Stored = {}
  BY DEF Init, DBInit, Stored, Exists, UnusedRow
<1>2. Cardinality(Stored) = 0 /\ tr.pc = "idle" /\ MaxTotal \in Nat
  BY <1>1, FS_EmptySet, BackendAssumption DEF Init, TrInit, TrIdle
<1> QED
  BY <1>2 DEF TotalInv

(***************************************************************************)
(* A job never has more than max_total_results instances, wherever passes  *)
(* of the transitioner are cut off and whoever changes its rows meanwhile. *)
(***************************************************************************)
THEOREM TotalBounded == Spec => []TotalBound
<1>1. Init => TypeOK /\ TotalInv
  BY InitType, InitTotal
<1>2. TypeOK /\ TotalInv /\ [Next]_vars => TypeOK' /\ TotalInv'
  BY StepType, StepTotal
<1>3. TotalInv => TotalBound
  BY DEF TotalInv, TotalBound, Stored
<1> QED
  BY <1>1, <1>2, <1>3, PTL DEF Spec
=============================================================================
