----------------------------- MODULE Validator -----------------------------
(***************************************************************************)
(* The validator daemon (sched/validator.cpp), with the comparison of      *)
(* results of sched/validate_util2.cpp.  Like the transitioner it works on *)
(* a copy read earlier.  At the end it writes back the whole state of the  *)
(* job as it read it, changed or not.                                      *)
(***************************************************************************)
EXTENDS BackendDB

VARIABLE va    \* the daemon: its place in handle_wu() and its copies of the rows

VaPc == {"idle", "fetched", "write", "leave"}

VaTypeOK ==
    va \in [pc : VaPc, wu : WuRow, items : [Result -> ResultRow],
            todo : SUBSET Result, tt : {"NO_CHANGE", "IMMEDIATE", "DELAYED", "NEVER"}]

VaIdle == [pc |-> "idle",
           wu |-> [exists |-> FALSE, need_validate |-> FALSE, canonical_resultid |-> 0,
                   error_mask |-> {}, assimilate_state |-> "INIT",
                   file_delete_state |-> "INIT", target_nresults |-> 0,
                   transition_time |-> "never"],
           items |-> [r \in Result |-> UnusedRow], todo |-> {}, tt |-> "NO_CHANGE"]

VaInit == va = VaIdle

SuccessItems == {r \in Result : Success(va.items[r])}

(***************************************************************************)
(* DB_VALIDATOR_ITEM_SET::enumerate().  With a canonical result, `todo' is *)
(* the set of results still to be compared with it.                        *)
(***************************************************************************)
VaEnumerate ==
    /\ va.pc = "idle" /\ wu.exists /\ wu.need_validate
    /\ \E r \in Result : Exists(res[r])
    /\ va' = [VaIdle EXCEPT !.pc = "fetched", !.wu = wu, !.items = res,
                !.todo = {r \in Result : /\ wu.canonical_resultid # 0 /\ Success(res[r])
                                         /\ res[r].validate_state \in {"INIT", "INCONCLUSIVE"}}]
    /\ UNCHANGED dbVars

(* DB_VALIDATOR_ITEM_SET::update_result(). *)
VaWriteResult(r, item) ==
    /\ SetRow(r, [res[r] EXCEPT !.server_state = item.server_state,
                                !.outcome = item.outcome,
                                !.validate_state = item.validate_state])
    /\ UNCHANGED <<wu, file>>

-----------------------------------------------------------------------------
(* The job has a canonical result: check_pair() each unchecked result. *)

HasCanonical == va.pc = "fetched" /\ va.wu.canonical_resultid # 0

(* "Can't find canonical result": the pass ends and nothing is written. *)
VaNoCanonicalRow ==
    /\ HasCanonical /\ ~Exists(va.items[va.wu.canonical_resultid])
    /\ va' = VaIdle /\ UNCHANGED dbVars

(* init_result() fails for good when the output file is gone or unreadable. *)
Readable(r) == file[r] # "none"

\* mistake: the verdict of compare_results() is ignored
Matches_Always(r, q) == TRUE

(* compare_results(): the equivalence of output files the project defines. *)
Matches(r, q) == file[r] = file[q]

(***************************************************************************)
(* The result is matched, is not, or has no readable file.  Written at     *)
(* once; the transitioner is to look at the job.                           *)
(***************************************************************************)
VaCheckPair(r) ==
    /\ HasCanonical /\ Exists(va.items[va.wu.canonical_resultid]) /\ r \in va.todo
    /\ \E readable \in {Readable(r) /\ Readable(va.wu.canonical_resultid)}
                         \cup (IF "badfile" \in Faults THEN {FALSE} ELSE {}) :
         LET item == IF ~readable
                     THEN [va.items[r] EXCEPT !.outcome = "VALIDATE_ERROR",
                                              !.validate_state = "INVALID"]
                     ELSE [va.items[r] EXCEPT !.validate_state =
                             IF Matches(r, va.wu.canonical_resultid)
                             THEN "VALID" ELSE "INVALID"]
         IN  VaWriteResult(r, item)
    /\ va' = [va EXCEPT !.todo = @ \ {r}, !.tt = "IMMEDIATE"]

(* The host record cannot be read: this result is left as it is. *)
VaSkipPair(r) ==
    /\ "host" \in Faults
    /\ HasCanonical /\ Exists(va.items[va.wu.canonical_resultid]) /\ r \in va.todo
    /\ va' = [va EXCEPT !.todo = @ \ {r}, !.tt = "IMMEDIATE"]
    /\ UNCHANGED dbVars

(* retry: the upload directory is unreachable; the rest is left for later. *)
VaRetryPair ==
    /\ "transient" \in Faults
    /\ HasCanonical /\ Exists(va.items[va.wu.canonical_resultid]) /\ va.todo # {}
    /\ va' = [va EXCEPT !.todo = {}, !.tt = "DELAYED", !.pc = "leave"]
    /\ UNCHANGED dbVars

-----------------------------------------------------------------------------
(* The job has no canonical result yet: check_set(). *)

(* check_set(): the first good result that agrees with min_quorum/2+1 of them. *)
Agreeing(r, good) == {q \in good : Matches(q, r)}

\* mistake: half of the quorum is enough
Candidates_Half(good) == {r \in good : Cardinality(Agreeing(r, good)) >= MinQuorum \div 2}
Candidates(good)  == {r \in good : Cardinality(Agreeing(r, good)) >= (MinQuorum \div 2) + 1}
ChosenCanonical(good) ==
    IF Cardinality(good) < MinQuorum \/ Candidates(good) = {} THEN 0
    ELSE CHOOSE r \in Candidates(good) : \A q \in Candidates(good) : r <= q

(***************************************************************************)
(* The successful results after check_set() and the scan that follows it:  *)
(* `bad' had a permanent error, `unseen' a transient one, c is canonical.  *)
(***************************************************************************)
Checked(r, bad, unseen, c) ==
    LET item == va.items[r] IN
    IF r \in bad
    THEN [item EXCEPT !.outcome = "VALIDATE_ERROR", !.validate_state = "INVALID"]
    ELSE IF c # 0 /\ r \notin unseen
    THEN [item EXCEPT !.validate_state = IF Matches(r, c) THEN "VALID" ELSE "INVALID"]
    ELSE IF item.validate_state = "INIT"
    THEN [item EXCEPT !.validate_state = "INCONCLUSIVE"]
    ELSE item

(* The job found its canonical result, or the job as check_set() leaves it. *)
JobWithCanonical(c) ==
    [va.wu EXCEPT !.canonical_resultid = c, !.assimilate_state = "READY"]

JobWithoutConsensus(nsuccess) ==
    [va.wu EXCEPT
       !.error_mask = IF nsuccess > MaxSuccess
                      THEN @ \cup {"TOO_MANY_SUCCESS_RESULTS"} ELSE @,
       !.target_nresults = IF nsuccess >= @ THEN nsuccess + 1 ELSE @]

\* mistake: results not sent yet are left to be sent
CalledOff_None(c) == {}
CalledOff(c) == {r \in Result : c # 0 /\ va.items[r].server_state = "UNSENT"}

(* All the rows, as they are now to be written. *)
CheckedItems(bad, unseen, c) ==
    [r \in Result |->
       IF r \in SuccessItems THEN Checked(r, bad, unseen, c)
       ELSE IF r \in CalledOff(c)
       THEN [va.items[r] EXCEPT !.server_state = "OVER", !.outcome = "DIDNT_NEED"]
       ELSE va.items[r]]

AfterCheckSet(bad, unseen) ==
    LET c == ChosenCanonical(SuccessItems \ (bad \cup unseen))
        n == Cardinality(SuccessItems \ bad)
        items == CheckedItems(bad, unseen, c)
    IN  [va EXCEPT
           !.pc = "write", !.items = items,
           !.todo = {r \in Result :
                       \/ items[r] # va.items[r]
                       \/ r \in SuccessItems /\ items[r].validate_state \in {"VALID", "INVALID"}},
           !.wu = IF c # 0 THEN JobWithCanonical(c) ELSE JobWithoutConsensus(n),
           !.tt = IF c # 0 THEN "NEVER"
                  ELSE IF bad # {} \/ n > MaxSuccess \/ n >= va.wu.target_nresults
                  THEN "IMMEDIATE" ELSE "NO_CHANGE"]

VaCheckSet ==
    /\ va.pc = "fetched" /\ va.wu.canonical_resultid = 0
    /\ Cardinality(SuccessItems) >= MinQuorum
    /\ \E unseen \in SUBSET (IF "transient" \in Faults THEN SuccessItems ELSE {}),
          broken \in SUBSET (IF "badfile" \in Faults THEN SuccessItems ELSE {}) :
         LET gone == {r \in SuccessItems : ~Readable(r)}
         IN  va' = AfterCheckSet((broken \cup gone) \ unseen, unseen)
    /\ UNCHANGED dbVars

(* Too few successful results for check_set(), or no credit could be computed. *)
VaNoQuorum ==
    /\ va.pc = "fetched" /\ va.wu.canonical_resultid = 0
    /\ \/ Cardinality(SuccessItems) < MinQuorum /\ va' = [va EXCEPT !.pc = "leave"]
       \/ /\ "credit" \in Faults /\ Cardinality(SuccessItems) >= MinQuorum
          /\ ChosenCanonical({r \in SuccessItems : Readable(r)}) # 0
          /\ va' = [va EXCEPT !.pc = "leave", !.tt = "DELAYED"]
    /\ UNCHANGED dbVars

(* First the results that were checked, then those that need not be sent. *)
VaUpdateResult(r) ==
    /\ va.pc = "write" /\ r \in va.todo
    /\ va.items[r].outcome = "DIDNT_NEED" =>
         \A q \in va.todo : va.items[q].outcome = "DIDNT_NEED"
    /\ VaWriteResult(r, va.items[r])
    /\ va' = [va EXCEPT !.todo = @ \ {r}]

(* hav or host lookup failed for a result: it is not written. *)
VaSkipResult(r) ==
    /\ "host" \in Faults
    /\ va.pc = "write" /\ r \in va.todo
    /\ va.items[r].validate_state \in {"VALID", "INVALID"}
    /\ va' = [va EXCEPT !.todo = @ \ {r}]
    /\ UNCHANGED dbVars

-----------------------------------------------------------------------------
(***************************************************************************)
(* DB_VALIDATOR_ITEM_SET::update_workunit(): need_validate is cleared and  *)
(* the other fields are written as they were read or have been computed.   *)
(***************************************************************************)
VaTransitionTime ==
    CASE va.tt = "IMMEDIATE" -> "due"
      [] va.tt = "DELAYED"   -> NotLaterThan(va.wu.transition_time)
      [] va.tt = "NEVER"     -> "never"
      [] va.tt = "NO_CHANGE" -> va.wu.transition_time

VaUpdateWorkunit ==
    /\ \/ va.pc = "leave"
       \/ va.pc = "write" /\ va.todo = {}
       \/ HasCanonical /\ Exists(va.items[va.wu.canonical_resultid]) /\ va.todo = {}
    /\ SetWu([wu EXCEPT !.need_validate = FALSE,
                        !.error_mask = va.wu.error_mask,
                        !.assimilate_state = va.wu.assimilate_state,
                        !.transition_time = VaTransitionTime,
                        !.target_nresults = va.wu.target_nresults,
                        !.canonical_resultid = va.wu.canonical_resultid])
    /\ va' = VaIdle
    /\ UNCHANGED <<res, file>>

VaCrash ==
    /\ "crash" \in Faults /\ va.pc # "idle"
    /\ va' = VaIdle /\ UNCHANGED dbVars

VaStep ==
    \/ VaEnumerate \/ VaNoCanonicalRow
    \/ VaCheckSet \/ VaNoQuorum \/ VaUpdateWorkunit \/ VaRetryPair
    \/ \E r \in Result : VaCheckPair(r) \/ VaSkipPair(r) \/ VaUpdateResult(r) \/ VaSkipResult(r)

VaNext == VaStep \/ VaCrash
=============================================================================
