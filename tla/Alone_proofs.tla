---------------------------- MODULE Alone_proofs ----------------------------
(***************************************************************************)
(* Proofs about a job the programs work on one after the other (MaxBusy is *)
(* 1), for every other value of the constants.  What a program has read is *)
(* then still true when it writes; OrderlyStep sums up what any step may   *)
(* do to the job, and what the theorems at the end say follows from that.  *)
(***************************************************************************)
EXTENDS Agreement_proofs

-----------------------------------------------------------------------------
(* One program at a time: who is at work is at work alone. *)

TrOff     == tr.pc = "idle"
VaOff     == va.pc = "idle"
AsOff     == as.pc = "idle"
FdOff     == fd.pc = "idle"
PurgeOff  == purge.pc = "idle"
CancelOff == cancel # "half-way"
CgiOff    == \A r \in Result : cgi[r].pc = "idle"
DetachOff == \A r \in Result : detach[r] = "idle"

Exclusive ==
    /\ TrOff \/ (VaOff /\ AsOff /\ FdOff /\ PurgeOff /\ CancelOff /\ CgiOff /\ DetachOff)
    /\ VaOff \/ (AsOff /\ FdOff /\ PurgeOff /\ CancelOff /\ CgiOff /\ DetachOff)
    /\ AsOff \/ (FdOff /\ PurgeOff /\ CancelOff /\ CgiOff /\ DetachOff)
    /\ FdOff \/ (PurgeOff /\ CancelOff /\ CgiOff /\ DetachOff)
    /\ PurgeOff \/ (CancelOff /\ CgiOff /\ DetachOff)
    /\ CancelOff \/ (CgiOff /\ DetachOff)
    /\ CgiOff \/ DetachOff

LEMMA BusyExclusive ==
  ASSUME BusyCount <= 1
  PROVE  Exclusive
<1> DEFINE cgis == {r \in Result : cgi[r].pc # "idle"}
           detaching == {r \in Result : detach[r] # "idle"}
<1>1. /\ Cardinality(cgis) \in Nat /\ (~CgiOff => Cardinality(cgis) >= 1)
      /\ Cardinality(detaching) \in Nat /\ (~DetachOff => Cardinality(detaching) >= 1)
  <2>1. ASSUME NEW S \in SUBSET Result, S # {} PROVE Cardinality(S) >= 1
    <3>1. IsFiniteSet(S) /\ Cardinality(S) \in Nat
      BY CountType
    <3>2. Cardinality(S) # 0
      BY <2>1, <3>1, FS_EmptySet
    <3> QED
      BY <3>1, <3>2
  <2>2. cgis \in SUBSET Result /\ detaching \in SUBSET Result
    OBVIOUS
  <2>3. (~CgiOff => cgis # {}) /\ (~DetachOff => detaching # {})
    BY DEF CgiOff, DetachOff
  <2> HIDE DEF cgis, detaching
  <2> QED
    BY <2>1, <2>2, <2>3, CountType
<1> DEFINE t == IF tr.pc # "idle" THEN 1 ELSE 0
           v == IF va.pc # "idle" THEN 1 ELSE 0
           a == IF as.pc # "idle" THEN 1 ELSE 0
           f == IF fd.pc # "idle" THEN 1 ELSE 0
           p == IF purge.pc # "idle" THEN 1 ELSE 0
           o == IF cancel = "half-way" THEN 1 ELSE 0
<1>2. t + v + a + f + p + o + Cardinality(cgis) + Cardinality(detaching) <= 1
  BY DEF BusyCount, One
<1>3. /\ t \in {0, 1} /\ v \in {0, 1} /\ a \in {0, 1}
      /\ f \in {0, 1} /\ p \in {0, 1} /\ o \in {0, 1}
      /\ (t = 0 => TrOff) /\ (v = 0 => VaOff) /\ (a = 0 => AsOff)
      /\ (f = 0 => FdOff) /\ (p = 0 => PurgeOff) /\ (o = 0 => CancelOff)
  <2>1. /\ t \in {0, 1} /\ v \in {0, 1} /\ a \in {0, 1}
        /\ f \in {0, 1} /\ p \in {0, 1} /\ o \in {0, 1}
    OBVIOUS
  <2>2. (t = 0 => TrOff) /\ (v = 0 => VaOff)
    BY DEF TrOff, VaOff
  <2>4. a = 0 => AsOff
    <3>1. ~AsOff => a = 1
      BY Zenon DEF AsOff
    <3> HIDE DEF a
    <3> QED
      BY <3>1
  <2>3. (f = 0 => FdOff) /\ (p = 0 => PurgeOff) /\ (o = 0 => CancelOff)
    BY DEF FdOff, PurgeOff, CancelOff
  <2> QED
    BY <2>1, <2>2, <2>3, <2>4
<1>4. (Cardinality(cgis) = 0 => CgiOff) /\ (Cardinality(detaching) = 0 => DetachOff)
  BY <1>1
<1> HIDE DEF cgis, detaching, t, v, a, f, p, o
<1>5. /\ t = 0 \/ (v = 0 /\ a = 0 /\ f = 0 /\ p = 0 /\ o = 0
                   /\ Cardinality(cgis) = 0 /\ Cardinality(detaching) = 0)
      /\ v = 0 \/ (a = 0 /\ f = 0 /\ p = 0 /\ o = 0
                   /\ Cardinality(cgis) = 0 /\ Cardinality(detaching) = 0)
      /\ a = 0 \/ (f = 0 /\ p = 0 /\ o = 0 /\ Cardinality(cgis) = 0 /\ Cardinality(detaching) = 0)
      /\ f = 0 \/ (p = 0 /\ o = 0 /\ Cardinality(cgis) = 0 /\ Cardinality(detaching) = 0)
      /\ p = 0 \/ (o = 0 /\ Cardinality(cgis) = 0 /\ Cardinality(detaching) = 0)
      /\ o = 0 \/ (Cardinality(cgis) = 0 /\ Cardinality(detaching) = 0)
      /\ Cardinality(cgis) = 0 \/ Cardinality(detaching) = 0
  BY <1>1, <1>2, <1>3
<1> QED
  BY <1>3, <1>4, <1>5 DEF Exclusive

LEMMA NobodyBusy == Init => BusyCount = 0
<1> SUFFICES ASSUME Init PROVE BusyCount = 0
  OBVIOUS
<1> DEFINE cgis == {r \in Result : cgi[r].pc # "idle"}
           detaching == {r \in Result : detach[r] # "idle"}
<1>1. tr.pc = "idle" /\ va.pc = "idle" /\ as.pc = "idle" /\ fd.pc = "idle" /\ purge.pc = "idle"
      /\ cancel = "no"
  BY DEF Init, TrInit, VaInit, AsInit, FdInit, TrIdle, VaIdle, AsIdle, FdIdle, PurgeIdle
<1>2. cgis = {} /\ detaching = {}
  BY DEF Init, SchedInit, CgiIdle
<1>3. BusyCount = 0 + 0 + 0 + 0 + 0 + 0 + Cardinality(cgis) + Cardinality(detaching)
  BY <1>1 DEF BusyCount, One
<1> HIDE DEF cgis, detaching
<1>4. Cardinality({}) = 0
  BY FS_EmptySet
<1> QED
  BY <1>2, <1>3, <1>4

LEMMA AloneExclusive == ASSUME MaxBusy = 1 PROVE Spec => []Exclusive
<1>1. Init => BusyCount <= 1
  BY NobodyBusy
<1>2. BusyCount <= 1 /\ [Next]_vars => (BusyCount <= 1)'
  BY DEF Next, vars, dbVars, schedVars, deleterVars, BusyCount
<1>3. BusyCount <= 1 => Exclusive
  BY BusyExclusive
<1> QED
  BY <1>1, <1>2, <1>3, PTL DEF Spec

(* Whoever takes a step is at work before or after it, and nobody else is. *)
LEMMA TransitionerAlone ==
  ASSUME Exclusive, Exclusive', TrNext, UNCHANGED <<va, schedVars, as, deleterVars, cancel>>
  PROVE  VaOff /\ AsOff /\ FdOff /\ PurgeOff /\ CancelOff /\ CgiOff /\ DetachOff
<1>1. ~TrOff \/ ~TrOff'
  BY DEF TrOff, TrNext, TrStep, TrEnumerate, TrDecide, TrCreate, TrUpdateWorkunit, TrCrash, TrTimeOut,
     TrTooLate, TrClose, TrDelete, TrIdle
<1> QED
  BY <1>1 DEF Exclusive, TrOff, VaOff, AsOff, FdOff, PurgeOff, CancelOff, CgiOff, DetachOff, schedVars,
     deleterVars

LEMMA ValidatorAlone ==
  ASSUME Exclusive, Exclusive', ValidatorStep
  PROVE  TrOff /\ AsOff /\ FdOff /\ PurgeOff /\ CancelOff /\ CgiOff /\ DetachOff
<1>1. ~VaOff \/ ~VaOff'
  <2>1. CASE VaEnumerate
    BY <2>1 DEF VaOff, VaEnumerate, VaIdle
  <2>2. CASE VaUpdateWorkunit
    BY <2>2 DEF VaOff, VaUpdateWorkunit, HasCanonical
  <2>3. CASE VaCheckSet \/ VaNoQuorum \/ VaRetryPair \/ VaNoCanonicalRow \/ VaCrash
    BY <2>3 DEF VaOff, VaCheckSet, VaNoQuorum, VaRetryPair, VaNoCanonicalRow, VaCrash, HasCanonical
  <2>4. CASE \E r \in Result :
               VaCheckPair(r) \/ VaSkipPair(r) \/ VaUpdateResult(r) \/ VaSkipResult(r)
    BY <2>4 DEF VaOff, VaCheckPair, VaSkipPair, VaUpdateResult, VaSkipResult, HasCanonical
  <2> QED
    BY <2>1, <2>2, <2>3, <2>4 DEF ValidatorStep, VaNext, VaStep
<1> QED
  BY <1>1 DEF Exclusive, ValidatorStep, TrOff, VaOff, AsOff, FdOff, PurgeOff, CancelOff, CgiOff, DetachOff,
     schedVars, deleterVars

LEMMA AssimilatorAlone ==
  ASSUME Exclusive, Exclusive', AsNext, UNCHANGED <<tr, va, schedVars, deleterVars, cancel>>
  PROVE  TrOff /\ VaOff /\ FdOff /\ PurgeOff /\ CancelOff /\ CgiOff /\ DetachOff
<1>1. ~AsOff \/ ~AsOff'
  <2>1. CASE AsEnumerate
    BY <2>1 DEF AsOff, AsEnumerate
  <2>2. CASE AsHandle \/ AsDone \/ AsCrash
    BY <2>2 DEF AsOff, AsHandle, AsDone, AsCrash
  <2> QED
    BY <2>1, <2>2 DEF AsNext, AsStep
<1> QED
  BY <1>1 DEF Exclusive, TrOff, VaOff, AsOff, FdOff, PurgeOff, CancelOff, CgiOff, DetachOff, schedVars,
     deleterVars

LEMMA FileDeleterAlone ==
  ASSUME Exclusive, Exclusive', FdNext, UNCHANGED <<tr, va, schedVars, as, cancel>>
  PROVE  TrOff /\ VaOff /\ AsOff /\ PurgeOff /\ CancelOff /\ CgiOff /\ DetachOff
<1>1. (~FdOff \/ ~FdOff') /\ UNCHANGED purge
  BY DEF FdOff, FdNext, FdStep, FdEnumerate, FdUnlink, FdUpdate, FdCrash
<1> QED
  BY <1>1 DEF Exclusive, TrOff, VaOff, AsOff, FdOff, PurgeOff, CancelOff, CgiOff, DetachOff, schedVars

LEMMA PurgerAlone ==
  ASSUME Exclusive, Exclusive', PurgeNext, FdTypeOK, UNCHANGED <<tr, va, schedVars, as, cancel>>
  PROVE  TrOff /\ VaOff /\ AsOff /\ FdOff /\ CancelOff /\ CgiOff /\ DetachOff
<1>1. (~PurgeOff \/ ~PurgeOff') /\ UNCHANGED fd
  BY DEF PurgeOff, PurgeNext, PurgeStep, PurgeEnumerate, PurgeQuery, PurgeResult, PurgeSkip, PurgeJob,
     PurgeCrash, FdTypeOK
<1> QED
  BY <1>1 DEF Exclusive, TrOff, VaOff, AsOff, FdOff, PurgeOff, CancelOff, CgiOff, DetachOff, schedVars

LEMMA SchedulerAlone ==
  ASSUME Exclusive, Exclusive', UNCHANGED <<tr, va, as, deleterVars, cancel>>,
         ~CgiOff \/ ~CgiOff' \/ ~DetachOff \/ ~DetachOff'
  PROVE  TrOff /\ VaOff /\ AsOff /\ FdOff /\ PurgeOff /\ CancelOff
  BY DEF Exclusive, TrOff, VaOff, AsOff, FdOff, PurgeOff, CancelOff, deleterVars

LEMMA OperatorAlone ==
  ASSUME Exclusive, Exclusive', CancelResults \/ CancelJob
  PROVE  TrOff /\ VaOff /\ AsOff /\ FdOff /\ PurgeOff /\ CgiOff /\ DetachOff
  BY DEF Exclusive, CancelResults, CancelJob, TrOff, VaOff, AsOff, FdOff, PurgeOff, CancelOff, CgiOff,
     DetachOff, schedVars, deleterVars

-----------------------------------------------------------------------------
(* What a program has read of the job is what the tables hold. *)

Same(a, b) ==
    /\ a.server_state = b.server_state /\ a.outcome = b.outcome
    /\ a.validate_state = b.validate_state /\ a.file_delete_state = b.file_delete_state

(* A result the transitioner has just inserted, and does not have in its copy. *)
JustCreated(r) ==
    /\ tr.pc = "act" /\ tr.new = 0 /\ tr.error_mask = {} /\ wu.canonical_resultid = 0
    /\ tr.items[r].server_state = "NONE" /\ res[r].server_state = "UNSENT"

TrFresh ==
    ~TrOff =>
      /\ wu.exists /\ wu.transition_time = "due" /\ tr.wu = wu
      /\ tr.pc = "act" => wu.error_mask \subseteq tr.error_mask
      /\ tr.new > 0 => tr.pc = "act" /\ tr.error_mask = {} /\ wu.canonical_resultid = 0
      /\ \A r \in Result : Same(tr.items[r], res[r]) \/ JustCreated(r)

(* What check_set() made of a successful result, or of one that was not sent. *)
JudgedItem(r) ==
    /\ Success(res[r]) /\ Over(va.items[r])
    /\ \/ va.items[r].outcome = "SUCCESS"
       \/ va.items[r].outcome = "VALIDATE_ERROR" /\ va.items[r].validate_state = "INVALID"
CalledOffItem(r) ==
    /\ res[r].server_state = "UNSENT" /\ Over(va.items[r])
    /\ va.items[r].outcome = "DIDNT_NEED" /\ va.items[r].validate_state = "INIT"

VaReadFresh ==
    va.pc \in {"fetched", "leave"} =>
      /\ va.wu.canonical_resultid = wu.canonical_resultid
      /\ va.wu.error_mask = wu.error_mask /\ va.wu.assimilate_state = wu.assimilate_state
      /\ va.tt # "NEVER"

VaItemsFresh ==
    va.pc = "fetched" =>
      /\ wu.canonical_resultid = 0 => \A r \in Result : Same(va.items[r], res[r])
      /\ \A r \in va.todo : /\ Same(va.items[r], res[r]) /\ Success(res[r])
                            /\ res[r].validate_state \in {"INIT", "INCONCLUSIVE"}

VaWriteFresh ==
    va.pc = "write" =>
      /\ wu.canonical_resultid = 0 /\ wu.error_mask \subseteq va.wu.error_mask
      /\ \A r \in va.todo : JudgedItem(r) \/ CalledOffItem(r)
      /\ "crash" \notin Faults => \A r \in va.todo : res[r].validate_state # "VALID"
      /\ va.wu.canonical_resultid = 0 =>
           /\ va.wu.assimilate_state = wu.assimilate_state /\ va.tt # "NEVER"
           /\ va.wu.error_mask = wu.error_mask \/ va.tt = "IMMEDIATE"
      /\ va.wu.canonical_resultid # 0 =>
           /\ va.wu.error_mask = wu.error_mask /\ file[va.wu.canonical_resultid] # "none"
           /\ \A r \in Result : res[r].server_state = "UNSENT" => r \in va.todo

VaFresh ==
    ~VaOff =>
      /\ wu.exists /\ (va.wu.transition_time = "never" => wu.transition_time = "never")
      /\ VaReadFresh /\ VaItemsFresh /\ VaWriteFresh

AsFresh ==
    ~AsOff =>
      /\ wu.exists /\ wu.assimilate_state = "READY"
      /\ as.canonical_resultid = wu.canonical_resultid
      /\ as.pc = "fetched" => as.error_mask = wu.error_mask

FdFresh ==
    ~FdOff => IF fd.id = 0 THEN wu.file_delete_state # "INIT"
              ELSE res[fd.id].file_delete_state # "INIT"

PurgeFresh ==
    "purge" \notin Faults /\ purge.pc = "results" =>
      \A r \in Result : Exists(res[r]) => r \in purge.todo

RequestFresh(r) ==
    /\ cgi[r].pc = "report" => Accepts(res[r])
    /\ cgi[r].pc = "reported" => Over(res[r]) /\ res[r].received
                                 /\ res[r].outcome \in {"SUCCESS", "CLIENT_ERROR"}
    /\ detach[r] = "row" => "detach" \in Faults /\ res[r].server_state = "IN_PROGRESS"
CgiFresh == \A r \in Result : RequestFresh(r)

FreshInv == TrFresh /\ VaFresh /\ AsFresh /\ FdFresh /\ PurgeFresh /\ CgiFresh

-----------------------------------------------------------------------------
(* What a step may do to a result, ... *)

RowKept(r) == Same(res'[r], res[r]) /\ res'[r].received = res[r].received
RowCreated(r) ==
    /\ res[r].server_state = "NONE" /\ res'[r] = NewRow
    /\ wu.exists /\ wu.canonical_resultid = 0 /\ wu.error_mask = {}

(* The row ends, or changes stage, with this outcome; the rest stays. *)
RowMoves(r, from, to, outcome) ==
    /\ res[r].server_state = from /\ res'[r].server_state = to /\ res'[r].outcome = outcome
    /\ res'[r].validate_state = res[r].validate_state
    /\ res'[r].file_delete_state = res[r].file_delete_state
    /\ res'[r].received = res[r].received

RowSent(r)      == RowMoves(r, "UNSENT", "IN_PROGRESS", res[r].outcome)
RowGivenUp(r)   == RowMoves(r, "IN_PROGRESS", "OVER", "NO_REPLY")
RowCalledOff(r) == RowMoves(r, "UNSENT", "OVER", "DIDNT_NEED")

RowReported(r) ==
    /\ Accepts(res[r]) /\ Over(res'[r]) /\ res'[r].received
    /\ res'[r].outcome \in {"SUCCESS", "CLIENT_ERROR"}
    /\ res'[r].file_delete_state = res[r].file_delete_state
RowDetached(r) ==
    /\ "detach" \in Faults /\ res[r].server_state = "IN_PROGRESS"
    /\ Over(res'[r]) /\ res'[r].outcome = "CLIENT_DETACHED" /\ res'[r].received
    /\ res'[r].file_delete_state = res[r].file_delete_state
RowJudged(r) ==
    /\ Success(res[r]) /\ Over(res'[r])
    /\ "crash" \notin Faults => res[r].validate_state # "VALID"
    /\ \/ res'[r].outcome = "SUCCESS"
       \/ res'[r].outcome = "VALIDATE_ERROR" /\ res'[r].validate_state = "INVALID"
    /\ res'[r].file_delete_state = res[r].file_delete_state
    /\ res'[r].received = res[r].received
RowFiles(r) ==
    /\ wu.assimilate_state = "DONE" \/ res[r].file_delete_state # "INIT"
    /\ res'[r].server_state = res[r].server_state /\ res'[r].outcome = res[r].outcome
    /\ res'[r].validate_state = res[r].validate_state /\ res'[r].received = res[r].received
RowPurged(r) == res'[r] = [UnusedRow EXCEPT !.server_state = "PURGED"]

RowStep(r) ==
    \/ RowKept(r) \/ RowCreated(r) \/ RowSent(r) \/ RowGivenUp(r) \/ RowCalledOff(r)
    \/ RowReported(r) \/ RowDetached(r) \/ RowJudged(r) \/ RowFiles(r) \/ RowPurged(r)

(* ... to the job, ... *)
Live(row) == row.server_state \in {"UNSENT", "IN_PROGRESS"}

WuStep ==
    /\ wu'.exists => wu.exists
    /\ wu.error_mask \subseteq wu'.error_mask
    /\ wu.canonical_resultid # 0 => wu'.canonical_resultid = wu.canonical_resultid
    /\ wu.canonical_resultid = 0 /\ wu'.canonical_resultid # 0 =>
         /\ UNCHANGED <<res, file>> /\ file[wu'.canonical_resultid] # "none"
         /\ \A r \in Result : res[r].server_state # "UNSENT"
    /\ wu'.assimilate_state # "INIT" =>
         wu.assimilate_state # "INIT" \/ wu'.canonical_resultid # 0 \/ wu'.error_mask # {}
    /\ wu.assimilate_state = "DONE" => wu'.assimilate_state = "DONE" \/ wu'.error_mask # {}
    /\ wu.file_delete_state # "INIT" => wu'.file_delete_state # "INIT"
    /\ wu.file_delete_state = "INIT" /\ wu'.file_delete_state # "INIT" =>
         /\ UNCHANGED res /\ wu.assimilate_state = "DONE"
         /\ \A r \in Result : ~Live(res[r])
    /\ wu'.transition_time = "never" /\ wu'.error_mask # {} =>
         \/ wu.transition_time = "never" /\ wu.error_mask # {}
         \/ UNCHANGED res /\ \A r \in Result : res[r].server_state # "UNSENT"

(* ... to the files and to what the hosts have of their results. *)
FilesStep ==
    /\ \A r \in Result : file'[r] = "none" => file[r] = "none" \/ res[r].file_delete_state # "INIT"
    /\ inputs /\ ~inputs' => wu.file_delete_state # "INIT"

ClientsStep ==
    \A r \in Result :
      /\ client[r] = "none" => client'[r] = "none" \/ res'[r].server_state = "IN_PROGRESS"
      /\ client'[r] = "acked" /\ client[r] # "acked" =>
           /\ res'[r] = res[r]
           /\ res[r].received \/ (client[r] # "none" /\ ~Accepts(res[r]))

OrderlyStep == (\A r \in Result : RowStep(r)) /\ WuStep /\ FilesStep /\ ClientsStep

-----------------------------------------------------------------------------
(* What is true of the job between any two steps. *)

Settled == wu.canonical_resultid # 0 \/ wu.error_mask # {}

OverHasOutcome == \A r \in Result : Over(res[r]) => res[r].outcome # "INIT"
SettledNotSent == wu.canonical_resultid # 0 => \A r \in Result : res[r].server_state # "UNSENT"
GoneInputs ==
    wu.file_delete_state # "INIT" \/ ~inputs => Settled /\ \A r \in Result : ~Live(res[r])
FilesInUse ==
    wu.error_mask = {} /\ wu.assimilate_state # "DONE" =>
      \A r \in Result : res[r].file_delete_state = "INIT"
ReceivedMeansReported ==
    "detach" \notin Faults => \A r \in Result :
      res[r].received => res[r].outcome \in {"SUCCESS", "CLIENT_ERROR", "VALIDATE_ERROR"}

JobInv ==
    /\ ReadyHasReason /\ SettledNotSent /\ FailedNotSent /\ GoneInputs
    /\ FilesInUse /\ CanonicalFileKept
    /\ OverHasOutcome /\ DidntNeedNotSent /\ AckedReceived /\ ReceivedMeansReported

(* What all the changes of a row have in common. *)
LEMMA RowFacts ==
  ASSUME TypeOK, NEW r \in Result, RowStep(r)
  PROVE  /\ Live(res'[r]) => Live(res[r]) \/ RowCreated(r)
         /\ res'[r].server_state = "UNSENT" => res[r].server_state = "UNSENT" \/ RowCreated(r)
         /\ res'[r].file_delete_state # "INIT" =>
              res[r].file_delete_state # "INIT" \/ wu.assimilate_state = "DONE"
         /\ Over(res'[r]) /\ res'[r].outcome = "INIT" => Over(res[r]) /\ res[r].outcome = "INIT"
         /\ res'[r].outcome = "DIDNT_NEED" =>
              res[r].outcome = "DIDNT_NEED" \/ res[r].server_state = "UNSENT"
         /\ res[r].received => res'[r].received \/ res'[r].server_state = "PURGED"
                                 \/ res[r].server_state = "NONE"
         /\ res[r].server_state = "PURGED" => res'[r].server_state = "PURGED"
         /\ "detach" \notin Faults /\ res'[r].received
              /\ res'[r].outcome \notin {"SUCCESS", "CLIENT_ERROR", "VALIDATE_ERROR"} =>
              \/ res[r].received
                 /\ res[r].outcome \notin {"SUCCESS", "CLIENT_ERROR", "VALIDATE_ERROR"}
              \/ res[r].received /\ ~Ended(r)
<1>1. res[r] \in ResultRow
  BY DEF TypeOK, DBTypeOK
<1>2. CASE RowKept(r)
  BY <1>2 DEF RowKept, Same, Live, Over
<1>3. CASE RowCreated(r)
  BY <1>3 DEF RowCreated, Live, Over, NewRow, UnusedRow
<1>4. CASE RowSent(r)
  BY <1>4 DEF RowSent, RowMoves, Live, Over, Ended
<1>5. CASE RowGivenUp(r) \/ RowCalledOff(r)
  BY <1>5 DEF RowGivenUp, RowCalledOff, RowMoves, Live, Over, Ended
<1>6. CASE RowReported(r) \/ RowDetached(r)
  BY <1>6 DEF RowReported, RowDetached, Live, Over, Accepts
<1>7. CASE RowJudged(r)
  BY <1>7 DEF RowJudged, Live, Over, Success
<1>8. CASE RowFiles(r)
  BY <1>8 DEF RowFiles, Live, Over
<1>9. CASE RowPurged(r)
  BY <1>9 DEF RowPurged, UnusedRow, Live, Over
<1> QED
  BY <1>2, <1>3, <1>4, <1>5, <1>6, <1>7, <1>8, <1>9 DEF RowStep

LEMMA OrderlyKeeps ==
  ASSUME TypeOK, TypeOK', CopiesConsistent', RecordsInv, JobInv, OrderlyStep
  PROVE  JobInv'
<1>1. ReadyHasReason' /\ (Settled => Settled')
  BY DEF JobInv, ReadyHasReason, Settled, OrderlyStep, WuStep
<1>2. ASSUME Settled, NEW r \in Result PROVE ~RowCreated(r)
  BY <1>2 DEF RowCreated, Settled
<1>3. \A r \in Result : RowStep(r)
  BY DEF OrderlyStep
<1>4. SettledNotSent'
  <2>1. CASE wu.canonical_resultid # 0
    BY <1>2, <1>3, <2>1, RowFacts DEF JobInv, SettledNotSent, Settled
  <2>2. CASE wu.canonical_resultid = 0
    BY <2>2 DEF OrderlyStep, WuStep, SettledNotSent
  <2> QED
    BY <2>1, <2>2
<1>5. FailedNotSent'
  <2>1. CASE wu.transition_time = "never" /\ wu.error_mask # {}
    BY <1>2, <1>3, <2>1, RowFacts DEF JobInv, FailedNotSent, Settled
  <2>2. CASE UNCHANGED res /\ \A r \in Result : res[r].server_state # "UNSENT"
    BY <2>2 DEF FailedNotSent
  <2> QED
    BY <2>1, <2>2 DEF OrderlyStep, WuStep, FailedNotSent
<1>6. GoneInputs'
  <2>1. CASE wu.file_delete_state # "INIT" \/ ~inputs
    <3>1. Settled /\ \A r \in Result : ~Live(res[r])
      BY <2>1 DEF JobInv, GoneInputs
    <3> QED
      BY <1>1, <1>2, <1>3, <3>1, RowFacts DEF GoneInputs
  <2>2. CASE wu.file_delete_state = "INIT" /\ inputs
    <3>1. SUFFICES ASSUME wu'.file_delete_state # "INIT"
                   PROVE  GoneInputs'
      BY <2>2 DEF OrderlyStep, FilesStep, GoneInputs
    <3>2. UNCHANGED res /\ wu.assimilate_state = "DONE" /\ \A r \in Result : ~Live(res[r])
      BY <2>2, <3>1 DEF OrderlyStep, WuStep
    <3>3. Settled
      BY <3>2 DEF JobInv, ReadyHasReason, Settled
    <3> QED
      BY <1>1, <3>2, <3>3 DEF GoneInputs
  <2> QED
    BY <2>1, <2>2 DEF FdTypeOK
<1>7. ASSUME wu'.error_mask = {}, wu'.assimilate_state # "DONE"
      PROVE  wu.error_mask = {} /\ wu.assimilate_state # "DONE"
  BY <1>7 DEF OrderlyStep, WuStep
<1>8. FilesInUse'
  BY <1>3, <1>7, RowFacts DEF JobInv, FilesInUse
<1>9. CanonicalFileKept'
  <2>1. SUFFICES ASSUME wu'.canonical_resultid # 0, wu'.error_mask = {}, wu'.assimilate_state # "DONE"
                 PROVE  file'[wu'.canonical_resultid] # "none"
    BY DEF CanonicalFileKept
  <2>2. wu.error_mask = {} /\ wu.assimilate_state # "DONE" /\ wu'.canonical_resultid \in Result
    BY <1>7, <2>1 DEF TypeOK, DBTypeOK, WuRow
  <2>3. CASE wu.canonical_resultid # 0
    <3>1. wu'.canonical_resultid = wu.canonical_resultid
      BY <2>3 DEF OrderlyStep, WuStep
    <3>2. file[wu.canonical_resultid] # "none"
      BY <2>2, <2>3 DEF JobInv, CanonicalFileKept
    <3>3. res[wu.canonical_resultid].file_delete_state = "INIT"
      BY <2>2, <3>1 DEF JobInv, FilesInUse
    <3> QED
      BY <2>2, <3>1, <3>2, <3>3 DEF OrderlyStep, FilesStep
  <2>4. CASE wu.canonical_resultid = 0
    BY <2>1, <2>4 DEF OrderlyStep, WuStep
  <2> QED
    BY <2>3, <2>4
<1>10. OverHasOutcome'
  BY <1>3, RowFacts DEF JobInv, OverHasOutcome
<1>11. DidntNeedNotSent'
  <2>1. ASSUME NEW r \in Result, res'[r].outcome = "DIDNT_NEED" PROVE client'[r] = "none"
    <3>1. client[r] = "none"
      BY <1>3, <2>1, RowFacts DEF JobInv, DidntNeedNotSent, RecordsInv, HostSound
    <3>2. Over(res'[r])
      BY <2>1 DEF CopiesConsistent, Sound
    <3> QED
      BY <3>1, <3>2 DEF OrderlyStep, ClientsStep, Over
  <2> QED
    BY <2>1 DEF DidntNeedNotSent
<1>12. AckedReceived'
  <2>1. SUFFICES ASSUME NEW r \in Result, client'[r] = "acked"
                 PROVE  res'[r].received \/ res'[r].server_state = "PURGED"
    BY DEF AckedReceived
  <2>2. CASE client[r] = "acked"
    <3>1. res[r].received \/ res[r].server_state = "PURGED"
      BY <2>2 DEF JobInv, AckedReceived
    <3>2. res[r].server_state # "NONE"
      BY <2>2 DEF RecordsInv, HostSound
    <3> QED
      BY <1>3, <3>1, <3>2, RowFacts
  <2>3. CASE client[r] # "acked"
    <3>1. res'[r] = res[r] /\ (res[r].received \/ (client[r] # "none" /\ ~Accepts(res[r])))
      BY <2>1, <2>3 DEF OrderlyStep, ClientsStep
    <3>2. SUFFICES ASSUME client[r] # "none", ~Accepts(res[r]), ~res[r].received
                   PROVE  res[r].server_state = "PURGED"
      BY <3>1
    <3>3. res[r] \in ResultRow
      BY DEF TypeOK, DBTypeOK
    <3>4. res[r].server_state \in {"OVER", "PURGED"}
      BY <3>2, <3>3 DEF RecordsInv, HostSound, Accepts, ResultRow, ServerState
    <3>5. CASE Over(res[r])
      <4>1. res[r].outcome \in {"SUCCESS", "CLIENT_ERROR", "VALIDATE_ERROR"}
        BY <3>2, <3>3, <3>5 DEF JobInv, OverHasOutcome, DidntNeedNotSent, Accepts, ResultRow, Outcome
      <4>2. AnyTold(r)
        BY <4>1 DEF AnyTold, Told
      <4>3. HandedIn(r)
        BY <4>2 DEF RecordsInv, ToldSound
      <4> QED
        BY <3>2, <4>3 DEF HandedIn
    <3> QED
      BY <3>4, <3>5 DEF Over
  <2> QED
    BY <2>2, <2>3
<1>13. ReceivedMeansReported'
  <2>1. \A r \in Result : res[r].received => Ended(r)
    BY DEF RecordsInv, HostSound
  <2> QED
    BY <1>3, <2>1, RowFacts DEF JobInv, ReceivedMeansReported
<1> QED
  BY <1>1, <1>4, <1>5, <1>6, <1>8, <1>9, <1>10, <1>11, <1>12, <1>13 DEF JobInv

-----------------------------------------------------------------------------
(* Steps that change one table only. *)

LEMMA RowsUnchanged ==
  ASSUME UNCHANGED res
  PROVE  \A r \in Result : RowStep(r)
  BY DEF RowStep, RowKept, Same

LEMMA OneRowStep ==
  ASSUME TypeOK, NEW r \in Result, NEW row, SetRow(r, row), res'[r] = row => RowStep(r)
  PROVE  \A q \in Result : RowStep(q)
<1>1. res \in [Result -> ResultRow]
  BY DEF TypeOK, DBTypeOK
<1>2. CASE Exists(res[r])
  <2>1. res'[r] = row /\ \A q \in Result \ {r} : res'[q] = res[q]
    BY <1>1, <1>2 DEF SetRow
  <2> QED
    BY <2>1 DEF RowStep, RowKept, Same
<1>3. CASE ~Exists(res[r])
  BY <1>3, RowsUnchanged DEF SetRow
<1> QED
  BY <1>2, <1>3

(* Only the time at which the job is looked at changes, and not to "never". *)
JobWoken ==
    \/ wu' = wu
    \/ \E t \in {"due", "wait"} : wu' = [wu EXCEPT !.transition_time = t]

LEMMA JobWokenStep ==
  ASSUME TypeOK, JobWoken
  PROVE  WuStep
<1>1. wu \in WuRow
  BY DEF TypeOK, DBTypeOK
<1>2. CASE wu' = wu
  BY <1>2 DEF WuStep
<1>3. ASSUME NEW t \in {"due", "wait"}, wu' = [wu EXCEPT !.transition_time = t]
      PROVE  WuStep
  <2>1. /\ wu'.exists = wu.exists /\ wu'.error_mask = wu.error_mask
        /\ wu'.canonical_resultid = wu.canonical_resultid
        /\ wu'.assimilate_state = wu.assimilate_state
        /\ wu'.file_delete_state = wu.file_delete_state /\ wu'.transition_time # "never"
    BY <1>1, <1>3 DEF WuRow
  <2> QED
    BY <2>1 DEF WuStep
<1> QED
  BY <1>2, <1>3 DEF JobWoken

LEMMA SetWuWakes ==
  ASSUME NEW t \in {"due", "wait"}, SetWu([wu EXCEPT !.transition_time = t])
  PROVE  JobWoken
  BY DEF SetWu, JobWoken

LEMMA FilesUnchanged ==
  ASSUME UNCHANGED <<file, inputs>>
  PROVE  FilesStep
  BY DEF FilesStep

LEMMA ClientsUnchanged ==
  ASSUME UNCHANGED client
  PROVE  ClientsStep
  BY DEF ClientsStep

(* Time passes and hosts compute, whoever is at work. *)
LEMMA FreshKept ==
  ASSUME TypeOK, FreshInv, UNCHANGED <<va, as, fd, purge, cgi, detach>>, \A r \in Result : RowKept(r),
         \A r \in Result : file[r] # "none" => file'[r] # "none",
         /\ tr'.pc = tr.pc /\ tr'.wu = tr.wu /\ tr'.error_mask = tr.error_mask /\ tr'.new = tr.new
         /\ \A r \in Result : Same(tr'.items[r], tr.items[r]),
         \/ wu' = wu
         \/ wu.transition_time = "wait" /\ wu' = [wu EXCEPT !.transition_time = "due"]
  PROVE  FreshInv'
<1>1. wu \in WuRow /\ va.wu \in WuRow
  BY DEF TypeOK, DBTypeOK, VaTypeOK
<1>2. /\ wu'.exists = wu.exists /\ wu'.error_mask = wu.error_mask
      /\ wu'.canonical_resultid = wu.canonical_resultid
      /\ wu'.assimilate_state = wu.assimilate_state
      /\ wu'.file_delete_state = wu.file_delete_state
      /\ wu.transition_time = "never" => wu'.transition_time = "never"
      /\ wu.transition_time = "due" => wu' = wu
  BY <1>1 DEF WuRow
<1>3. \A r \in Result : Same(res'[r], res[r]) /\ res'[r].received = res[r].received
  BY DEF RowKept
<1>4. TrFresh'
  <2>1. ASSUME ~TrOff PROVE TrFresh'
    BY <1>2, <1>3, <2>1 DEF FreshInv, TrFresh, JustCreated, Same
  <2> QED
    BY <2>1 DEF TrFresh, TrOff
<1>5. VaFresh'
  <2>1. SUFFICES ASSUME ~VaOff PROVE VaFresh'
    BY DEF VaFresh, VaOff
  <2>2. va' = va /\ VaFresh
    BY DEF FreshInv
  <2>3. VaReadFresh'
    BY <1>2, <2>1, <2>2 DEF VaFresh, VaReadFresh
  <2>4. VaItemsFresh'
    BY <1>2, <1>3, <2>1, <2>2 DEF VaFresh, VaItemsFresh, Same, Success, Over, VaTypeOK, TypeOK
  <2>5. VaWriteFresh'
    <3>1. \A r \in Result : (JudgedItem(r) => JudgedItem(r)') /\ (CalledOffItem(r) => CalledOffItem(r)')
      BY <1>3, <2>2 DEF Same, JudgedItem, CalledOffItem, Success, Over
    <3>2. va.todo \subseteq Result /\ va.wu.canonical_resultid \in Result \cup {0}
      BY <1>1 DEF TypeOK, VaTypeOK, WuRow
    <3> QED
      BY <1>2, <1>3, <2>1, <2>2, <3>1, <3>2 DEF VaFresh, VaWriteFresh, Same
  <2> QED
    BY <1>2, <2>1, <2>2, <2>3, <2>4, <2>5 DEF VaFresh
<1>6. AsFresh'
  <2>1. as' = as
    OBVIOUS
  <2> QED
    BY <1>2, <2>1 DEF FreshInv, AsFresh, AsOff
<1>7. FdFresh' /\ PurgeFresh'
  BY <1>2, <1>3 DEF FreshInv, FdFresh, FdOff, PurgeFresh, Same, Exists, TypeOK, FdTypeOK
<1>8. CgiFresh'
  BY <1>3 DEF FreshInv, CgiFresh, RequestFresh, Same, Accepts, Over
<1> QED
  BY <1>4, <1>5, <1>6, <1>7, <1>8 DEF FreshInv

LEMMA TimeOrderly ==
  ASSUME TypeOK, FreshInv, TransitionTimeComes \/ \E r \in Result : DeadlinePasses(r)
  PROVE  OrderlyStep /\ FreshInv'
<1>1. /\ UNCHANGED <<va, as, fd, purge, inputs, cgi, detach, client, file>>
      /\ wu' = wu \/ (wu.transition_time = "wait" /\ wu' = [wu EXCEPT !.transition_time = "due"])
  BY DEF TransitionTimeComes, DeadlinePasses, schedVars, deleterVars
<1>2. /\ \A r \in Result : RowKept(r)
      /\ tr'.pc = tr.pc /\ tr'.wu = tr.wu /\ tr'.error_mask = tr.error_mask /\ tr'.new = tr.new
      /\ \A r \in Result : Same(tr'.items[r], tr.items[r])
  <2>1. CASE TransitionTimeComes
    BY <2>1 DEF TransitionTimeComes, RowKept, Same
  <2>2. ASSUME NEW r \in Result, DeadlinePasses(r)
        PROVE  /\ \A q \in Result : RowKept(q)
               /\ tr'.pc = tr.pc /\ tr'.wu = tr.wu /\ tr'.error_mask = tr.error_mask /\ tr'.new = tr.new
               /\ \A q \in Result : Same(tr'.items[q], tr.items[q])
    <3>1. res \in [Result -> ResultRow] /\ tr.items \in [Result -> ResultRow]
      BY DEF TypeOK, DBTypeOK, TrTypeOK
    <3>2. \A q \in Result : RowKept(q)
      BY <2>2, <3>1 DEF DeadlinePasses, RowKept, Same, ResultRow
    <3>3. /\ tr'.pc = tr.pc /\ tr'.wu = tr.wu /\ tr'.error_mask = tr.error_mask /\ tr'.new = tr.new
          /\ tr'.items \in {tr.items, [tr.items EXCEPT ![r].late = TRUE]}
      BY <2>2 DEF DeadlinePasses, TypeOK, TrTypeOK
    <3>4. \A q \in Result : Same(tr'.items[q], tr.items[q])
      BY <3>1, <3>3 DEF Same, ResultRow
    <3> QED
      BY <3>2, <3>3, <3>4
  <2> QED
    BY <2>1, <2>2
<1>3. FreshInv'
  BY <1>1, <1>2, FreshKept
<1>4. JobWoken
  BY <1>1 DEF JobWoken
<1> QED
  BY <1>1, <1>2, <1>3, <1>4, JobWokenStep, FilesUnchanged, ClientsUnchanged DEF OrderlyStep, RowStep

LEMMA HostOrderly ==
  ASSUME TypeOK, FreshInv, UNCHANGED <<tr, va, as, deleterVars, cancel>>, NEW r \in Result,
         ClientFinish(r) \/ ClientLoses(r) \/ (ReportCheck(r) /\ ~Accepts(res[r]))
  PROVE  OrderlyStep /\ FreshInv'
<1>1. /\ UNCHANGED <<wu, res, cgi, detach, fd, purge, inputs>>
      /\ \A q \in Result : RowKept(q) /\ Same(tr.items[q], tr.items[q])
  BY DEF ClientFinish, ClientLoses, ReportCheck, dbVars, deleterVars, RowKept, Same
<1>2. \A q \in Result : file[q] # "none" => file'[q] # "none"
  BY BackendAssumption DEF ClientFinish, ClientLoses, ReportCheck, dbVars, TypeOK, DBTypeOK
<1>3. FreshInv'
  BY <1>1, <1>2, FreshKept
<1>4. FilesStep
  BY <1>1, <1>2 DEF FilesStep
<1>5. ClientsStep
  <2>1. client \in [Result -> ClientState]
    BY DEF TypeOK, SchedTypeOK
  <2>2. CASE ClientFinish(r) \/ ClientLoses(r)
    BY <2>1, <2>2 DEF ClientFinish, ClientLoses, ClientsStep
  <2>3. CASE ReportCheck(r) /\ ~Accepts(res[r])
    BY <1>1, <2>1, <2>3 DEF ReportCheck, Acknowledge, ClientsStep
  <2> QED
    BY <2>2, <2>3
<1> QED
  BY <1>1, <1>3, <1>4, <1>5, JobWokenStep DEF OrderlyStep, RowStep, JobWoken

-----------------------------------------------------------------------------
(* One program's step: nothing is said of the copies of those that are idle. *)

LEMMA IdleFresh ==
  /\ TrOff => TrFresh
  /\ VaOff => VaFresh
  /\ AsOff => AsFresh
  /\ FdOff => FdFresh
  /\ PurgeOff => PurgeFresh
  /\ CgiOff /\ DetachOff => CgiFresh
<1>1. (TrOff => TrFresh) /\ (VaOff => VaFresh) /\ (FdOff => FdFresh) /\ (PurgeOff => PurgeFresh)
      /\ (CgiOff /\ DetachOff => CgiFresh)
  BY DEF TrFresh, VaFresh, FdFresh, PurgeFresh, PurgeOff, CgiFresh, RequestFresh, CgiOff, DetachOff
<1>2. AsOff => AsFresh
  BY Zenon DEF AsFresh
<1> QED
  BY <1>1, <1>2

LEMMA IdleStays ==
  /\ TrOff /\ UNCHANGED tr => TrFresh'
  /\ VaOff /\ UNCHANGED va => VaFresh'
  /\ AsOff /\ UNCHANGED as => AsFresh'
  /\ FdOff /\ PurgeOff /\ UNCHANGED deleterVars => FdFresh' /\ PurgeFresh'
  /\ CgiOff /\ DetachOff /\ UNCHANGED schedVars => CgiFresh'
<1>1. /\ TrOff /\ UNCHANGED tr => TrFresh'
      /\ VaOff /\ UNCHANGED va => VaFresh'
      /\ FdOff /\ PurgeOff /\ UNCHANGED deleterVars => FdFresh' /\ PurgeFresh'
      /\ CgiOff /\ DetachOff /\ UNCHANGED schedVars => CgiFresh'
  BY DEF TrFresh, VaFresh, FdFresh, PurgeFresh, CgiFresh, RequestFresh, TrOff, VaOff, FdOff, PurgeOff, CgiOff,
     DetachOff, deleterVars, schedVars
<1>2. AsOff /\ UNCHANGED as => AsFresh'
  BY Zenon DEF AsFresh, AsOff
<1> QED
  BY <1>1, <1>2

LEMMA OperatorOrderly ==
  ASSUME TypeOK, Exclusive, Exclusive', CancelResults \/ CancelJob
  PROVE  OrderlyStep /\ FreshInv'
<1>1. TrOff /\ VaOff /\ AsOff /\ FdOff /\ PurgeOff /\ CgiOff /\ DetachOff
  BY OperatorAlone
<1>2. UNCHANGED <<file, tr, va, as>> /\ UNCHANGED schedVars /\ UNCHANGED deleterVars
  BY DEF CancelResults, CancelJob
<1>3. FreshInv'
  BY <1>1, <1>2, IdleStays DEF FreshInv
<1>4. FilesStep /\ ClientsStep
  BY <1>2, FilesUnchanged, ClientsUnchanged DEF schedVars, deleterVars
<1>5. (\A r \in Result : RowStep(r)) /\ WuStep
  <2>1. CASE CancelResults
    <3>1. WuStep
      BY <2>1, JobWokenStep DEF CancelResults, JobWoken
    <3>2. ASSUME NEW r \in Result PROVE RowStep(r)
      <4>1. res[r] \in ResultRow
        BY DEF TypeOK, DBTypeOK
      <4>2. CASE res[r].server_state = "UNSENT"
        <5>1. res'[r] = [res[r] EXCEPT !.server_state = "OVER", !.outcome = "DIDNT_NEED"]
          BY <2>1, <4>2 DEF CancelResults
        <5>2. RowCalledOff(r)
          BY <4>1, <4>2, <5>1 DEF RowCalledOff, RowMoves, ResultRow
        <5> QED
          BY <5>2 DEF RowStep
      <4>3. CASE res[r].server_state # "UNSENT"
        BY <2>1, <4>3 DEF CancelResults, RowStep, RowKept, Same
      <4> QED
        BY <4>2, <4>3
    <3> QED
      BY <3>1, <3>2
  <2>2. CASE CancelJob
    <3>1. wu \in WuRow
      BY DEF TypeOK, DBTypeOK
    <3>2. /\ wu'.exists = wu.exists /\ wu.error_mask \subseteq wu'.error_mask
          /\ wu'.canonical_resultid = wu.canonical_resultid
          /\ wu'.assimilate_state = wu.assimilate_state
          /\ wu'.file_delete_state = wu.file_delete_state
          /\ wu' = wu \/ wu'.transition_time # "never"
      BY <2>2, <3>1 DEF CancelJob, SetWu, WuRow
    <3>3. WuStep
      <4>1. CASE wu' = wu
        BY <4>1, JobWokenStep DEF JobWoken
      <4>2. CASE wu'.transition_time # "never"
        BY <3>2, <4>2 DEF WuStep
      <4> QED
        BY <3>2, <4>1, <4>2
    <3> QED
      BY <2>2, <3>3, RowsUnchanged DEF CancelJob
  <2> QED
    BY <2>1, <2>2
<1> QED
  BY <1>3, <1>4, <1>5 DEF OrderlyStep

LEMMA AssimilatorOrderly ==
  ASSUME TypeOK, FreshInv, JobInv, Exclusive, Exclusive', AsNext,
         UNCHANGED <<tr, va, schedVars, deleterVars, cancel>>
  PROVE  OrderlyStep /\ FreshInv'
<1>1. TrOff /\ VaOff /\ FdOff /\ PurgeOff /\ CgiOff /\ DetachOff
  BY AssimilatorAlone
<1>2. UNCHANGED <<res, file, client, inputs>>
  BY DEF AsNext, AsStep, AsEnumerate, AsHandle, AsDone, AsCrash, dbVars, schedVars, deleterVars
<1>3. TrFresh' /\ VaFresh' /\ FdFresh' /\ PurgeFresh' /\ CgiFresh'
  BY <1>1, IdleStays
<1>4. FilesStep /\ ClientsStep /\ \A r \in Result : RowStep(r)
  BY <1>2, FilesUnchanged, ClientsUnchanged, RowsUnchanged
<1>5. wu \in WuRow
  BY DEF TypeOK, DBTypeOK
<1>6. WuStep /\ AsFresh'
  <2>1. CASE AsEnumerate
    <3>1. wu' = wu
      BY <2>1 DEF AsEnumerate, dbVars
    <3>2. AsFresh'
      BY <2>1, <3>1, Zenon DEF AsEnumerate, AsFresh
    <3> QED
      BY <3>1, <3>2, JobWokenStep DEF JobWoken
  <2>2. CASE AsHandle
    <3>1. /\ as.pc = "fetched" /\ as'.pc = "handled"
          /\ as'.canonical_resultid = as.canonical_resultid
      BY <2>2, Zenon DEF AsHandle, TypeOK, AsTypeOK
    <3>2. /\ wu.exists /\ wu.assimilate_state = "READY"
          /\ as.canonical_resultid = wu.canonical_resultid /\ as.error_mask = wu.error_mask
      BY <3>1, Zenon DEF FreshInv, AsFresh, AsOff
    <3>3. wu' = wu \/ (wu.error_mask = {} /\ wu' = [wu EXCEPT !.error_mask = {"NO_CANONICAL_RESULT"}])
      BY <2>2, <3>2, Zenon DEF AsHandle, SetWu
    <3>4. /\ wu'.exists = wu.exists /\ wu.error_mask \subseteq wu'.error_mask
          /\ wu'.canonical_resultid = wu.canonical_resultid
          /\ wu'.assimilate_state = wu.assimilate_state
          /\ wu'.file_delete_state = wu.file_delete_state
      BY <1>5, <3>3 DEF WuRow
    <3>5. wu' = wu \/ \A r \in Result : res[r].server_state # "UNSENT"
      BY <3>2, <3>3 DEF JobInv, ReadyHasReason, SettledNotSent
    <3>6. WuStep
      <4>1. CASE wu' = wu
        BY <4>1, JobWokenStep DEF JobWoken
      <4>2. CASE \A r \in Result : res[r].server_state # "UNSENT"
        BY <1>2, <3>4, <4>2 DEF WuStep
      <4> QED
        BY <3>5, <4>1, <4>2
    <3>7. AsFresh'
      BY <3>1, <3>2, <3>4, Zenon DEF AsFresh
    <3> QED
      BY <3>6, <3>7
  <2>3. CASE AsDone
    <3>1. as.pc = "handled" /\ as'.pc = "idle"
      BY <2>3, Zenon DEF AsDone, AsIdle
    <3>2. wu.assimilate_state = "READY"
      BY <3>1, Zenon DEF FreshInv, AsFresh, AsOff
    <3>3. PICK state \in {"DONE", "INIT"} :
            SetWu([wu EXCEPT !.assimilate_state = state, !.transition_time = "due"])
      BY <2>3 DEF AsDone
    <3>4. /\ wu'.exists = wu.exists /\ wu'.error_mask = wu.error_mask
          /\ wu'.canonical_resultid = wu.canonical_resultid
          /\ wu'.file_delete_state = wu.file_delete_state
          /\ wu' = wu \/ wu'.transition_time # "never"
      BY <1>5, <3>3 DEF SetWu, WuRow
    <3>5. WuStep
      <4>1. CASE wu' = wu
        BY <4>1, JobWokenStep DEF JobWoken
      <4>2. CASE wu'.transition_time # "never"
        BY <3>2, <3>4, <4>2 DEF WuStep
      <4> QED
        BY <3>4, <4>1, <4>2
    <3>6. AsFresh'
      BY <3>1, Zenon DEF AsFresh, AsOff
    <3> QED
      BY <3>5, <3>6
  <2>4. CASE AsCrash
    <3>1. wu' = wu
      BY <2>4 DEF AsCrash, dbVars
    <3>2. AsFresh'
      BY <2>4, Zenon DEF AsCrash, AsIdle, AsFresh, AsOff
    <3> QED
      BY <3>1, <3>2, JobWokenStep DEF JobWoken
  <2> QED
    BY <2>1, <2>2, <2>3, <2>4 DEF AsNext, AsStep
<1> QED
  BY <1>3, <1>4, <1>6 DEF OrderlyStep, FreshInv

LEMMA FileDeleterOrderly ==
  ASSUME TypeOK, FreshInv, Exclusive, Exclusive', FdNext,
         UNCHANGED <<tr, va, schedVars, as, cancel>>
  PROVE  OrderlyStep /\ FreshInv'
<1>1. TrOff /\ VaOff /\ AsOff /\ PurgeOff /\ CgiOff /\ DetachOff
  BY FileDeleterAlone
<1>2. UNCHANGED <<purge, client>>
  BY DEF FdNext, FdStep, FdEnumerate, FdUnlink, FdUpdate, FdCrash, schedVars
<1>3. TrFresh' /\ VaFresh' /\ AsFresh' /\ CgiFresh'
  BY <1>1, IdleStays
<1>4. PurgeFresh'
  BY <1>1, <1>2 DEF PurgeFresh, PurgeOff
<1>5. /\ wu \in WuRow /\ fd.id \in Result \cup {0} /\ 0 \notin Result
      /\ file \in [Result -> Answers \cup {"none"}] /\ res \in [Result -> ResultRow]
      /\ ~FdOff => IF fd.id = 0 THEN wu.file_delete_state # "INIT"
                   ELSE res[fd.id].file_delete_state # "INIT"
  BY DEF TypeOK, DBTypeOK, FdTypeOK, FreshInv, FdFresh, Result
<1>6. FdFresh' /\ FilesStep /\ WuStep /\ \A r \in Result : RowStep(r)
  <2>1. CASE FdEnumerate
    BY <2>1, JobWokenStep, RowsUnchanged, FilesUnchanged DEF FdEnumerate, FdFresh, dbVars, JobWoken
  <2>2. CASE FdUnlink
    <3>1. ~FdOff /\ fd'.id = fd.id /\ UNCHANGED <<wu, res>>
      BY <2>2 DEF FdUnlink, FdOff, TypeOK, FdTypeOK
    <3>2. FilesStep
      BY <1>5, <2>2, <3>1 DEF FdUnlink, FilesStep
    <3> QED
      BY <1>5, <3>1, <3>2, JobWokenStep, RowsUnchanged DEF FdFresh, JobWoken
  <2>3. CASE FdUpdate
    <3>1. ~FdOff /\ FdFresh' /\ FilesStep
      BY <2>3, FilesUnchanged DEF FdUpdate, FdOff, FdFresh, FdIdle
    <3>2. PICK outcome \in {"DONE", "ERROR"} : outcome = FdOutcome
      BY DEF FdOutcome
    <3>3. CASE fd.id = 0
      <4>1. /\ wu'.exists = wu.exists /\ wu'.error_mask = wu.error_mask
            /\ wu'.canonical_resultid = wu.canonical_resultid
            /\ wu'.assimilate_state = wu.assimilate_state
            /\ wu'.transition_time = wu.transition_time
            /\ wu'.file_delete_state # "INIT"
        BY <1>5, <2>3, <3>1, <3>2, <3>3 DEF FdUpdate, SetWu, WuRow
      <4>2. WuStep
        BY <1>5, <3>1, <3>3, <4>1 DEF WuStep
      <4> QED
        BY <2>3, <3>1, <3>3, <4>2, RowsUnchanged DEF FdUpdate
    <3>4. CASE fd.id # 0
      <4>1. fd.id \in Result /\ res[fd.id] \in ResultRow /\ res[fd.id].file_delete_state # "INIT"
        BY <1>5, <3>1, <3>4
      <4>2. PICK id \in Result : id = fd.id
        BY <4>1
      <4> DEFINE row == [res[id] EXCEPT !.file_delete_state = outcome]
      <4>3. SetRow(id, row) /\ wu' = wu
        BY <2>3, <3>2, <3>4, <4>2 DEF FdUpdate
      <4>4. res'[id] = row => RowStep(id)
        <5>1. /\ row.server_state = res[id].server_state /\ row.outcome = res[id].outcome
              /\ row.validate_state = res[id].validate_state /\ row.received = res[id].received
          BY <4>1, <4>2 DEF ResultRow
        <5> HIDE DEF row
        <5> QED
          BY <4>1, <4>2, <5>1 DEF RowStep, RowFiles
      <4> HIDE DEF row
      <4>5. \A q \in Result : RowStep(q)
        BY <4>3, <4>4, OneRowStep
      <4> QED
        BY <3>1, <4>3, <4>5, JobWokenStep DEF JobWoken
    <3> QED
      BY <3>3, <3>4
  <2>4. CASE FdCrash
    BY <2>4, JobWokenStep, RowsUnchanged, FilesUnchanged
       DEF FdCrash, FdFresh, FdOff, FdIdle, dbVars, JobWoken
  <2> QED
    BY <2>1, <2>2, <2>3, <2>4 DEF FdNext, FdStep
<1> QED
  BY <1>2, <1>3, <1>4, <1>6, ClientsUnchanged DEF OrderlyStep, FreshInv

LEMMA PurgerOrderly ==
  ASSUME TypeOK, FreshInv, Exclusive, Exclusive', PurgeNext,
         UNCHANGED <<tr, va, schedVars, as, cancel>>
  PROVE  OrderlyStep /\ FreshInv'
<1>1. TrOff /\ VaOff /\ AsOff /\ FdOff /\ CgiOff /\ DetachOff
  BY PurgerAlone DEF TypeOK
<1>2. UNCHANGED <<fd, client, file, inputs>>
  BY DEF PurgeNext, PurgeStep, PurgeEnumerate, PurgeQuery, PurgeResult, PurgeSkip, PurgeJob, PurgeCrash,
     schedVars, dbVars
<1>3. TrFresh' /\ VaFresh' /\ AsFresh' /\ CgiFresh'
  BY <1>1, IdleStays
<1>4. FdFresh'
  BY <1>1, <1>2 DEF FdFresh, FdOff
<1>5. wu \in WuRow /\ res \in [Result -> ResultRow] /\ purge.todo \subseteq Result
  BY DEF TypeOK, DBTypeOK, FdTypeOK
<1>6. PurgeFresh' /\ WuStep /\ \A r \in Result : RowStep(r)
  <2>1. CASE PurgeEnumerate \/ PurgeQuery \/ PurgeSkip \/ PurgeCrash
    <3>1. UNCHANGED <<wu, res>>
      BY <2>1 DEF PurgeEnumerate, PurgeQuery, PurgeSkip, PurgeCrash, dbVars
    <3>2. PurgeFresh'
      BY <2>1, <3>1 DEF PurgeEnumerate, PurgeQuery, PurgeSkip, PurgeCrash, PurgeFresh, PurgeIdle, TypeOK,
         FdTypeOK
    <3> QED
      BY <3>1, <3>2, JobWokenStep, RowsUnchanged DEF JobWoken
  <2>2. CASE PurgeResult
    <3>1. PICK r \in purge.todo :
            /\ purge' = [purge EXCEPT !.todo = @ \ {r}]
            /\ SetRow(r, [UnusedRow EXCEPT !.server_state = "PURGED"])
      BY <2>2 DEF PurgeResult
    <3>2. r \in Result
      BY <1>5, <3>1
    <3>3. \A q \in Result : RowStep(q)
      BY <3>1, <3>2, OneRowStep DEF RowStep, RowPurged
    <3>4. PurgeFresh'
      <4>1. \A q \in Result : Exists(res'[q]) => Exists(res[q]) /\ q # r
        BY <1>5, <3>1, <3>2 DEF SetRow, Exists, UnusedRow
      <4> QED
        BY <2>2, <3>1, <4>1 DEF PurgeFresh, PurgeResult, FreshInv, TypeOK, FdTypeOK
    <3> QED
      BY <2>2, <3>3, <3>4, JobWokenStep DEF PurgeResult, JobWoken
  <2>3. CASE PurgeJob
    <3>1. /\ ~wu'.exists /\ wu'.error_mask = wu.error_mask
          /\ wu'.canonical_resultid = wu.canonical_resultid
          /\ wu'.assimilate_state = wu.assimilate_state
          /\ wu'.transition_time = wu.transition_time
          /\ wu'.file_delete_state = wu.file_delete_state
      BY <1>5, <2>3 DEF PurgeJob, WuRow
    <3>2. WuStep
      BY <3>1 DEF WuStep
    <3> QED
      BY <2>3, <3>2, RowsUnchanged DEF PurgeJob, PurgeFresh, PurgeIdle
  <2> QED
    BY <2>1, <2>2, <2>3 DEF PurgeNext, PurgeStep
<1> QED
  BY <1>2, <1>3, <1>4, <1>6, FilesUnchanged, ClientsUnchanged DEF OrderlyStep, FreshInv

-----------------------------------------------------------------------------
(* A request of the scheduler changes one result and wakes the job. *)

OneRequest(r) ==
    /\ UNCHANGED <<file, inputs>> /\ JobWoken
    /\ RowStep(r) /\ RequestFresh(r)'
    /\ client[r] = "none" => client'[r] = "none" \/ res'[r].server_state = "IN_PROGRESS"
    /\ client'[r] = "acked" /\ client[r] # "acked" => res'[r] = res[r] /\ res[r].received
    /\ \A q \in Result \ {r} : /\ res'[q] = res[q] /\ client'[q] = client[q]
                               /\ cgi'[q] = cgi[q] /\ detach'[q] = detach[q]

LEMMA OneRequestOrderly ==
  ASSUME TypeOK, CgiFresh, NEW r \in Result, OneRequest(r)
  PROVE  OrderlyStep /\ CgiFresh'
<1>1. \A q \in Result : RowStep(q)
  BY DEF OneRequest, RowStep, RowKept, Same
<1>2. CgiFresh'
  BY DEF OneRequest, CgiFresh, RequestFresh
<1>3. ClientsStep
  BY DEF OneRequest, ClientsStep
<1> QED
  BY <1>1, <1>2, <1>3, JobWokenStep, FilesUnchanged DEF OneRequest, OrderlyStep

LEMMA RequestOrderly ==
  ASSUME TypeOK, RecordsInv, FreshInv, Exclusive, Exclusive', UNCHANGED <<tr, va, as, deleterVars, cancel>>,
         NEW r \in Result,
         \/ SendCheck(r) \/ ResendCheck(r) \/ (ReportCheck(r) /\ Accepts(res[r])) \/ DetachCheck(r)
         \/ CgiStep(r) \/ CgiCrash(r)
  PROVE  OrderlyStep /\ FreshInv'
<1>1. /\ res \in [Result -> ResultRow] /\ res[r] \in ResultRow /\ wu \in WuRow
      /\ cgi \in [Result -> [pc : CgiPc, validate_state : ValidateState]]
      /\ detach \in [Result -> {"idle", "row", "job"}]
      /\ client \in [Result -> ClientState]
      /\ RequestFresh(r) /\ CgiFresh
  BY DEF TypeOK, DBTypeOK, SchedTypeOK, FreshInv, CgiFresh
<1>2. ~CgiOff \/ ~CgiOff' \/ ~DetachOff \/ ~DetachOff'
  <2>1. CASE SendCheck(r) \/ ResendCheck(r) \/ (ReportCheck(r) /\ Accepts(res[r]))
    BY <1>1, <2>1 DEF SendCheck, ResendCheck, ReportCheck, CgiGoes, CgiOff
  <2>2. CASE DetachCheck(r)
    BY <1>1, <2>2 DEF DetachCheck, DetachOff
  <2>3. CASE CgiStep(r) \/ CgiCrash(r)
    BY <2>3 DEF CgiStep, CgiCrash, SendJob, SendMark, ResendJob, ResendMark, ExpireMark, ExpireJob,
       ReportRow, ReportJob, DetachRow, DetachJob, CgiOff, DetachOff
  <2> QED
    BY <2>1, <2>2, <2>3
<1>3. TrFresh' /\ VaFresh' /\ AsFresh' /\ FdFresh' /\ PurgeFresh'
  <2>1. TrOff /\ VaOff /\ AsOff /\ FdOff /\ PurgeOff
    BY <1>2, SchedulerAlone
  <2>2. UNCHANGED tr /\ UNCHANGED va /\ UNCHANGED as /\ UNCHANGED deleterVars
    OBVIOUS
  <2> QED
    BY <2>1, <2>2, IdleStays
<1>4. cgi[r].pc # "idle" => detach[r] = "idle"
  BY DEF Exclusive, CgiOff, DetachOff
<1>5. OneRequest(r)
  <2>1. UNCHANGED <<file, inputs>>
    BY DEF SendCheck, ResendCheck, ReportCheck, DetachCheck, CgiCrash, CgiStep, SendJob, SendMark,
       ResendJob, ResendMark, ExpireMark, ExpireJob, ReportRow, ReportJob, DetachRow, DetachJob, dbVars,
       deleterVars
  <2>2. JobWoken
    <3>1. NotLaterThan(wu.transition_time) \in {"due", "wait"}
      BY <1>1 DEF NotLaterThan, WuRow, TransitionTime
    <3>2. CASE SendJob(r) \/ ResendJob(r)
      BY <3>1, <3>2, SetWuWakes DEF SendJob, ResendJob
    <3>3. CASE ExpireJob(r) \/ ReportJob(r) \/ DetachJob(r)
      BY <3>3, SetWuWakes DEF ExpireJob, ReportJob, DetachJob
    <3> QED
      BY <3>2, <3>3 DEF SendCheck, ResendCheck, ReportCheck, DetachCheck, CgiCrash, CgiStep, SendMark,
         ResendMark, ExpireMark, ReportRow, DetachRow, dbVars, JobWoken
  <2>3. ASSUME NEW q \in Result \ {r}
        PROVE  /\ res'[q] = res[q] /\ client'[q] = client[q]
               /\ cgi'[q] = cgi[q] /\ detach'[q] = detach[q]
    <3>1. res'[q] = res[q]
      BY <1>1 DEF SendCheck, ResendCheck, ReportCheck, DetachCheck, CgiCrash, CgiStep, SendJob, SendMark,
         ResendJob, ResendMark, ExpireMark, ExpireJob, ReportRow, ReportJob, DetachRow, DetachJob, dbVars,
         SetRow
    <3>2. client'[q] = client[q]
      BY <1>1 DEF SendCheck, ResendCheck, ReportCheck, DetachCheck, CgiCrash, CgiStep, SendJob, SendMark,
         ResendJob, ResendMark, ExpireMark, ExpireJob, ReportRow, ReportJob, DetachRow, DetachJob,
         Acknowledge
    <3>3. cgi'[q] = cgi[q] /\ detach'[q] = detach[q]
      BY <1>1 DEF SendCheck, ResendCheck, ReportCheck, DetachCheck, CgiCrash, CgiStep, SendJob, SendMark,
         ResendJob, ResendMark, ExpireMark, ExpireJob, ReportRow, ReportJob, DetachRow, DetachJob,
         CgiGoes, CgiEnds
    <3> QED
      BY <3>1, <3>2, <3>3
  <2>4. /\ RowStep(r) /\ RequestFresh(r)'
        /\ client[r] = "none" => client'[r] = "none" \/ res'[r].server_state = "IN_PROGRESS"
        /\ client'[r] = "acked" /\ client[r] # "acked" => res'[r] = res[r] /\ res[r].received
    <3>1. CASE SendCheck(r) \/ ResendCheck(r) \/ (ReportCheck(r) /\ Accepts(res[r]))
               \/ SendJob(r) \/ ResendJob(r) \/ ExpireJob(r) \/ CgiCrash(r)
      <4>1. UNCHANGED <<res, client, detach>>
        BY <3>1 DEF SendCheck, ResendCheck, ReportCheck, SendJob, ResendJob, ExpireJob, CgiCrash, dbVars
      <4>2. cgi'[r].pc \notin {"reported", "report"} \/ (cgi'[r].pc = "report" /\ Accepts(res[r]))
        BY <1>1, <3>1 DEF SendCheck, ResendCheck, ReportCheck, SendJob, ResendJob, ExpireJob, CgiCrash,
           CgiGoes, CgiEnds, CgiIdle
      <4> QED
        BY <1>1, <4>1, <4>2, RowsUnchanged DEF RequestFresh
    <3>2. CASE SendMark(r) \/ ResendMark(r) \/ ExpireMark(r)
      <4>1. cgi'[r].pc \notin {"reported", "report"} /\ UNCHANGED detach
        BY <1>1, <3>2 DEF SendMark, ResendMark, ExpireMark, CgiGoes, CgiEnds, CgiIdle
      <4>2. CASE UNCHANGED res /\ UNCHANGED client
        BY <1>1, <4>1, <4>2, RowsUnchanged DEF RequestFresh
      <4>3. CASE ~(UNCHANGED res /\ UNCHANGED client)
        <5>1. /\ res'[r].server_state = "IN_PROGRESS"
              /\ client'[r] = client[r] \/ client'[r] \in {"computing", "lost"}
          BY <1>1, <3>2, <4>3 DEF SendMark, ResendMark, ExpireMark, Delivered, ResultRow
        <5>2. RowSent(r) \/ RowKept(r)
          BY <1>1, <3>2, <4>3 DEF SendMark, ResendMark, ExpireMark, ResultRow, RowSent, RowMoves,
             RowKept, Same
        <5> QED
          BY <1>1, <4>1, <5>1, <5>2 DEF RequestFresh, RowStep
      <4> QED
        BY <4>2, <4>3
    <3>3. CASE ReportRow(r)
      <4>1. cgi[r].pc = "report" /\ Accepts(res[r]) /\ Exists(res[r]) /\ detach'[r] = "idle"
        BY <1>1, <1>4, <3>3 DEF ReportRow, RequestFresh, Accepts, Exists, Over
      <4>2. res'[r] = Reported(r)
        BY <1>1, <3>3, <4>1 DEF ReportRow, SetRow
      <4>3. /\ Over(res'[r]) /\ res'[r].received /\ res'[r].outcome \in {"SUCCESS", "CLIENT_ERROR"}
            /\ res'[r].file_delete_state = res[r].file_delete_state
        BY <1>1, <4>2 DEF Reported, Over, ResultRow
      <4>4. client' = client /\ cgi'[r].pc = "reported"
        BY <1>1, <3>3, <4>1 DEF ReportRow, CgiGoes
      <4>5. RowReported(r)
        BY <4>1, <4>3 DEF RowReported
      <4> QED
        BY <4>1, <4>3, <4>4, <4>5 DEF RequestFresh, RowStep
    <3>4. CASE ReportJob(r)
      <4>1. UNCHANGED <<res, detach>> /\ cgi'[r].pc = "idle"
        BY <1>1, <3>4 DEF ReportJob, CgiEnds, CgiIdle
      <4>2. client'[r] = client[r] \/ (client'[r] = "acked" /\ cgi[r].pc = "reported")
        BY <1>1, <3>4 DEF ReportJob, Acknowledge
      <4>3. client'[r] # client[r] => res[r].received
        BY <1>1, <4>2 DEF RequestFresh
      <4>4. client[r] # "none" \/ client'[r] = "none"
        <5>1. cgi[r].pc = "reported" => HandedIn(r)
          BY <1>1 DEF RequestFresh, RecordsInv, ToldSound, AnyTold, Told
        <5> QED
          BY <4>2, <5>1 DEF HandedIn
      <4> QED
        BY <1>1, <4>1, <4>2, <4>3, <4>4, RowsUnchanged DEF RequestFresh
    <3>5. CASE DetachCheck(r) \/ DetachRow(r) \/ DetachJob(r)
      <4>1. UNCHANGED <<cgi, client>>
        BY <3>5 DEF DetachCheck, DetachRow, DetachJob
      <4>2. CASE DetachCheck(r) \/ DetachJob(r)
        BY <1>1, <4>1, <4>2, RowsUnchanged DEF DetachCheck, DetachJob, RequestFresh, dbVars
      <4>3. CASE DetachRow(r)
        <5>1. /\ "detach" \in Faults /\ res[r].server_state = "IN_PROGRESS" /\ Exists(res[r])
              /\ cgi[r].pc = "idle" /\ detach'[r] = "job"
          BY <1>1, <1>4, <4>3 DEF DetachRow, RequestFresh, Exists
        <5>2. res'[r] = [res[r] EXCEPT !.server_state = "OVER", !.outcome = "CLIENT_DETACHED",
                                       !.received = TRUE]
          BY <1>1, <4>3, <5>1 DEF DetachRow, SetRow
        <5>3. /\ Over(res'[r]) /\ res'[r].outcome = "CLIENT_DETACHED" /\ res'[r].received
              /\ res'[r].file_delete_state = res[r].file_delete_state
          BY <1>1, <5>2 DEF Over, ResultRow
        <5> QED
          BY <4>1, <5>1, <5>3 DEF RequestFresh, RowStep, RowDetached
      <4> QED
        BY <3>5, <4>2, <4>3
    <3> QED
      BY <3>1, <3>2, <3>3, <3>4, <3>5 DEF CgiStep
  <2> QED
    BY <2>1, <2>2, <2>3, <2>4 DEF OneRequest
<1>6. OrderlyStep /\ CgiFresh'
  BY <1>1, <1>5, OneRequestOrderly
<1> QED
  BY <1>3, <1>6 DEF FreshInv

-----------------------------------------------------------------------------
(* The transitioner: what it writes is its copy of the row but for the      *)
(* fields the step is about.                                                *)

LEMMA TransitionerWrites ==
  ASSUME TypeOK, TrFresh, ~TrOff, NEW r \in Result, NEW item \in ResultRow, TrWriteResult(r, item),
         Same(tr.items[r], res[r]), Exists(tr.items[r]),
         tr'.wu = tr.wu, tr'.error_mask = tr.error_mask, tr'.new = tr.new,
         tr'.items = [tr.items EXCEPT ![r] = item],
         tr'.pc = tr.pc \/ (tr.pc = "fetched" /\ tr'.pc = "scan")
  PROVE  /\ Same(res'[r], item) /\ res'[r].received = res[r].received
         /\ \A q \in Result \ {r} : RowStep(q)
         /\ wu' = wu /\ file' = file
         /\ TrFresh'
<1>1. res \in [Result -> ResultRow] /\ res[r] \in ResultRow /\ tr.items \in [Result -> ResultRow]
  BY DEF TypeOK, DBTypeOK, TrTypeOK
<1>2. Exists(res[r])
  BY DEF Same, Exists
<1>3. /\ \A q \in Result \ {r} : res'[q] = res[q] /\ tr'.items[q] = tr.items[q]
      /\ tr'.items[r] = item /\ wu' = wu /\ file' = file
      /\ res'[r] = [res[r] EXCEPT !.server_state = item.server_state, !.outcome = item.outcome,
                                  !.validate_state = item.validate_state,
                                  !.file_delete_state = item.file_delete_state]
  BY <1>1, <1>2 DEF TrWriteResult, SetRow
<1>4. Same(res'[r], item) /\ res'[r].received = res[r].received
  BY <1>1, <1>3 DEF Same, ResultRow
<1>5. TrFresh'
  <2>1. ASSUME NEW q \in Result \ {r} PROVE Same(tr'.items[q], res'[q]) \/ JustCreated(q)'
    <3>1. Same(tr.items[q], res[q]) \/ JustCreated(q)
      BY DEF TrFresh
    <3>2. CASE Same(tr.items[q], res[q])
      BY <1>3, <3>2
    <3>3. CASE JustCreated(q)
      BY <1>3, <3>3 DEF JustCreated
    <3> QED
      BY <3>1, <3>2, <3>3
  <2>2. Same(tr'.items[r], res'[r])
    BY <1>3, <1>4 DEF Same
  <2> QED
    BY <1>3, <2>1, <2>2 DEF TrFresh, TrOff
<1> QED
  BY <1>3, <1>4, <1>5 DEF RowStep, RowKept, Same

LEMMA TransitionerRowOrderly ==
  ASSUME TypeOK, FreshInv, NEW r \in Result, TrTimeOut(r) \/ TrTooLate(r) \/ TrClose(r) \/ TrDelete(r)
  PROVE  /\ \A q \in Result : RowStep(q)
         /\ wu' = wu /\ file' = file
         /\ TrFresh'
<1> DEFINE timedOut == [tr.items[r] EXCEPT !.server_state = "OVER", !.outcome = "NO_REPLY"]
           late     == [tr.items[r] EXCEPT !.validate_state = "TOO_LATE"]
           unneeded == [tr.items[r] EXCEPT !.server_state = "OVER", !.outcome = "DIDNT_NEED"]
           skipped  == [tr.items[r] EXCEPT !.validate_state = "NO_CHECK"]
           deleted  == [tr.items[r] EXCEPT !.file_delete_state = "READY"]
<1>1. tr.items[r] \in ResultRow /\ tr.items \in [Result -> ResultRow] /\ res[r] \in ResultRow
  BY DEF TypeOK, TrTypeOK, DBTypeOK
<1>2. /\ {timedOut, late, unneeded, skipped, deleted} \subseteq ResultRow
      /\ timedOut.server_state = "OVER" /\ timedOut.outcome = "NO_REPLY"
      /\ timedOut.validate_state = tr.items[r].validate_state
      /\ timedOut.file_delete_state = tr.items[r].file_delete_state
      /\ unneeded.server_state = "OVER" /\ unneeded.outcome = "DIDNT_NEED"
      /\ unneeded.validate_state = tr.items[r].validate_state
      /\ unneeded.file_delete_state = tr.items[r].file_delete_state
  <2>1. {timedOut, unneeded} \subseteq ResultRow
    BY <1>1 DEF ResultRow, ServerState, Outcome
  <2>2. {late, skipped, deleted} \subseteq ResultRow
    BY <1>1 DEF ResultRow, ValidateState, FileDelete
  <2>3. /\ timedOut.server_state = "OVER" /\ timedOut.outcome = "NO_REPLY"
        /\ timedOut.validate_state = tr.items[r].validate_state
        /\ timedOut.file_delete_state = tr.items[r].file_delete_state
    BY <1>1 DEF ResultRow
  <2>4. /\ unneeded.server_state = "OVER" /\ unneeded.outcome = "DIDNT_NEED"
        /\ unneeded.validate_state = tr.items[r].validate_state
        /\ unneeded.file_delete_state = tr.items[r].file_delete_state
    BY <1>1 DEF ResultRow
  <2> HIDE DEF timedOut, late, unneeded, skipped, deleted
  <2> QED
    BY <2>1, <2>2, <2>3, <2>4
<1>3. /\ \A row \in {late, skipped} :
           /\ row.server_state = tr.items[r].server_state /\ row.outcome = tr.items[r].outcome
           /\ row.file_delete_state = tr.items[r].file_delete_state
      /\ deleted.server_state = tr.items[r].server_state /\ deleted.outcome = tr.items[r].outcome
      /\ deleted.validate_state = tr.items[r].validate_state
  BY <1>1 DEF ResultRow
<1>4. ~TrOff /\ TrFresh
  BY DEF FreshInv, TrOff, TrTimeOut, TrTooLate, TrClose, TrDelete
<1>5. Exists(tr.items[r]) /\ Same(tr.items[r], res[r])
  <2>1. Exists(tr.items[r])
    BY DEF TrTimeOut, TrTooLate, TrClose, TrDelete, TimedOut, TooLate, Awaiting, ToClose, Unneeded,
       Unchecked, Deletable, Success, Over, Exists
  <2> QED
    BY <1>4, <2>1 DEF TrFresh, JustCreated, Exists
<1> HIDE DEF timedOut, late, unneeded, skipped, deleted
<1>6. CASE TrTimeOut(r)
  <2>1. /\ TrWriteResult(r, timedOut) /\ tr' = [tr EXCEPT !.pc = "scan", !.items[r] = timedOut]
        /\ tr.pc \in {"fetched", "scan"} /\ tr.items[r].server_state = "IN_PROGRESS"
    BY <1>6 DEF TrTimeOut, TimedOut, timedOut
  <2>2. /\ tr'.wu = tr.wu /\ tr'.error_mask = tr.error_mask /\ tr'.new = tr.new
        /\ tr'.items = [tr.items EXCEPT ![r] = timedOut] /\ tr'.pc = "scan"
    BY <2>1 DEF TypeOK, TrTypeOK
  <2>3. /\ Same(res'[r], timedOut) /\ res'[r].received = res[r].received
        /\ \A q \in Result \ {r} : RowStep(q)
        /\ wu' = wu /\ file' = file
        /\ TrFresh'
    BY <1>2, <1>4, <1>5, <2>1, <2>2, TransitionerWrites
  <2>4. RowGivenUp(r)
    BY <1>2, <1>5, <2>1, <2>3 DEF RowGivenUp, RowMoves, Same
  <2> QED
    BY <2>3, <2>4 DEF RowStep
<1>7. CASE TrTooLate(r)
  <2>1. /\ TrWriteResult(r, late) /\ tr' = [tr EXCEPT !.pc = "scan", !.items[r] = late]
        /\ tr.pc \in {"fetched", "scan"} /\ Success(tr.items[r]) /\ tr.items[r].validate_state = "INIT"
    BY <1>7 DEF TrTooLate, TooLate, Awaiting, late
  <2>2. /\ tr'.wu = tr.wu /\ tr'.error_mask = tr.error_mask /\ tr'.new = tr.new
        /\ tr'.items = [tr.items EXCEPT ![r] = late] /\ tr'.pc = "scan"
    BY <2>1 DEF TypeOK, TrTypeOK
  <2>3. /\ Same(res'[r], late) /\ res'[r].received = res[r].received
        /\ \A q \in Result \ {r} : RowStep(q)
        /\ wu' = wu /\ file' = file
        /\ TrFresh'
    BY <1>2, <1>4, <1>5, <2>1, <2>2, TransitionerWrites
  <2>4. RowJudged(r)
    BY <1>3, <1>5, <2>1, <2>3 DEF RowJudged, Same, Success, Over
  <2> QED
    BY <2>3, <2>4 DEF RowStep
<1>8. CASE TrClose(r)
  <2>1. \/ TrWriteResult(r, unneeded) /\ tr' = [tr EXCEPT !.items[r] = unneeded]
           /\ tr.items[r].server_state = "UNSENT"
        \/ TrWriteResult(r, skipped) /\ tr' = [tr EXCEPT !.items[r] = skipped]
           /\ Success(tr.items[r]) /\ tr.items[r].validate_state \in {"INIT", "INCONCLUSIVE"}
    BY <1>8 DEF TrClose, ToClose, Unneeded, Unchecked, unneeded, skipped
  <2>2. PICK item \in {unneeded, skipped} :
          /\ TrWriteResult(r, item) /\ tr' = [tr EXCEPT !.items[r] = item]
          /\ \/ item = unneeded /\ tr.items[r].server_state = "UNSENT"
             \/ /\ item = skipped /\ Success(tr.items[r])
                /\ tr.items[r].validate_state \in {"INIT", "INCONCLUSIVE"}
    BY <2>1
  <2>3. /\ tr'.wu = tr.wu /\ tr'.error_mask = tr.error_mask /\ tr'.new = tr.new
        /\ tr'.items = [tr.items EXCEPT ![r] = item] /\ tr'.pc = tr.pc
    BY <2>2 DEF TypeOK, TrTypeOK
  <2>4. /\ Same(res'[r], item) /\ res'[r].received = res[r].received
        /\ \A q \in Result \ {r} : RowStep(q)
        /\ wu' = wu /\ file' = file
        /\ TrFresh'
    BY <1>2, <1>4, <1>5, <2>2, <2>3, TransitionerWrites
  <2>5. item = unneeded /\ tr.items[r].server_state = "UNSENT" => RowCalledOff(r)
    BY <1>2, <1>5, <2>4 DEF RowCalledOff, RowMoves, Same
  <2>6. ASSUME item = skipped, Success(tr.items[r]),
               tr.items[r].validate_state \in {"INIT", "INCONCLUSIVE"}
        PROVE  RowJudged(r)
    BY <1>3, <1>5, <2>4, <2>6 DEF RowJudged, Same, Success, Over
  <2> QED
    BY <2>2, <2>4, <2>5, <2>6 DEF RowStep
<1>9. CASE TrDelete(r)
  <2>1. TrWriteResult(r, deleted) /\ tr' = [tr EXCEPT !.items[r] = deleted] /\ DeletableNow
    BY <1>9 DEF TrDelete, Deletable, deleted
  <2>2. /\ tr'.wu = tr.wu /\ tr'.error_mask = tr.error_mask /\ tr'.new = tr.new
        /\ tr'.items = [tr.items EXCEPT ![r] = deleted] /\ tr'.pc = tr.pc
    BY <2>1 DEF TypeOK, TrTypeOK
  <2>3. /\ Same(res'[r], deleted) /\ res'[r].received = res[r].received
        /\ \A q \in Result \ {r} : RowStep(q)
        /\ wu' = wu /\ file' = file
        /\ TrFresh'
    BY <1>2, <1>4, <1>5, <2>1, <2>2, TransitionerWrites
  <2>4. wu.assimilate_state = "DONE"
    BY <1>4, <2>1 DEF DeletableNow, TrAssimilate, TrFresh
  <2>5. RowFiles(r)
    BY <1>3, <1>5, <2>3, <2>4 DEF RowFiles, Same
  <2> QED
    BY <2>3, <2>5 DEF RowStep
<1> QED
  BY <1>6, <1>7, <1>8, <1>9

LEMMA TransitionerOrderly ==
  ASSUME TypeOK, FreshInv, JobInv, Exclusive, Exclusive', TrNext,
         UNCHANGED <<va, schedVars, as, deleterVars, cancel>>
  PROVE  OrderlyStep /\ FreshInv'
<1>1. VaOff /\ AsOff /\ FdOff /\ PurgeOff /\ CgiOff /\ DetachOff
  BY TransitionerAlone
<1>2. VaFresh' /\ AsFresh' /\ FdFresh' /\ PurgeFresh' /\ CgiFresh'
  <2>1. UNCHANGED va /\ UNCHANGED as /\ UNCHANGED deleterVars /\ UNCHANGED schedVars
    OBVIOUS
  <2> QED
    BY <1>1, <2>1, IdleStays
<1>3. /\ res \in [Result -> ResultRow] /\ wu \in WuRow /\ TrTypeOK
      /\ UNCHANGED <<inputs, client>>
  BY DEF TypeOK, DBTypeOK, deleterVars, schedVars
<1>4. TrFresh' /\ file' = file /\ WuStep /\ \A r \in Result : RowStep(r)
  <2>1. CASE TrEnumerate
    <3>1. /\ tr'.pc = "fetched" /\ tr'.wu = wu /\ tr'.items = res /\ tr'.new = 0
          /\ UNCHANGED <<wu, res, file>> /\ wu.exists /\ wu.transition_time = "due"
      BY <2>1 DEF TrEnumerate, TrIdle, dbVars
    <3>2. TrFresh'
      BY <3>1 DEF TrFresh, Same
    <3> QED
      BY <3>1, <3>2, JobWokenStep, RowsUnchanged DEF JobWoken
  <2>2. CASE TrDecide
    <3>1. ~TrOff /\ tr.pc # "act" /\ TrFresh /\ UNCHANGED <<wu, res, file>>
      BY <2>2 DEF TrDecide, TrOff, FreshInv, dbVars
    <3>2. /\ tr'.pc = "act" /\ tr'.wu = tr.wu /\ tr'.items = tr.items /\ tr'.error_mask = TrErrors
          /\ tr'.new # 0 => TrErrors = {} /\ tr.wu.canonical_resultid = 0
      BY <1>3, <2>2, Zenon DEF TrDecide, TrTypeOK
    <3>3. tr.wu.error_mask \subseteq TrErrors
      BY DEF TrErrors
    <3>4. \A r \in Result : Same(tr.items[r], res[r])
      BY <3>1 DEF TrFresh, JustCreated
    <3>5. TrFresh'
      <4>1. /\ wu'.exists /\ wu'.transition_time = "due" /\ tr'.wu = wu' /\ wu'.error_mask \subseteq tr'.error_mask
            /\ tr'.new > 0 => tr'.pc = "act" /\ tr'.error_mask = {} /\ wu'.canonical_resultid = 0
        BY <3>1, <3>2, <3>3 DEF TrFresh
      <4>2. \A r \in Result : Same(tr'.items[r], res'[r])
        BY <3>1, <3>2, <3>4
      <4> QED
        BY <4>1, <4>2 DEF TrFresh
    <3> QED
      BY <3>1, <3>5, JobWokenStep, RowsUnchanged DEF JobWoken
  <2>3. ASSUME NEW r \in Result, TrTimeOut(r) \/ TrTooLate(r) \/ TrClose(r) \/ TrDelete(r)
        PROVE  TrFresh' /\ file' = file /\ WuStep /\ \A q \in Result : RowStep(q)
    BY <2>3, TransitionerRowOrderly, JobWokenStep DEF JobWoken
  <2>4. CASE TrCreate
    <3>1. /\ tr.pc = "act" /\ ~TrOff /\ TrFresh /\ UNCHANGED <<wu, file>> /\ tr.new > 0
          /\ tr.error_mask = {} /\ wu.canonical_resultid = 0 /\ wu.exists /\ wu.error_mask = {}
      BY <2>4 DEF TrCreate, TrOff, FreshInv, TrFresh
    <3>2. /\ tr'.pc = "act" /\ tr'.wu = tr.wu /\ tr'.items = tr.items /\ tr'.error_mask = tr.error_mask
          /\ tr'.new = 0
      BY <1>3, <2>4 DEF TrCreate, TrTypeOK
    <3>3. ASSUME NEW r \in Result
          PROVE  RowStep(r) /\ (Same(tr'.items[r], res'[r]) \/ JustCreated(r)')
      <4>1. Same(tr.items[r], res[r])
        BY <1>3, <3>1 DEF TrFresh, JustCreated, TrTypeOK
      <4>2. CASE res'[r] = res[r]
        BY <3>2, <4>1, <4>2 DEF RowStep, RowKept, Same
      <4>3. CASE res'[r] # res[r]
        <5>1. res[r].server_state = "NONE" /\ res'[r] = NewRow
          BY <2>4, <4>3 DEF TrCreate, NextIds, Fresh
        <5>2. RowCreated(r)
          BY <3>1, <5>1 DEF RowCreated
        <5>3. JustCreated(r)'
          BY <3>1, <3>2, <4>1, <5>1 DEF JustCreated, Same, NewRow, UnusedRow
        <5> QED
          BY <5>2, <5>3 DEF RowStep
      <4> QED
        BY <4>2, <4>3
    <3>4. TrFresh'
      BY <3>1, <3>2, <3>3 DEF TrFresh
    <3> QED
      BY <3>1, <3>3, <3>4, JobWokenStep DEF JobWoken
  <2>5. CASE TrUpdateWorkunit
    <3>1. /\ tr.pc = "act" /\ ToClose = {} /\ UNCHANGED <<res, file>> /\ tr' = TrIdle
          /\ ~TrOff /\ TrFresh
      BY <2>5 DEF TrUpdateWorkunit, TrOff, FreshInv
    <3>2. wu.exists /\ tr.wu = wu /\ wu.error_mask \subseteq tr.error_mask
      BY <3>1 DEF TrFresh
    <3>3. /\ wu'.exists /\ wu'.error_mask = tr.error_mask
          /\ wu'.canonical_resultid = wu.canonical_resultid
          /\ wu'.assimilate_state = TrAssimilate
          /\ wu'.file_delete_state = TrFileDelete
      <4>1. \A new, old : Changed(new, old, old) = new
        BY DEF Changed
      <4>2. wu' = [wu EXCEPT !.need_validate = tr.need_validate, !.error_mask = tr.error_mask,
                             !.assimilate_state = TrAssimilate, !.file_delete_state = TrFileDelete,
                             !.transition_time = TrTransitionTime]
        BY <2>5, <3>2, <4>1, Zenon DEF TrUpdateWorkunit, SetWu
      <4> QED
        BY <1>3, <3>2, <4>2 DEF WuRow
    <3>4. TrAssimilate # "INIT" => wu.assimilate_state # "INIT" \/ wu.canonical_resultid # 0
                                     \/ tr.error_mask # {}
      BY <3>2 DEF TrAssimilate
    <3>5. wu.assimilate_state = "DONE" => TrAssimilate = "DONE"
      BY <3>2 DEF TrAssimilate
    <3>6. wu.file_delete_state # "INIT" => TrFileDelete # "INIT"
      BY <3>2 DEF TrFileDelete
    <3>7. ASSUME wu.file_delete_state = "INIT", TrFileDelete # "INIT"
          PROVE  wu.assimilate_state = "DONE" /\ \A r \in Result : ~Live(res[r])
      <4>1. DeletableNow /\ AllOverAndValidated
        BY <3>2, <3>7 DEF TrFileDelete
      <4>2. wu.assimilate_state = "DONE"
        BY <3>2, <4>1 DEF DeletableNow, TrAssimilate
      <4>3. wu.canonical_resultid # 0 \/ tr.error_mask # {}
        BY <3>2, <4>2 DEF JobInv, ReadyHasReason
      <4>4. \A r \in Result : Same(tr.items[r], res[r])
        BY <3>1, <4>3 DEF TrFresh, JustCreated
      <4> QED
        BY <4>1, <4>2, <4>4 DEF AllOverAndValidated, Same, Live, Exists, Over
    <3>8. ASSUME tr.error_mask # {} PROVE \A r \in Result : res[r].server_state # "UNSENT"
      <4>1. \A r \in Result : Same(tr.items[r], res[r])
        BY <3>1, <3>8 DEF TrFresh, JustCreated
      <4> QED
        BY <3>1, <3>8, <4>1 DEF ToClose, Unneeded, Same
    <3>9. WuStep
      BY <3>1, <3>2, <3>3, <3>4, <3>5, <3>6, <3>7, <3>8 DEF WuStep
    <3>10. TrFresh'
      BY <3>1 DEF TrFresh, TrOff, TrIdle
    <3> QED
      BY <3>1, <3>9, <3>10, RowsUnchanged
  <2>6. CASE TrCrash
    <3>1. TrFresh'
      BY <2>6 DEF TrCrash, TrFresh, TrOff, TrIdle
    <3> QED
      BY <2>6, <3>1, JobWokenStep, RowsUnchanged DEF TrCrash, JobWoken, dbVars
  <2> QED
    BY <2>1, <2>2, <2>3, <2>4, <2>5, <2>6 DEF TrNext, TrStep
<1> QED
  BY <1>2, <1>3, <1>4, FilesUnchanged, ClientsUnchanged DEF OrderlyStep, FreshInv

-----------------------------------------------------------------------------
(* The validator. *)

(* What check_set() leaves to be written, and of the job. *)
ToWrite(items) ==
    {r \in Result : \/ items[r] # va.items[r]
                    \/ r \in SuccessItems /\ items[r].validate_state \in {"VALID", "INVALID"}}

LEMMA AfterCheckSetRest ==
  ASSUME VaTypeOK, NEW bad, NEW unseen, va' = AfterCheckSet(bad, unseen),
         NEW c \in Result \cup {0}, c = ChosenCanonical(SuccessItems \ (bad \cup unseen)),
         NEW items, items = CheckedItems(bad, unseen, c),
         NEW n \in Nat, n = Cardinality(SuccessItems \ bad)
  PROVE  /\ va'.todo = ToWrite(items)
         /\ va'.wu = IF c # 0 THEN JobWithCanonical(c) ELSE JobWithoutConsensus(n)
         /\ c # 0 => va'.tt = "NEVER"
         /\ c = 0 => va'.tt \in {"IMMEDIATE", "NO_CHANGE"}
         /\ c = 0 /\ n > MaxSuccess => va'.tt = "IMMEDIATE"
<1> DEFINE todo == ToWrite(items)
           job == IF c # 0 THEN JobWithCanonical(c) ELSE JobWithoutConsensus(n)
           tt == IF c # 0 THEN "NEVER"
                 ELSE IF bad # {} \/ n > MaxSuccess \/ n >= va.wu.target_nresults
                 THEN "IMMEDIATE" ELSE "NO_CHANGE"
<1>1. va' = [va EXCEPT !.pc = "write", !.items = items, !.todo = todo, !.wu = job, !.tt = tt]
  BY DEF AfterCheckSet, ToWrite
<1>2. /\ c # 0 => tt = "NEVER"
      /\ c = 0 => tt \in {"IMMEDIATE", "NO_CHANGE"}
      /\ c = 0 /\ n > MaxSuccess => tt = "IMMEDIATE"
  OBVIOUS
<1> HIDE DEF tt
<1>3. va'.todo = todo /\ va'.wu = job /\ va'.tt = tt
  BY <1>1 DEF VaTypeOK
<1> QED
  BY <1>2, <1>3

LEMMA UnsentUnchecked ==
  ASSUME RecordsInv, NEW r \in Result, res[r].server_state = "UNSENT"
  PROVE  res[r].validate_state = "INIT"
  BY DEF RecordsInv, ToldSound, AnyTold, Told, HandedIn, Ended

LEMMA CheckSetFresh ==
  ASSUME TypeOK, CopiesConsistent, RecordsInv, "crash" \notin Faults => AgreeInv, VaFresh, VaCheckSet
  PROVE  VaFresh'
<1>1. /\ va.pc = "fetched" /\ va.wu.canonical_resultid = 0 /\ UNCHANGED <<wu, res, file>>
      /\ ~VaOff /\ wu.exists /\ (va.wu.transition_time = "never" => wu.transition_time = "never")
      /\ VaReadFresh /\ VaItemsFresh
  BY DEF VaCheckSet, VaFresh, VaOff, dbVars
<1>2. PICK unseen \in SUBSET SuccessItems, bad \in SUBSET SuccessItems :
        /\ va' = AfterCheckSet(bad, unseen)
        /\ \A r \in SuccessItems : ~Readable(r) => r \in bad \cup unseen
  BY DEF VaCheckSet
<1>3. PICK c : c = ChosenCanonical(SuccessItems \ (bad \cup unseen))
  OBVIOUS
<1>4. PICK n : n = Cardinality(SuccessItems \ bad)
  OBVIOUS
<1>5. bad \in SUBSET Result /\ unseen \in SUBSET Result
  BY DEF SuccessItems
<1>6. c = 0 \/ c \in SuccessItems \ (bad \cup unseen)
  <2>1. SuccessItems \ (bad \cup unseen) \in SUBSET Result
    BY DEF SuccessItems
  <2> QED
    BY <1>3, <2>1, ChosenCanonicalType
<1>0. PICK items : items = CheckedItems(bad, unseen, c)
  OBVIOUS
<1>7. va'.pc = "write" /\ va'.wu.canonical_resultid = c /\ va'.items = items
  BY <1>0, <1>1, <1>2, <1>3, <1>5, AfterCheckSetFields DEF TypeOK
<1>8. /\ va'.todo = ToWrite(items)
      /\ va'.wu = IF c # 0 THEN JobWithCanonical(c) ELSE JobWithoutConsensus(n)
      /\ c = 0 => va'.tt \in {"IMMEDIATE", "NO_CHANGE"}
      /\ c = 0 /\ n > MaxSuccess => va'.tt = "IMMEDIATE"
  <2>1. VaTypeOK /\ va' = AfterCheckSet(bad, unseen)
    BY <1>2 DEF TypeOK
  <2>2. c \in Result \cup {0}
    BY <1>6 DEF SuccessItems
  <2>3. n \in Nat
    BY <1>4, CountType DEF SuccessItems
  <2> QED
    BY <1>0, <1>3, <1>4, <2>1, <2>2, <2>3, AfterCheckSetRest
<1>9. \A r \in Result : Same(va.items[r], res[r]) /\ va.items[r] \in ResultRow
  BY <1>1 DEF VaReadFresh, VaItemsFresh, TypeOK, VaTypeOK
<1>10. ASSUME NEW r \in va'.todo PROVE JudgedItem(r)' \/ CalledOffItem(r)'
  <2>1. r \in Result /\ (items[r] # va.items[r] \/ r \in SuccessItems)
    BY <1>8 DEF ToWrite
  <2>2. Over(items[r])
    BY <1>0, <2>1, CheckedItemsOver, ConsistentParts DEF TypeOK
  <2>3. CASE r \in SuccessItems
    <3>1. Success(res[r]) /\ va.items[r].outcome = "SUCCESS"
      BY <1>9, <2>1, <2>3 DEF SuccessItems, Success, Over, Same
    <3>2. items[r] = Checked(r, bad, unseen, c)
      BY <1>0, <2>1, <2>3 DEF CheckedItems
    <3>3. \/ items[r].outcome = "SUCCESS"
          \/ items[r].outcome = "VALIDATE_ERROR" /\ items[r].validate_state = "INVALID"
      BY <1>9, <2>1, <3>1, <3>2 DEF Checked, ResultRow
    <3> QED
      BY <1>1, <1>7, <2>2, <3>1, <3>3 DEF JudgedItem
  <2>4. CASE r \notin SuccessItems
    <3>1. va.items[r].server_state = "UNSENT"
          /\ items[r] = [va.items[r] EXCEPT !.server_state = "OVER", !.outcome = "DIDNT_NEED"]
      BY <1>0, <2>1, <2>4 DEF CheckedItems, CalledOff
    <3>2. res[r].server_state = "UNSENT" /\ va.items[r].validate_state = "INIT"
      BY <1>9, <2>1, <3>1, UnsentUnchecked DEF Same
    <3>3. items[r].outcome = "DIDNT_NEED" /\ items[r].validate_state = "INIT"
      BY <1>9, <2>1, <3>1, <3>2 DEF ResultRow
    <3> QED
      BY <1>1, <1>7, <2>2, <3>2, <3>3 DEF CalledOffItem
  <2> QED
    BY <2>3, <2>4
<1>11. ASSUME "crash" \notin Faults PROVE \A r \in va'.todo : res'[r].validate_state # "VALID"
  BY <1>1, <1>8, <1>11 DEF ToWrite, AgreeInv, Undecided, AnyValid, Valid
<1>12. va.wu \in WuRow
  BY DEF TypeOK, VaTypeOK
<1>13. ASSUME c = 0
       PROVE  /\ va'.wu.assimilate_state = wu.assimilate_state /\ va'.tt # "NEVER"
              /\ va'.wu.error_mask = wu.error_mask \/ va'.tt = "IMMEDIATE"
              /\ wu.error_mask \subseteq va'.wu.error_mask
              /\ va'.wu.transition_time = va.wu.transition_time
  BY <1>1, <1>8, <1>12, <1>13 DEF VaReadFresh, JobWithoutConsensus, WuRow
<1>14. ASSUME c # 0
       PROVE  /\ va'.wu.error_mask = wu.error_mask /\ file[c] # "none"
              /\ va'.wu.transition_time = va.wu.transition_time
              /\ \A r \in Result : res[r].server_state = "UNSENT" => r \in va'.todo
  <2>1. va'.wu.error_mask = wu.error_mask /\ va'.wu.transition_time = va.wu.transition_time
    BY <1>1, <1>8, <1>12, <1>14 DEF VaReadFresh, JobWithCanonical, WuRow
  <2>2. file[c] # "none"
    BY <1>2, <1>6, <1>14 DEF Readable
  <2>3. ASSUME NEW r \in Result, res[r].server_state = "UNSENT" PROVE r \in va'.todo
    <3>1. va.items[r].server_state = "UNSENT" /\ r \notin SuccessItems
      BY <1>9, <2>3 DEF Same, SuccessItems, Success, Over
    <3>2. items[r] = [va.items[r] EXCEPT !.server_state = "OVER", !.outcome = "DIDNT_NEED"]
      BY <1>0, <1>14, <2>3, <3>1 DEF CheckedItems, CalledOff
    <3>3. items[r].server_state = "OVER"
      BY <1>9, <3>2 DEF ResultRow
    <3> QED
      BY <1>8, <2>3, <3>1, <3>3 DEF ToWrite
  <2> QED
    BY <2>1, <2>2, <2>3
<1>15. VaWriteFresh'
  <2>1. wu'.canonical_resultid = 0 /\ wu'.error_mask \subseteq va'.wu.error_mask
    BY <1>1, <1>13, <1>14 DEF VaReadFresh
  <2>2. va'.wu.canonical_resultid = 0 =>
          /\ va'.wu.assimilate_state = wu'.assimilate_state /\ va'.tt # "NEVER"
          /\ va'.wu.error_mask = wu'.error_mask \/ va'.tt = "IMMEDIATE"
    BY <1>1, <1>7, <1>13
  <2>3. va'.wu.canonical_resultid # 0 =>
          /\ va'.wu.error_mask = wu'.error_mask /\ file'[va'.wu.canonical_resultid] # "none"
          /\ \A r \in Result : res'[r].server_state = "UNSENT" => r \in va'.todo
    BY <1>1, <1>7, <1>14
  <2> QED
    BY <1>10, <1>11, <2>1, <2>2, <2>3 DEF VaWriteFresh
<1> QED
  BY <1>1, <1>7, <1>13, <1>14, <1>15 DEF VaFresh, VaReadFresh, VaItemsFresh

LEMMA ValidatorJobOrderly ==
  ASSUME TypeOK, JobInv, VaFresh, VaUpdateWorkunit
  PROVE  WuStep /\ VaOff'
<1>1. /\ va.pc # "idle" /\ wu.exists /\ UNCHANGED <<res, file>> /\ va'.pc = "idle"
      /\ (va.wu.transition_time = "never" => wu.transition_time = "never")
      /\ VaReadFresh /\ VaWriteFresh
  BY DEF VaUpdateWorkunit, VaFresh, VaOff, HasCanonical, VaIdle
<1>2. wu \in WuRow /\ va.wu \in WuRow
      /\ va.tt \in {"NO_CHANGE", "IMMEDIATE", "DELAYED", "NEVER"}
  BY DEF TypeOK, DBTypeOK, VaTypeOK
<1>3. /\ wu'.exists = wu.exists
      /\ wu'.error_mask = va.wu.error_mask
      /\ wu'.assimilate_state = va.wu.assimilate_state
      /\ wu'.canonical_resultid = va.wu.canonical_resultid
      /\ wu'.file_delete_state = wu.file_delete_state
      /\ wu'.transition_time = VaTransitionTime
  <2>1. wu' = [wu EXCEPT !.need_validate = FALSE,
                         !.error_mask = va.wu.error_mask,
                         !.assimilate_state = va.wu.assimilate_state,
                         !.transition_time = VaTransitionTime,
                         !.target_nresults = va.wu.target_nresults,
                         !.canonical_resultid = va.wu.canonical_resultid]
    BY <1>1 DEF VaUpdateWorkunit, SetWu
  <2> QED
    BY <1>2, <2>1 DEF WuRow
<1>4. va.tt # "NEVER" /\ VaTransitionTime = "never" =>
        va.tt = "NO_CHANGE" /\ wu.transition_time = "never"
  BY <1>1, <1>2 DEF VaTransitionTime, NotLaterThan
<1>5. CASE va.pc \in {"fetched", "leave"}
  <2>1. /\ wu'.canonical_resultid = wu.canonical_resultid /\ wu'.error_mask = wu.error_mask
        /\ wu'.assimilate_state = wu.assimilate_state /\ va.tt # "NEVER"
    BY <1>1, <1>3, <1>5 DEF VaReadFresh
  <2> QED
    BY <1>1, <1>3, <1>4, <2>1 DEF WuStep, VaOff
<1>6. CASE va.pc = "write" /\ va.wu.canonical_resultid = 0
  <2>1. /\ wu.canonical_resultid = 0 /\ wu.error_mask \subseteq wu'.error_mask
        /\ wu'.assimilate_state = wu.assimilate_state /\ va.tt # "NEVER"
        /\ wu'.error_mask = wu.error_mask \/ va.tt = "IMMEDIATE"
    BY <1>1, <1>3, <1>6 DEF VaWriteFresh
  <2> QED
    BY <1>1, <1>3, <1>4, <1>6, <2>1 DEF WuStep, VaOff
<1>7. CASE va.pc = "write" /\ va.wu.canonical_resultid # 0
  <2>1. va.todo = {}
    BY <1>7 DEF VaUpdateWorkunit, HasCanonical
  <2>2. /\ wu.canonical_resultid = 0 /\ wu'.error_mask = wu.error_mask
        /\ file[wu'.canonical_resultid] # "none"
        /\ \A r \in Result : res[r].server_state # "UNSENT"
    BY <1>1, <1>3, <1>7, <2>1 DEF VaWriteFresh
  <2>3. wu.assimilate_state = "DONE" => wu'.error_mask # {}
    BY <2>2 DEF JobInv, ReadyHasReason
  <2> QED
    BY <1>1, <1>3, <1>7, <2>2, <2>3 DEF WuStep, VaOff
<1> QED
  BY <1>1, <1>2, <1>5, <1>6, <1>7 DEF TypeOK, VaTypeOK, VaPc

(* A row the validator writes, of those left to be written. *)
LEMMA ValidatorWrites ==
  ASSUME TypeOK, NEW r \in Result, Exists(res[r]), NEW item \in ResultRow, VaWriteResult(r, item)
  PROVE  /\ res'[r].server_state = item.server_state /\ res'[r].outcome = item.outcome
         /\ res'[r].validate_state = item.validate_state
         /\ res'[r].file_delete_state = res[r].file_delete_state
         /\ res'[r].received = res[r].received
         /\ \A q \in Result \ {r} : res'[q] = res[q] /\ RowStep(q)
         /\ wu' = wu /\ file' = file
<1>1. res \in [Result -> ResultRow] /\ res[r] \in ResultRow
  BY DEF TypeOK, DBTypeOK
<1>2. /\ res'[r] = [res[r] EXCEPT !.server_state = item.server_state, !.outcome = item.outcome,
                                  !.validate_state = item.validate_state]
      /\ \A q \in Result \ {r} : res'[q] = res[q]
      /\ wu' = wu /\ file' = file
  BY <1>1 DEF VaWriteResult, SetRow
<1> QED
  BY <1>1, <1>2 DEF ResultRow, RowStep, RowKept, Same

LEMMA ValidatorPairOrderly ==
  ASSUME TypeOK, VaFresh, NEW r \in Result, VaCheckPair(r)
  PROVE  /\ \A q \in Result : RowStep(q)
         /\ wu' = wu /\ file' = file
         /\ VaFresh'
<1>1. /\ va.pc = "fetched" /\ va.wu.canonical_resultid # 0 /\ r \in va.todo /\ ~VaOff
      /\ VaReadFresh /\ VaItemsFresh /\ wu.exists
      /\ (va.wu.transition_time = "never" => wu.transition_time = "never")
  BY DEF VaCheckPair, HasCanonical, VaFresh, VaOff
<1>2. Same(va.items[r], res[r]) /\ Success(res[r]) /\ res[r].validate_state \in {"INIT", "INCONCLUSIVE"}
  BY <1>1 DEF VaItemsFresh
<1>3. PICK item \in ResultRow :
        /\ VaWriteResult(r, item) /\ item.server_state = va.items[r].server_state
        /\ \/ item.outcome = va.items[r].outcome
           \/ item.outcome = "VALIDATE_ERROR" /\ item.validate_state = "INVALID"
  <2> DEFINE bad == [va.items[r] EXCEPT !.outcome = "VALIDATE_ERROR", !.validate_state = "INVALID"]
             good == [va.items[r] EXCEPT !.validate_state = "VALID"]
             other == [va.items[r] EXCEPT !.validate_state = "INVALID"]
  <2>1. va.items[r] \in ResultRow
    BY DEF TypeOK, VaTypeOK
  <2>2. bad \in ResultRow /\ good \in ResultRow /\ other \in ResultRow
    BY <2>1 DEF ResultRow, Outcome, ValidateState
  <2>3. /\ bad.server_state = va.items[r].server_state
        /\ bad.outcome = "VALIDATE_ERROR" /\ bad.validate_state = "INVALID"
        /\ good.server_state = va.items[r].server_state /\ good.outcome = va.items[r].outcome
        /\ other.server_state = va.items[r].server_state /\ other.outcome = va.items[r].outcome
    BY <2>1 DEF ResultRow
  <2>4. VaWriteResult(r, bad) \/ VaWriteResult(r, good) \/ VaWriteResult(r, other)
    BY DEF VaCheckPair
  <2> HIDE DEF bad, good, other
  <2> QED
    BY <2>2, <2>3, <2>4
<1>4. Exists(res[r])
  BY <1>2 DEF Success, Over, Exists
<1>5. /\ res'[r].server_state = item.server_state /\ res'[r].outcome = item.outcome
      /\ res'[r].validate_state = item.validate_state
      /\ res'[r].file_delete_state = res[r].file_delete_state
      /\ res'[r].received = res[r].received
      /\ \A q \in Result \ {r} : res'[q] = res[q] /\ RowStep(q)
      /\ wu' = wu /\ file' = file
  BY <1>3, <1>4, ValidatorWrites
<1>6. RowJudged(r)
  BY <1>2, <1>3, <1>5 DEF RowJudged, Same, Success, Over
<1>7. /\ va'.pc = va.pc /\ va'.wu = va.wu /\ va'.items = va.items /\ va'.todo = va.todo \ {r}
      /\ va'.tt = "IMMEDIATE"
  BY DEF VaCheckPair, TypeOK, VaTypeOK
<1>8. VaFresh'
  <2>1. va.todo \subseteq Result
    BY DEF TypeOK, VaTypeOK
  <2>2. VaItemsFresh'
    BY <1>1, <1>5, <1>7, <2>1 DEF VaItemsFresh, VaReadFresh
  <2>3. VaReadFresh' /\ VaWriteFresh'
    BY <1>1, <1>5, <1>7 DEF VaReadFresh, VaWriteFresh
  <2> QED
    BY <1>1, <1>5, <1>7, <2>2, <2>3 DEF VaFresh
<1> QED
  BY <1>5, <1>6, <1>8 DEF RowStep

LEMMA ValidatorResultOrderly ==
  ASSUME TypeOK, RecordsInv, VaFresh, NEW r \in Result, VaUpdateResult(r) \/ VaSkipResult(r)
  PROVE  /\ \A q \in Result : RowStep(q)
         /\ wu' = wu /\ file' = file
         /\ VaFresh'
<1>1. /\ va.pc = "write" /\ r \in va.todo /\ ~VaOff
      /\ VaWriteFresh /\ wu.exists
      /\ (va.wu.transition_time = "never" => wu.transition_time = "never")
      /\ va.todo \subseteq Result /\ va.items[r] \in ResultRow
  BY DEF VaUpdateResult, VaSkipResult, VaFresh, VaOff, TypeOK, VaTypeOK
<1>2. JudgedItem(r) \/ CalledOffItem(r)
  BY <1>1 DEF VaWriteFresh
<1>3. /\ va'.pc = va.pc /\ va'.wu = va.wu /\ va'.items = va.items /\ va'.todo = va.todo \ {r}
      /\ va'.tt = va.tt
  BY DEF VaUpdateResult, VaSkipResult, TypeOK, VaTypeOK
<1>4. /\ wu' = wu /\ file' = file
      /\ \A q \in Result \ {r} : res'[q] = res[q] /\ RowStep(q)
      /\ res'[r].server_state # "UNSENT" /\ RowStep(r)
  <2>1. CASE VaUpdateResult(r)
    <3>1. VaWriteResult(r, va.items[r])
      BY <2>1 DEF VaUpdateResult
    <3>2. Exists(res[r])
      BY <1>2 DEF JudgedItem, CalledOffItem, Success, Over, Exists
    <3>3. PICK item \in ResultRow : item = va.items[r]
      BY <1>1
    <3>4. /\ res'[r].server_state = item.server_state /\ res'[r].outcome = item.outcome
          /\ res'[r].validate_state = item.validate_state
          /\ res'[r].file_delete_state = res[r].file_delete_state
          /\ res'[r].received = res[r].received
          /\ \A q \in Result \ {r} : res'[q] = res[q] /\ RowStep(q)
          /\ wu' = wu /\ file' = file
      BY <3>1, <3>2, <3>3, ValidatorWrites
    <3>5. CASE JudgedItem(r)
      <4>1. "crash" \notin Faults => res[r].validate_state # "VALID"
        BY <1>1 DEF VaWriteFresh
      <4>2. RowJudged(r)
        BY <3>3, <3>4, <3>5, <4>1 DEF JudgedItem, RowJudged, Over
      <4> QED
        BY <3>3, <3>4, <3>5, <4>2 DEF RowStep, JudgedItem, Over
    <3>6. CASE CalledOffItem(r)
      <4>1. res[r].validate_state = "INIT"
        BY <3>6, UnsentUnchecked DEF CalledOffItem
      <4>2. RowCalledOff(r)
        BY <3>3, <3>4, <3>6, <4>1 DEF CalledOffItem, RowCalledOff, RowMoves, Over
      <4> QED
        BY <3>3, <3>4, <3>6, <4>2 DEF RowStep, CalledOffItem, Over
    <3> QED
      BY <1>2, <3>5, <3>6
  <2>2. CASE VaSkipResult(r)
    <3>1. UNCHANGED <<wu, res, file>> /\ va.items[r].validate_state # "INIT"
      BY <2>2 DEF VaSkipResult, dbVars
    <3>2. res[r].server_state # "UNSENT"
      BY <1>2, <3>1 DEF JudgedItem, CalledOffItem, Success, Over
    <3> QED
      BY <3>1, <3>2, RowsUnchanged
  <2> QED
    BY <2>1, <2>2
<1>5. VaWriteFresh'
  <2>1. ASSUME NEW q \in va'.todo PROVE JudgedItem(q)' \/ CalledOffItem(q)'
    <3>1. q \in Result \ {r} /\ (JudgedItem(q) \/ CalledOffItem(q))
      BY <1>1, <1>3, <2>1 DEF VaWriteFresh
    <3> QED
      BY <1>3, <1>4, <3>1 DEF JudgedItem, CalledOffItem
  <2>2. "crash" \notin Faults => \A q \in va'.todo : res'[q].validate_state # "VALID"
    BY <1>1, <1>3, <1>4 DEF VaWriteFresh
  <2>3. va'.wu.canonical_resultid # 0 =>
          \A q \in Result : res'[q].server_state = "UNSENT" => q \in va'.todo
    BY <1>1, <1>3, <1>4 DEF VaWriteFresh
  <2> QED
    BY <1>1, <1>3, <1>4, <2>1, <2>2, <2>3 DEF VaWriteFresh
<1> QED
  BY <1>1, <1>3, <1>4, <1>5 DEF VaFresh, VaReadFresh, VaItemsFresh

LEMMA ValidatorOrderly ==
  ASSUME TypeOK, CopiesConsistent, RecordsInv, "crash" \notin Faults => AgreeInv, FreshInv, JobInv,
         Exclusive, Exclusive', ValidatorStep
  PROVE  OrderlyStep /\ FreshInv'
<1>1. TrOff /\ AsOff /\ FdOff /\ PurgeOff /\ CgiOff /\ DetachOff
  BY ValidatorAlone
<1>2. TrFresh' /\ AsFresh' /\ FdFresh' /\ PurgeFresh' /\ CgiFresh'
  <2>1. UNCHANGED tr /\ UNCHANGED as /\ UNCHANGED deleterVars /\ UNCHANGED schedVars
    BY DEF ValidatorStep
  <2> QED
    BY <1>1, <2>1, IdleStays
<1>3. UNCHANGED <<inputs, client>> /\ VaFresh
  BY DEF ValidatorStep, deleterVars, schedVars, FreshInv
<1>4. ASSUME UNCHANGED <<wu, res, file>>, VaFresh'
      PROVE  VaFresh' /\ file' = file /\ WuStep /\ \A r \in Result : RowStep(r)
  BY <1>4, JobWokenStep, RowsUnchanged DEF JobWoken
<1>5. VaFresh' /\ file' = file /\ WuStep /\ \A r \in Result : RowStep(r)
  <2>1. CASE VaEnumerate
    <3>1. /\ va'.pc = "fetched" /\ va'.wu = wu /\ va'.items = res /\ va'.tt = "NO_CHANGE"
          /\ va'.todo = {r \in Result : /\ wu.canonical_resultid # 0 /\ Success(res[r])
                                        /\ res[r].validate_state \in {"INIT", "INCONCLUSIVE"}}
          /\ UNCHANGED <<wu, res, file>> /\ wu.exists
      BY <2>1 DEF VaEnumerate, VaIdle, dbVars
    <3>2. VaReadFresh' /\ VaItemsFresh' /\ VaWriteFresh'
      BY <3>1 DEF VaReadFresh, VaItemsFresh, VaWriteFresh, Same
    <3>3. VaFresh'
      BY <3>1, <3>2 DEF VaFresh
    <3> QED
      BY <1>4, <3>1, <3>3
  <2>2. CASE VaNoCanonicalRow \/ VaCrash
    <3>1. UNCHANGED <<wu, res, file>> /\ VaFresh'
      BY <2>2 DEF VaNoCanonicalRow, VaCrash, VaIdle, VaFresh, VaOff, dbVars
    <3> QED
      BY <1>4, <3>1
  <2>3. CASE VaCheckSet
    <3>1. UNCHANGED <<wu, res, file>> /\ VaFresh'
      BY <1>3, <2>3, CheckSetFresh DEF VaCheckSet, dbVars
    <3> QED
      BY <1>4, <3>1
  <2>4. CASE VaNoQuorum \/ VaRetryPair
    <3>1. /\ UNCHANGED <<wu, res, file>> /\ va.pc = "fetched" /\ va'.pc = "leave" /\ va'.wu = va.wu
          /\ va'.tt \in {va.tt, "DELAYED"}
      BY <2>4 DEF VaNoQuorum, VaRetryPair, HasCanonical, TypeOK, VaTypeOK, dbVars
    <3>2. VaFresh'
      BY <1>3, <3>1 DEF VaFresh, VaOff, VaReadFresh, VaItemsFresh, VaWriteFresh
    <3> QED
      BY <1>4, <3>1, <3>2
  <2>5. CASE VaUpdateWorkunit
    <3>1. VaFresh' /\ WuStep
      BY <1>3, <2>5, ValidatorJobOrderly DEF VaFresh
    <3> QED
      BY <2>5, <3>1, RowsUnchanged DEF VaUpdateWorkunit
  <2>6. ASSUME NEW r \in Result, VaCheckPair(r) \/ VaUpdateResult(r) \/ VaSkipResult(r)
        PROVE  VaFresh' /\ file' = file /\ WuStep /\ \A q \in Result : RowStep(q)
    BY <1>3, <2>6, ValidatorPairOrderly, ValidatorResultOrderly, JobWokenStep DEF JobWoken
  <2>7. ASSUME NEW r \in Result, VaSkipPair(r)
        PROVE  VaFresh' /\ file' = file /\ WuStep /\ \A q \in Result : RowStep(q)
    <3>1. /\ UNCHANGED <<wu, res, file>> /\ va'.pc = va.pc /\ va'.wu = va.wu /\ va'.items = va.items
          /\ va'.todo \subseteq va.todo /\ va'.tt = "IMMEDIATE" /\ va.pc = "fetched"
      BY <2>7 DEF VaSkipPair, HasCanonical, TypeOK, VaTypeOK, dbVars
    <3>2. VaFresh'
      BY <1>3, <3>1 DEF VaFresh, VaOff, VaReadFresh, VaItemsFresh, VaWriteFresh
    <3> QED
      BY <1>4, <3>1, <3>2
  <2> QED
    BY <2>1, <2>2, <2>3, <2>4, <2>5, <2>6, <2>7 DEF ValidatorStep, VaNext, VaStep
<1> QED
  BY <1>2, <1>3, <1>5, FilesUnchanged, ClientsUnchanged DEF OrderlyStep, FreshInv

-----------------------------------------------------------------------------
(* All steps, and the invariant. *)

AloneInv ==
    /\ TypeOK /\ CopiesConsistent /\ RecordsInv /\ ("crash" \notin Faults => AgreeInv)
    /\ Exclusive /\ FreshInv /\ JobInv

LEMMA StepOrderly ==
  ASSUME AloneInv, Exclusive', [Next]_vars
  PROVE  OrderlyStep /\ FreshInv'
<1> USE DEF AloneInv
<1>1. CASE TrNext /\ UNCHANGED <<va, schedVars, as, deleterVars, cancel>>
  BY <1>1, TransitionerOrderly
<1>2. CASE ValidatorStep
  BY <1>2, ValidatorOrderly
<1>3. CASE SchedNext /\ UNCHANGED <<tr, va, as, deleterVars, cancel>>
  <2>1. PICK r \in Result :
          \/ SendCheck(r) \/ ResendCheck(r) \/ ReportCheck(r) \/ DetachCheck(r)
          \/ CgiStep(r) \/ CgiCrash(r) \/ ClientFinish(r) \/ ClientLoses(r)
    BY <1>3 DEF SchedNext
  <2>2. CASE ClientFinish(r) \/ ClientLoses(r) \/ (ReportCheck(r) /\ ~Accepts(res[r]))
    BY <1>3, <2>2, HostOrderly
  <2>3. CASE \/ SendCheck(r) \/ ResendCheck(r) \/ (ReportCheck(r) /\ Accepts(res[r])) \/ DetachCheck(r)
             \/ CgiStep(r) \/ CgiCrash(r)
    BY <1>3, <2>3, RequestOrderly
  <2> QED
    BY <2>1, <2>2, <2>3
<1>4. CASE AsNext /\ UNCHANGED <<tr, va, schedVars, deleterVars, cancel>>
  BY <1>4, AssimilatorOrderly
<1>5. CASE FdNext /\ UNCHANGED <<tr, va, schedVars, as, cancel>>
  BY <1>5, FileDeleterOrderly
<1>6. CASE PurgeNext /\ UNCHANGED <<tr, va, schedVars, as, cancel>>
  BY <1>6, PurgerOrderly
<1>7. CASE CancelResults \/ CancelJob
  BY <1>7, OperatorOrderly
<1>8. CASE TransitionTimeComes \/ \E r \in Result : DeadlinePasses(r)
  BY <1>8, TimeOrderly
<1>9. CASE UNCHANGED vars
  <2>1. UNCHANGED <<wu, res, file, tr, va, cgi, detach, client, fd, purge, inputs>> /\ UNCHANGED as
    BY <1>9 DEF vars, dbVars, schedVars, deleterVars
  <2>2. \A r \in Result : RowKept(r) /\ Same(tr'.items[r], tr.items[r])
    BY <2>1 DEF RowKept, Same
  <2>3. FreshInv'
    BY <2>1, <2>2, FreshKept
  <2> QED
    BY <2>1, <2>3, RowsUnchanged, JobWokenStep, FilesUnchanged, ClientsUnchanged DEF OrderlyStep, JobWoken
<1>10. Next => Step
  BY DEF Next
<1> QED
  BY <1>1, <1>2, <1>3, <1>4, <1>5, <1>6, <1>7, <1>8, <1>9, <1>10 DEF Step, ValidatorStep

LEMMA StepAlone ==
  ASSUME AloneInv, Exclusive', [Next]_vars
  PROVE  AloneInv' /\ OrderlyStep
<1>2. TypeOK' /\ CopiesConsistent' /\ RecordsInv'
  BY StepType, StepConsistent, StepRecords DEF AloneInv
<1>3. "crash" \notin Faults => AgreeInv'
  BY StepAgrees DEF AloneInv
<1>4. OrderlyStep /\ FreshInv'
  BY StepOrderly
<1>5. JobInv'
  BY <1>2, <1>4, OrderlyKeeps DEF AloneInv
<1> QED
  BY <1>2, <1>3, <1>4, <1>5 DEF AloneInv

LEMMA InitAlone == Init => AloneInv
<1> SUFFICES ASSUME Init PROVE AloneInv
  OBVIOUS
<1>1. Exclusive
  BY NobodyBusy, BusyExclusive
<1>2. TypeOK /\ CopiesConsistent /\ RecordsInv /\ AgreeInv
  BY InitType, InitConsistent, InitRecords, InitAgrees
<1>3. FreshInv
  <2>1. TrOff /\ VaOff /\ FdOff /\ PurgeOff /\ CgiOff /\ DetachOff
    BY DEF Init, TrInit, VaInit, FdInit, SchedInit, TrIdle, VaIdle, FdIdle, PurgeIdle, CgiIdle, TrOff,
       VaOff, FdOff, PurgeOff, CgiOff, DetachOff
  <2>2. AsOff
    BY Zenon DEF Init, AsInit, AsIdle, AsOff
  <2> QED
    BY <2>1, <2>2, IdleFresh DEF FreshInv
<1>4. JobInv
  <2>1. /\ wu.canonical_resultid = 0 /\ wu.error_mask = {} /\ wu.assimilate_state = "INIT"
        /\ wu.file_delete_state = "INIT" /\ inputs = TRUE
        /\ \A r \in Result : res[r] = UnusedRow /\ client[r] = "none"
    BY DEF Init, DBInit, SchedInit, FdInit
  <2> QED
    BY <2>1 DEF JobInv, ReadyHasReason, SettledNotSent, FailedNotSent, GoneInputs, FilesInUse,
       CanonicalFileKept, OverHasOutcome, DidntNeedNotSent, AckedReceived, ReceivedMeansReported,
       UnusedRow, Over
<1> QED
  BY <1>1, <1>2, <1>3, <1>4 DEF AloneInv

(***************************************************************************)
(* Programs that work on the job one after the other never act on a copy   *)
(* that is out of date, ...                                                *)
(***************************************************************************)
THEOREM AloneInvariant == ASSUME MaxBusy = 1 PROVE Spec => []AloneInv
<1>1. AloneInv /\ Exclusive' /\ [Next]_vars => AloneInv'
  BY StepAlone
<1> QED
  BY <1>1, InitAlone, AloneExclusive, PTL DEF Spec

(* ... and so take only the steps OrderlyStep lists. *)
THEOREM OnlyOrderlySteps == ASSUME MaxBusy = 1 PROVE Spec => [][OrderlyStep]_vars
<1>1. AloneInv /\ Exclusive' /\ [Next]_vars => [OrderlyStep]_vars
  BY StepAlone
<1> QED
  BY <1>1, AloneInvariant, AloneExclusive, PTL DEF Spec


-----------------------------------------------------------------------------
(* What follows, in the words of the module Backend. *)

(***************************************************************************)
(* No job is handed to the assimilator without a canonical result or an    *)
(* error.                                                                  *)
(***************************************************************************)
THEOREM AssimilatedForReason == ASSUME MaxBusy = 1 PROVE Spec => []ReadyHasReason
<1>1. AloneInv => ReadyHasReason
  BY DEF AloneInv, JobInv
<1> QED
  BY <1>1, AloneInvariant, PTL

(***************************************************************************)
(* Once the job has its canonical result nothing waits to be sent for it:  *)
(* the validator calls off, before it writes its decision, every result    *)
(* that is unsent, and the transitioner creates none for a decided job.    *)
(***************************************************************************)
THEOREM DecidedIsNotSent == ASSUME MaxBusy = 1 PROVE Spec => []DecidedNotSent
<1>1. AloneInv => DecidedNotSent
  BY DEF AloneInv, JobInv, SettledNotSent, DecidedNotSent
<1> QED
  BY <1>1, AloneInvariant, PTL

(***************************************************************************)
(* A failed job that the transitioner has left for good has no unsent      *)
(* result: the pass that finds the job failed calls off all of them, and   *)
(* none is created afterwards.                                             *)
(***************************************************************************)
THEOREM FailedIsNotSent == ASSUME MaxBusy = 1 PROVE Spec => []FailedNotSent
<1>1. AloneInv => FailedNotSent
  BY DEF AloneInv, JobInv
<1> QED
  BY <1>1, AloneInvariant, PTL

(***************************************************************************)
(* A result called off as not needed never reached a host: whoever calls   *)
(* it off does so from a copy that still holds.                            *)
(***************************************************************************)
THEOREM CalledOffUnsent == ASSUME MaxBusy = 1 PROVE Spec => []DidntNeedNotSent
<1>1. AloneInv => DidntNeedNotSent
  BY DEF AloneInv, JobInv
<1> QED
  BY <1>1, AloneInvariant, PTL

(***************************************************************************)
(* No report is acknowledged and then lost: what a host was told about is  *)
(* down as received, until its row is archived.                            *)
(***************************************************************************)
THEOREM AcknowledgedKept == ASSUME MaxBusy = 1 PROVE Spec => []AckedReceived
<1>1. AloneInv => AckedReceived
  BY DEF AloneInv, JobInv
<1> QED
  BY <1>1, AloneInvariant, PTL

(***************************************************************************)
(* The input files are not deleted while a host may be given the job or is *)
(* working on it: they go when the job is settled and no result is left    *)
(* that is unsent or in progress.                                          *)
(***************************************************************************)
THEOREM InputsStay == ASSUME MaxBusy = 1 PROVE Spec => []InputsKept
<1>1. AloneInv => InputsKept
  BY DEF AloneInv, JobInv, GoneInputs, InputsKept, Live
<1> QED
  BY <1>1, AloneInvariant, PTL

(***************************************************************************)
(* The output file of the canonical result is not deleted while the        *)
(* assimilator may still want it.                                          *)
(***************************************************************************)
THEOREM CanonicalFileStays == ASSUME MaxBusy = 1 PROVE Spec => []CanonicalFileKept
<1>1. AloneInv => CanonicalFileKept
  BY DEF AloneInv, JobInv
<1> QED
  BY <1>1, AloneInvariant, PTL

(***************************************************************************)
(* A success is taken back by nobody but the validator.                    *)
(***************************************************************************)
THEOREM SuccessStays == ASSUME MaxBusy = 1 PROVE Spec => SuccessKept
<1>1. ASSUME OrderlyStep, NEW r \in Result, Success(res[r])
      PROVE  \/ Success(res'[r])
             \/ res'[r].outcome = "VALIDATE_ERROR" /\ res'[r].validate_state = "INVALID"
             \/ res'[r].server_state = "PURGED"
  BY <1>1 DEF OrderlyStep, RowStep, RowKept, Same, RowCreated, RowSent, RowGivenUp, RowCalledOff,
     RowMoves, RowReported, RowDetached, RowJudged, RowFiles, RowPurged, UnusedRow, Accepts, Success, Over
<1>2. OrderlyStep => \A r \in Result : Success(res[r]) =>
        \/ Success(res'[r])
        \/ res'[r].outcome = "VALIDATE_ERROR" /\ res'[r].validate_state = "INVALID"
        \/ res'[r].server_state = "PURGED"
  BY <1>1
<1> QED
  BY <1>2, OnlyOrderlySteps, PTL DEF SuccessKept

(***************************************************************************)
(* An error of the job is never erased: every program that writes          *)
(* error_mask writes at least what is there.                               *)
(***************************************************************************)
THEOREM ErrorsStay == ASSUME MaxBusy = 1 PROVE Spec => ErrorsSticky
<1>1. OrderlyStep => wu.error_mask \subseteq wu'.error_mask
  BY DEF OrderlyStep, WuStep
<1> QED
  BY <1>1, OnlyOrderlySteps, PTL DEF ErrorsSticky

(***************************************************************************)
(* A valid result stays valid, if the validator is never killed between    *)
(* its results and its job (then it judges them once more).                *)
(***************************************************************************)
THEOREM ValidStays == ASSUME MaxBusy = 1, "crash" \notin Faults PROVE Spec => ValidKept
<1>1. ASSUME AloneInv, OrderlyStep, NEW r \in Result, res[r].validate_state = "VALID"
      PROVE  res'[r].validate_state = "VALID" \/ res'[r].server_state = "PURGED"
  <2>1. HandedIn(r)
    BY <1>1 DEF AloneInv, RecordsInv, ToldSound, AnyTold, Told
  <2>2. RowStep(r)
    BY <1>1 DEF OrderlyStep
  <2> QED
    BY <1>1, <2>1, <2>2 DEF HandedIn, Ended, RowStep, RowKept, Same, RowCreated, RowSent, RowGivenUp,
       RowCalledOff, RowMoves, RowReported, RowDetached, RowJudged, RowFiles, RowPurged, UnusedRow,
       Accepts, Success, Over
<1>2. AloneInv /\ OrderlyStep => \A r \in Result : res[r].validate_state = "VALID" =>
        res'[r].validate_state = "VALID" \/ res'[r].server_state = "PURGED"
  BY <1>1
<1> QED
  BY <1>2, AloneInvariant, OnlyOrderlySteps, PTL DEF ValidKept

(***************************************************************************)
(* A report that comes after the result was given up is not acknowledged   *)
(* before it is taken in.  (A detached host's results are down as received *)
(* when they are given up, so their reports are ignored.)                  *)
(***************************************************************************)
THEOREM LateReportsCount == ASSUME MaxBusy = 1, "detach" \notin Faults PROVE Spec => LateReportKept
<1>1. ASSUME AloneInv, OrderlyStep, NEW r \in Result,
             Over(res[r]), res[r].outcome \in {"NO_REPLY", "CLIENT_DETACHED"},
             client[r] \in {"success", "error"}, client'[r] = "acked"
      PROVE  res'[r].outcome \in {"SUCCESS", "CLIENT_ERROR"}
  <2>1. ~res[r].received
    BY <1>1 DEF AloneInv, JobInv, ReceivedMeansReported
  <2> QED
    BY <1>1, <2>1 DEF OrderlyStep, ClientsStep, Accepts
<1>2. AloneInv /\ OrderlyStep =>
        \A r \in Result :
          /\ Over(res[r]) /\ res[r].outcome \in {"NO_REPLY", "CLIENT_DETACHED"}
          /\ client[r] \in {"success", "error"} /\ client'[r] = "acked"
          => res'[r].outcome \in {"SUCCESS", "CLIENT_ERROR"}
  BY <1>1
<1> QED
  BY <1>2, AloneInvariant, OnlyOrderlySteps, PTL DEF LateReportKept


-----------------------------------------------------------------------------
(* The end of the job: only the purger removes it. *)

LEMMA OthersKeepJob ==
  ASSUME TypeOK, [Next]_vars, ~PurgeJob
  PROVE  wu'.exists = wu.exists
<1>1. wu \in WuRow
  BY DEF TypeOK, DBTypeOK
<1>2. CASE TrNext
  BY <1>1, <1>2 DEF TrNext, TrStep, TrEnumerate, TrDecide, TrCreate, TrUpdateWorkunit, TrCrash,
     TrTimeOut, TrTooLate, TrClose, TrDelete, TrWriteResult, SetWu, WuRow, dbVars
<1>3. CASE VaNext
  BY <1>1, <1>3 DEF VaNext, VaStep, VaEnumerate, VaNoCanonicalRow, VaCheckSet, VaNoQuorum,
     VaUpdateWorkunit, VaRetryPair, VaCheckPair, VaSkipPair, VaUpdateResult, VaSkipResult, VaCrash,
     VaWriteResult, SetWu, WuRow, dbVars
<1>4. CASE SchedNext
  BY <1>1, <1>4 DEF SchedNext, SendCheck, ResendCheck, ReportCheck, DetachCheck, CgiStep, CgiCrash,
     ClientFinish, ClientLoses, SendJob, SendMark, ResendJob, ResendMark, ExpireMark, ExpireJob,
     ReportRow, ReportJob, DetachRow, DetachJob, SetWu, WuRow, dbVars
<1>5. CASE AsNext
  BY <1>1, <1>5 DEF AsNext, AsStep, AsEnumerate, AsHandle, AsDone, AsCrash, SetWu, WuRow, dbVars
<1>6. CASE FdNext
  BY <1>1, <1>6 DEF FdNext, FdStep, FdEnumerate, FdUnlink, FdUpdate, FdCrash, SetWu, WuRow, dbVars
<1>7. CASE PurgeNext
  BY <1>1, <1>7 DEF PurgeNext, PurgeStep, PurgeEnumerate, PurgeQuery, PurgeResult, PurgeSkip,
     PurgeCrash, dbVars
<1>8. CASE CancelResults \/ CancelJob \/ TransitionTimeComes \/ \E r \in Result : DeadlinePasses(r)
  BY <1>1, <1>8 DEF CancelResults, CancelJob, TransitionTimeComes, DeadlinePasses, SetWu, WuRow
<1>9. CASE UNCHANGED vars
  BY <1>9 DEF vars, dbVars
<1> QED
  BY <1>2, <1>3, <1>4, <1>5, <1>6, <1>7, <1>8, <1>9 DEF Next, Step

(***************************************************************************)
(* No result outlives its job in the database: the purger has deleted all  *)
(* of them when it deletes the job, unless a query of it failed, and       *)
(* nobody creates one for a job that is gone.                              *)
(***************************************************************************)
THEOREM NoOrphanResults == ASSUME MaxBusy = 1, "purge" \notin Faults PROVE Spec => []NoOrphans
<1>1. Init => NoOrphans
  BY DEF Init, DBInit, NoOrphans
<1>2. ASSUME AloneInv, OrderlyStep, NoOrphans, [Next]_vars
      PROVE  NoOrphans'
  <2>1. SUFFICES ASSUME ~wu'.exists, NEW r \in Result, Exists(res'[r])
                 PROVE  FALSE
    BY DEF NoOrphans
  <2>2. RowStep(r) /\ res[r] \in ResultRow
    BY <1>2 DEF OrderlyStep, AloneInv, TypeOK, DBTypeOK
  <2>3. CASE ~wu.exists
    <3>1. ~Exists(res[r])
      BY <1>2, <2>3 DEF NoOrphans
    <3> QED
      BY <2>1, <2>2, <2>3, <3>1 DEF RowStep, RowKept, Same, RowCreated, RowSent, RowGivenUp,
         RowCalledOff, RowMoves, RowReported, RowDetached, RowJudged, RowFiles, RowPurged, UnusedRow,
         Accepts, Success, Over, Exists
  <2>4. CASE wu.exists
    <3>1. PurgeJob
      BY <1>2, <2>1, <2>4, OthersKeepJob DEF AloneInv
    <3>2. ~Exists(res[r])
      BY <1>2, <3>1 DEF PurgeJob, AloneInv, FreshInv, PurgeFresh
    <3> QED
      BY <2>1, <3>1, <3>2 DEF PurgeJob
  <2> QED
    BY <2>3, <2>4
<1>3. AloneInv /\ [OrderlyStep]_vars /\ NoOrphans /\ [Next]_vars => NoOrphans'
  <2>1. UNCHANGED vars => (NoOrphans => NoOrphans')
    BY DEF vars, dbVars, NoOrphans
  <2> QED
    BY <1>2, <2>1
<1> QED
  BY <1>1, <1>3, AloneInvariant, OnlyOrderlySteps, PTL DEF Spec
=============================================================================
