----------------------------- MODULE WorkArray -----------------------------
(***************************************************************************)
(* The job cache: an array of slots in shared memory, which the feeder     *)
(* fills with unsent results and from which scheduler processes take them. *)
(* Schedulers scan it under a System V semaphore but let go of it while    *)
(* they consult the database; the feeder does not use the semaphore at     *)
(* all.  A slot is empty, present, or reserved by the process whose id is  *)
(* its state.  Each access to a slot is a step of its own wherever the     *)
(* other side may come in between.                                         *)
(*                                                                         *)
(* A scheduler process is a CGI: it serves one request for work and exits. *)
(* The results of a non-CPU-intensive application are sent by another loop *)
(* (send_job_for_app()) than all others (scan_work_array()).               *)
(***************************************************************************)
EXTENDS Integers, FiniteSets, Sequences

CONSTANTS
    Pid,          \* scheduler processes
    NSlots,       \* max_wu_results
    Result, Job,
    JobOf,        \* the job of each result
    NciJobs,      \* jobs of the non-CPU-intensive application
    EnumLimit,    \* enum_limit: rows the feeder asks for at a time
    MaxScans,     \* how often one request scans the array
    Faults,       \* see WorkArrayAssumption
    None          \* no result, no job, no process

(***************************************************************************)
(* "crash": a scheduler is killed.  "stale": the feeder runs with          *)
(* --purge_stale.  "reread": the operator has it read the tables again.    *)
(***************************************************************************)
ASSUME WorkArrayAssumption ==
    /\ NSlots \in Nat \ {0} /\ EnumLimit \in Nat \ {0} /\ MaxScans \in Nat
    /\ JobOf \in [Result -> Job] /\ NciJobs \subseteq Job
    /\ None \notin Result \cup Job \cup Pid
    /\ Pid \cap {"empty", "present"} = {}
    /\ Faults \subseteq {"crash", "stale", "reread"}

VARIABLES
    slot,      \* wu_results[]
    ready,     \* the feeder has made a pass since the array was cleared
    sema,      \* the value of the semaphore
    undo,      \* what the kernel adds to it when a process exits (SEM_UNDO)
    row,       \* server_state of each result in the database
    given,     \* the jobs each result was put into a reply with, in order
    feeder, sched

arrayVars == <<slot, ready, sema, undo, row, given, feeder, sched>>

Slot == 1 .. NSlots
SlotState == {"empty", "present"} \cup Pid
EmptySlot == [state |-> "empty", result |-> None, job |-> None]

FeederPc == {"look", "purge", "fill", "result", "present", "stat"}
SchedPc == {"new", "nci", "nciTake", "nciLookup", "nciMark", "nciRelock",
            "send", "scan", "take", "slow", "lookup", "mark", "relock",
            "leave", "gone"}

SlotRec == [state : SlotState, result : Result \cup {None}, job : Job \cup {None}]
FeederRec == [pc : FeederPc, slot : Slot, rows : SUBSET Result, active : BOOLEAN,
              phase : {"first", "second", "over"},
              result : Result \cup {None}, pid : Pid \cup {None}]
SchedRec == [pc : SchedPc, slot : Slot, left : 0 .. NSlots, scans : 0 .. MaxScans,
             nci : BOOLEAN, result : Result \cup {None}, job : Job \cup {None}]

ArrayTypeOK ==
    /\ slot \in [Slot -> SlotRec]
    /\ ready \in BOOLEAN /\ sema \in Nat /\ undo \in [Pid -> Int]
    /\ row \in [Result -> {"unsent", "sent"}]
    /\ given \in [Result -> Seq(Job \cup {None})]
    /\ feeder \in FeederRec /\ sched \in [Pid -> SchedRec]

ArrayInit ==
    /\ slot = [i \in Slot |-> EmptySlot] /\ ready = FALSE
    /\ sema = 1 /\ undo = [p \in Pid |-> 0]
    /\ row = [r \in Result |-> "unsent"] /\ given = [r \in Result |-> <<>>]
    /\ feeder = [pc |-> "look", slot |-> 1, rows |-> {}, active |-> FALSE, phase |-> "second",
                 result |-> None, pid |-> None]
    /\ sched = [p \in Pid |-> [pc |-> "new", slot |-> 1, left |-> 0, scans |-> 0, nci |-> TRUE,
                               result |-> None, job |-> None]]

-----------------------------------------------------------------------------
(* The feeder. *)

After(i) == IF i = NSlots THEN 1 ELSE i + 1

(***************************************************************************)
(* On to the next slot.  A pass that begins with rows left over from the   *)
(* last query may query once more; one that begins without may not.        *)
(***************************************************************************)
NextSlot(f) ==
    [f EXCEPT !.pc = "look", !.result = None, !.pid = None,
              !.slot = After(@),
              !.phase = IF f.slot < NSlots THEN @ ELSE IF f.active THEN "first" ELSE "second"]

PassEnds == ready' = (ready \/ feeder.slot = NSlots)

(* The switch over the state of a slot; what it read it acts on later. *)
FeederLook ==
    /\ feeder.pc = "look"
    /\ LET s == slot[feeder.slot].state IN
       \/ /\ s = "present"
          /\ feeder' = NextSlot(feeder) /\ PassEnds
       \/ /\ s = "present" /\ "stale" \in Faults
          /\ feeder' = [feeder EXCEPT !.pc = "purge"] /\ UNCHANGED ready
       \/ /\ s = "empty" /\ feeder.phase = "over"
          /\ feeder' = NextSlot(feeder) /\ PassEnds
       \/ /\ s = "empty" /\ feeder.phase # "over"
          /\ feeder' = [feeder EXCEPT !.pc = "fill"] /\ UNCHANGED ready
       \/ /\ s \in Pid
          /\ feeder' = [feeder EXCEPT !.pc = "stat", !.pid = s] /\ UNCHANGED ready
    /\ UNCHANGED <<slot, sema, undo, row, given, sched>>

(* The entry has been there too long: the slot is filled again. *)
FeederPurge ==
    /\ feeder.pc = "purge"
    /\ slot' = [slot EXCEPT ![feeder.slot].state = "empty"]
    /\ IF feeder.phase = "over"
       THEN feeder' = NextSlot(feeder) /\ PassEnds
       ELSE feeder' = [feeder EXCEPT !.pc = "fill"] /\ UNCHANGED ready
    /\ UNCHANGED <<sema, undo, row, given, sched>>

(***************************************************************************)
(* get_job_from_db(): one call of enumerate().  Without a cursor it asks   *)
(* the database; the rows come in no particular order.                     *)
(***************************************************************************)
Unsent == {r \in Result : row[r] = "unsent"}
FirstRows(S) ==
    IF Cardinality(S) <= EnumLimit THEN {S}
    ELSE {T \in SUBSET S : Cardinality(T) = EnumLimit}

\* mistake: what an empty slot last held counts as well
Collides_Empty(r) == \E i \in Slot : slot[i].result = r
Collides(r) == \E i \in Slot : slot[i].state # "empty" /\ slot[i].result = r

(* A row of the enumeration: a collision, or the result for this slot. *)
FetchRow(rows) ==
    \E r \in rows :
      feeder' = [feeder EXCEPT !.active = TRUE, !.rows = rows \ {r},
                               !.pc = IF Collides(r) THEN "fill" ELSE "result",
                               !.result = IF Collides(r) THEN None ELSE r]

(* The enumeration has ended: start again once, or give up for this pass. *)
EndOfRows ==
    LET f == [feeder EXCEPT !.active = FALSE, !.rows = {},
                            !.phase = IF @ = "first" THEN "second" ELSE "over"]
    IN  IF feeder.phase = "first"
        THEN feeder' = f /\ UNCHANGED ready
        ELSE feeder' = NextSlot(f) /\ PassEnds

FeederFill ==
    /\ feeder.pc = "fill"
    /\ LET query == IF feeder.active THEN {feeder.rows} ELSE FirstRows(Unsent) IN
       \E rows \in query :
         \/ rows # {} /\ FetchRow(rows) /\ UNCHANGED ready
         \/ rows = {} /\ EndOfRows
    /\ UNCHANGED <<slot, sema, undo, row, given, sched>>

(* First the result is written, then its job and the state of the slot. *)
FeederResult ==
    /\ feeder.pc = "result"
    /\ slot' = [slot EXCEPT ![feeder.slot].result = feeder.result]
    /\ feeder' = [feeder EXCEPT !.pc = "present"]
    /\ UNCHANGED <<ready, sema, undo, row, given, sched>>

FeederPresent ==
    /\ feeder.pc = "present"
    /\ slot' = [slot EXCEPT ![feeder.slot].job = JobOf[feeder.result],
                            ![feeder.slot].state = "present"]
    /\ feeder' = NextSlot(feeder) /\ PassEnds
    /\ UNCHANGED <<sema, undo, row, given, sched>>

Alive(p) == sched[p].pc \notin {"new", "gone"}

\* mistake: the slot of a process that is gone is left to the schedulers
FeederStat_LeavesIt ==
    /\ feeder.pc = "stat"
    /\ feeder' = NextSlot(feeder) /\ PassEnds
    /\ UNCHANGED <<slot, sema, undo, row, given, sched>>

(* stat("/proc/<pid>"): the slot of a process that is gone is present again. *)
FeederStat ==
    /\ feeder.pc = "stat"
    /\ slot' = IF Alive(feeder.pid) THEN slot
               ELSE [slot EXCEPT ![feeder.slot].state = "present"]
    /\ feeder' = NextSlot(feeder) /\ PassEnds
    /\ UNCHANGED <<sema, undo, row, given, sched>>

(* check_reread_trigger(), between two passes, clears the array. *)
FeederReread ==
    /\ "reread" \in Faults
    /\ feeder.pc = "look" /\ feeder.slot = 1 /\ ready
    /\ slot' = [i \in Slot |-> EmptySlot] /\ ready' = FALSE
    /\ UNCHANGED <<sema, undo, row, given, feeder, sched>>

FeederStep ==
    \/ FeederLook \/ FeederPurge \/ FeederFill \/ FeederResult
    \/ FeederPresent \/ FeederStat

-----------------------------------------------------------------------------
(* A scheduler process. *)

Goes(p, pc) == sched' = [sched EXCEPT ![p].pc = pc]

Lock(p) ==
    /\ sema > 0 /\ sema' = sema - 1
    /\ undo' = [undo EXCEPT ![p] = @ + 1]

Unlock(p) ==
    /\ sema' = sema + 1
    /\ undo' = [undo EXCEPT ![p] = @ - 1]

SetState(i, s) == slot' = [slot EXCEPT ![i].state = s]

(***************************************************************************)
(* no_work(): the first slot that is present is reserved, so that there is *)
(* a job left when the request has been authenticated; it may be refused.  *)
(***************************************************************************)
Tag(p) ==
    /\ sched[p].pc = "new" /\ sema > 0
    /\ IF ready /\ \E i \in Slot : slot[i].state = "present"
       THEN /\ SetState(CHOOSE i \in Slot : /\ slot[i].state = "present"
                                            /\ \A j \in 1 .. i - 1 : slot[j].state # "present", p)
            /\ Goes(p, "leave") \/ Goes(p, "send")
       ELSE Goes(p, "gone") /\ UNCHANGED slot
    /\ UNCHANGED <<ready, sema, undo, row, given, feeder>>

-----------------------------------------------------------------------------
(* send_job_for_app(), once per request, before anything else is sent. *)

NciBegin(p) ==
    /\ sched[p].pc = "send" /\ sched[p].nci /\ NciJobs # {}
    /\ Lock(p)
    /\ sched' = [sched EXCEPT ![p].pc = "nci", ![p].slot = 1, ![p].left = NSlots]
    /\ UNCHANGED <<slot, ready, row, given, feeder>>

NciEnd(p) == [sched[p] EXCEPT !.pc = "send", !.nci = FALSE, !.slot = 1, !.left = 0,
                              !.result = None, !.job = None]
\* mistake: the index is not taken modulo the number of slots
Onward_NoWrap(p) == [sched[p] EXCEPT !.slot = @ + 1, !.left = @ - 1,
                                     !.result = None, !.job = None]
Onward(p) == [sched[p] EXCEPT !.slot = After(@), !.left = @ - 1,
                              !.result = None, !.job = None]

(* A slot with a job of the application: the job is copied; or the end. *)
NciLook(p) ==
    LET i == sched[p].slot IN
    /\ sched[p].pc = "nci"
    /\ \/ /\ sched[p].left = 0
          /\ Unlock(p) /\ sched' = [sched EXCEPT ![p] = NciEnd(p)]
       \/ /\ sched[p].left > 0
          /\ ~(slot[i].state = "present" /\ slot[i].job \in NciJobs)
          /\ sched' = [sched EXCEPT ![p] = Onward(p)] /\ UNCHANGED <<sema, undo>>
       \/ /\ sched[p].left > 0 /\ slot[i].state = "present" /\ slot[i].job \in NciJobs
          /\ sched' = [sched EXCEPT ![p].pc = "nciTake", ![p].job = slot[i].job]
          /\ UNCHANGED <<sema, undo>>
    /\ UNCHANGED <<slot, ready, row, given, feeder>>

(* quick_check() fails and ends the search, or the slot is reserved. *)
NciTake(p) ==
    /\ sched[p].pc = "nciTake"
    /\ Unlock(p)
    /\ \/ sched' = [sched EXCEPT ![p] = NciEnd(p)] /\ UNCHANGED slot
       \/ SetState(sched[p].slot, p) /\ Goes(p, "nciLookup")
    /\ UNCHANGED <<ready, row, given, feeder>>

(***************************************************************************)
(* result_still_sendable(): the result is in the database, unsent, and of  *)
(* the job that was checked.                                               *)
(***************************************************************************)
\* mistake: the job is not compared
StillSendable_AnyJob(r, job) == r # None /\ row[r] = "unsent"
StillSendable(r, job) == r # None /\ row[r] = "unsent" /\ JobOf[r] = job

(* The result is what the slot holds by now. *)
Looks(p, ok, not) ==
    LET r == slot[sched[p].slot].result IN
    sched' = [sched EXCEPT ![p].result = r,
                           ![p].pc = IF StillSendable(r, sched[p].job) THEN ok ELSE not]

NciLookup(p) ==
    /\ sched[p].pc = "nciLookup"
    /\ Looks(p, "nciMark", "nciRelock")
    /\ UNCHANGED <<slot, ready, sema, undo, row, given, feeder>>

\* mistake: the statement lacks its condition on server_state
MarkAsSent_Unchecked(p) ==
    /\ row' = [row EXCEPT ![sched[p].result] = "sent"]
    /\ given' = [given EXCEPT ![sched[p].result] = Append(@, sched[p].job)]

(***************************************************************************)
(* add_result_to_reply(): unless the job's row cannot be updated, or the   *)
(* result is not unsent any more, it is marked as sent and put into the    *)
(* reply with the copy of the job.                                         *)
(***************************************************************************)
MarkAsSent(p) ==
    \/ /\ row[sched[p].result] = "unsent"
       /\ row' = [row EXCEPT ![sched[p].result] = "sent"]
       /\ given' = [given EXCEPT ![sched[p].result] = Append(@, sched[p].job)]
    \/ UNCHANGED <<row, given>>

(* The search ends with the first result sent, and unlocks once more. *)
NciMark(p) ==
    /\ sched[p].pc = "nciMark"
    /\ MarkAsSent(p)
    /\ Unlock(p)
    /\ sched' = [sched EXCEPT ![p] = NciEnd(p)]
    /\ UNCHANGED <<slot, ready, feeder>>

NciRelock(p) ==
    /\ sched[p].pc = "nciRelock"
    /\ Lock(p)
    /\ sched' = [sched EXCEPT ![p] = [Onward(p) EXCEPT !.pc = "nci"]]
    /\ UNCHANGED <<slot, ready, row, given, feeder>>

-----------------------------------------------------------------------------
(* scan_work_array(), several times per request with other criteria. *)

ScanBegin(p) ==
    /\ sched[p].pc = "send" /\ ~(sched[p].nci /\ NciJobs # {})
    /\ \/ /\ sched[p].scans < MaxScans
          /\ Lock(p)
          /\ \E i \in Slot :
               sched' = [sched EXCEPT ![p].pc = "scan", ![p].slot = i, ![p].left = NSlots,
                                      ![p].scans = @ + 1]
       \/ Goes(p, "leave") /\ UNCHANGED <<sema, undo>>
    /\ UNCHANGED <<slot, ready, row, given, feeder>>

ScanEnd(p) == [sched[p] EXCEPT !.pc = "send", !.slot = 1, !.left = 0,
                               !.result = None, !.job = None]

Scannable(p, i) ==
    slot[i].state \in {"present", p} /\ slot[i].job \in Job \ NciJobs

(***************************************************************************)
(* A slot that is present or the process's own, with a job of a known      *)
(* application: the job is copied; quick_check() may turn it down.         *)
(***************************************************************************)
ScanLook(p) ==
    LET i == sched[p].slot IN
    /\ sched[p].pc = "scan"
    /\ \/ /\ sched[p].left = 0
          /\ Unlock(p) /\ sched' = [sched EXCEPT ![p] = ScanEnd(p)]
       \/ /\ sched[p].left > 0
          /\ sched' = [sched EXCEPT ![p] = Onward(p)] /\ UNCHANGED <<sema, undo>>
       \/ /\ sched[p].left > 0 /\ Scannable(p, i)
          /\ sched' = [sched EXCEPT ![p].pc = "take", ![p].job = slot[i].job]
          /\ UNCHANGED <<sema, undo>>
    /\ UNCHANGED <<slot, ready, row, given, feeder>>

ScanTake(p) ==
    /\ sched[p].pc = "take"
    /\ SetState(sched[p].slot, p)
    /\ Unlock(p)
    /\ Goes(p, "slow")
    /\ UNCHANGED <<ready, row, given, feeder>>

(***************************************************************************)
(* slow_check(): not for this host, not for any host, or to be sent.  Only *)
(* when the slot is empty its result is read.                              *)
(***************************************************************************)
ScanSlow(p) ==
    /\ sched[p].pc = "slow"
    /\ \/ SetState(sched[p].slot, "present") /\ Goes(p, "relock")
       \/ SetState(sched[p].slot, "empty") /\ Goes(p, "relock")
       \/ SetState(sched[p].slot, "empty") /\ Goes(p, "lookup")
    /\ UNCHANGED <<ready, sema, undo, row, given, feeder>>

ScanLookup(p) ==
    /\ sched[p].pc = "lookup"
    /\ Looks(p, "mark", "relock")
    /\ UNCHANGED <<slot, ready, sema, undo, row, given, feeder>>

ScanMark(p) ==
    /\ sched[p].pc = "mark"
    /\ MarkAsSent(p)
    /\ Goes(p, "relock")
    /\ UNCHANGED <<slot, ready, sema, undo, feeder>>

(* The next slot; or no more work is needed, in this scan and in others. *)
ScanRelock(p) ==
    /\ sched[p].pc = "relock"
    /\ Lock(p)
    /\ \/ sched' = [sched EXCEPT ![p] = [Onward(p) EXCEPT !.pc = "scan"]]
       \/ sched' = [sched EXCEPT ![p] = [Onward(p) EXCEPT !.pc = "scan", !.left = 0,
                                                     !.scans = MaxScans]]
    /\ UNCHANGED <<slot, ready, row, given, feeder>>

-----------------------------------------------------------------------------
(* The process ends. *)

(* The kernel undoes a process's operations on the semaphore; never below 0. *)
Exit(p) ==
    /\ sched' = [sched EXCEPT ![p] = [@ EXCEPT !.pc = "gone", !.slot = 1, !.left = 0, !.scans = 0,
                                              !.nci = TRUE, !.result = None, !.job = None]]
    /\ sema' = IF sema + undo[p] < 0 THEN 0 ELSE sema + undo[p]
    /\ undo' = [undo EXCEPT ![p] = 0]

(* restore_work(): the first slot still reserved is given back. *)
Restore(p) ==
    /\ sched[p].pc = "leave"
    /\ IF \E i \in Slot : slot[i].state = p
       THEN SetState(CHOOSE i \in Slot : /\ slot[i].state = p
                                         /\ \A j \in 1 .. i - 1 : slot[j].state # p, "present")
       ELSE UNCHANGED slot
    /\ Exit(p)
    /\ UNCHANGED <<ready, row, given, feeder>>

SchedCrash(p) ==
    /\ "crash" \in Faults /\ Alive(p)
    /\ Exit(p)
    /\ UNCHANGED <<slot, ready, row, given, feeder>>

SchedStep(p) ==
    \/ Tag(p)
    \/ NciBegin(p) \/ NciLook(p) \/ NciTake(p) \/ NciLookup(p) \/ NciMark(p) \/ NciRelock(p)
    \/ ScanBegin(p) \/ ScanLook(p) \/ ScanTake(p) \/ ScanSlow(p) \/ ScanLookup(p)
    \/ ScanMark(p) \/ ScanRelock(p) \/ Restore(p)

ArrayNext ==
    \/ FeederStep \/ FeederReread
    \/ \E p \in Pid : SchedStep(p) \/ SchedCrash(p)

ArraySpec == ArrayInit /\ [][ArrayNext]_arrayVars

(* Feeder and processes run on; nothing may be presumed of checks and hosts. *)
ArrayFairSpec ==
    ArraySpec /\ WF_arrayVars(FeederStep) /\ \A p \in Pid : WF_arrayVars(SchedStep(p))

-----------------------------------------------------------------------------
(***************************************************************************)
(* No result is put into two replies, although a slot may be taken by two  *)
(* processes and a result be in two slots.                                 *)
(***************************************************************************)
SentOnce == \A r \in Result : Len(given[r]) <= 1

(***************************************************************************)
(* A result is sent with its own job, although the slot may have been      *)
(* filled again between the copy of the job and the reading of the result. *)
(***************************************************************************)
RightJob == \A r \in Result : \A k \in DOMAIN given[r] : given[r][k] = JobOf[r]

(***************************************************************************)
(* The feeder keeps the array stocked: when the schedulers are gone, every *)
(* result that is still unsent gets into it and stays, or there is no room *)
(* left; whatever the feeder had enumerated before, and wherever killed    *)
(* schedulers left the results they had taken.                             *)
(***************************************************************************)
InArray(r) == \E i \in Slot : slot[i].state # "empty" /\ slot[i].result = r
Stocked ==
    <>[](\/ \A r \in Unsent : InArray(r)
         \/ \A i \in Slot : slot[i].state # "empty")

(***************************************************************************)
(* No slot stays reserved when the schedulers are gone, although they may  *)
(* be killed, give back one slot only, and reserve more than one.          *)
(***************************************************************************)
Released == <>[](\A i \in Slot : slot[i].state \notin Pid)
=============================================================================
