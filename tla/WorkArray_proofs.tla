-------------------------- MODULE WorkArray_proofs --------------------------
(***************************************************************************)
(* Proofs about the job cache, for any number of slots, results and        *)
(* processes.                                                              *)
(***************************************************************************)
EXTENDS WorkArray, TLAPS

(* What a loop relies on in its body: a result in hand, and a slot to go. *)
Looping == {"nciTake", "nciLookup", "nciMark", "nciRelock",
            "take", "slow", "lookup", "mark", "relock"}
Filling == feeder.pc \in {"result", "present"} => feeder.result \in Result
Counting == \A p \in Pid : sched[p].pc \in Looping => sched[p].left > 0
ArrayInv == ArrayTypeOK /\ Filling /\ Counting

(***************************************************************************)
(* A process about to mark a result holds the copy of that result's job;   *)
(* and a result that is unsent was never put into a reply.                 *)
(***************************************************************************)
Prepared ==
    \A p \in Pid : sched[p].pc \in {"nciMark", "mark"} =>
      sched[p].result \in Result /\ JobOf[sched[p].result] = sched[p].job
Ungiven == \A r \in Result : row[r] = "unsent" => given[r] = <<>>
GivenInv == Prepared /\ Ungiven /\ SentOnce /\ RightJob

LEMMA AfterType == ASSUME NEW i \in Slot PROVE After(i) \in Slot
  BY WorkArrayAssumption DEF After, Slot

LEMMA FirstSlot == 1 \in Slot
  BY WorkArrayAssumption DEF Slot

LEMMA Bounds ==
  /\ 0 \in 0 .. MaxScans /\ MaxScans \in 0 .. MaxScans
  /\ 0 \in 0 .. NSlots /\ NSlots \in 0 .. NSlots /\ NSlots > 0
  BY WorkArrayAssumption

-----------------------------------------------------------------------------
(* The feeder. *)

LEMMA NextSlotType ==
  ASSUME NEW f \in FeederRec
  PROVE  NextSlot(f) \in FeederRec /\ NextSlot(f).pc = "look"
<1>1. f.slot \in Slot /\ After(f.slot) \in Slot
  BY AfterType DEF FeederRec
<1> QED
  BY <1>1 DEF NextSlot, FeederRec, FeederPc

LEMMA SetStateType ==
  ASSUME slot \in [Slot -> SlotRec], NEW i \in Slot, NEW s \in SlotState, SetState(i, s)
  PROVE  slot' \in [Slot -> SlotRec]
  BY DEF SetState, SlotRec

LEMMA EndOfRowsType ==
  ASSUME feeder \in FeederRec, EndOfRows, ready \in BOOLEAN, feeder.pc = "fill"
  PROVE  feeder' \in FeederRec /\ feeder'.pc \in {"fill", "look"} /\ ready' \in BOOLEAN
<1> DEFINE f == [feeder EXCEPT !.active = FALSE, !.rows = {},
                               !.phase = IF @ = "first" THEN "second" ELSE "over"]
<1>1. f \in FeederRec /\ f.pc = "fill"
  BY DEF FeederRec
<1>2. CASE feeder.phase = "first"
  BY <1>1, <1>2 DEF EndOfRows
<1>3. CASE feeder.phase # "first"
  BY <1>1, <1>3, NextSlotType DEF EndOfRows, PassEnds
<1> QED
  BY <1>2, <1>3

LEMMA FeederType ==
  ASSUME ArrayInv, FeederStep \/ FeederReread
  PROVE  ArrayInv' /\ UNCHANGED <<row, given, sched>>
<1> USE DEF ArrayInv, ArrayTypeOK
<1>1. feeder.slot \in Slot /\ feeder.result \in Result \cup {None}
  BY DEF FeederRec
<1>2. slot[feeder.slot] \in SlotRec /\ slot[feeder.slot].state \in SlotState
  BY <1>1 DEF SlotRec
<1>3. NextSlot(feeder) \in FeederRec /\ NextSlot(feeder).pc = "look"
  BY NextSlotType
<1>4. CASE FeederLook
  <2>1. feeder' \in FeederRec /\ feeder'.pc \in {"look", "purge", "fill", "stat"}
    <3>1. CASE feeder' = NextSlot(feeder)
      BY <1>3, <3>1
    <3>2. CASE feeder' = [feeder EXCEPT !.pc = "purge"]
      BY <3>2 DEF FeederRec, FeederPc
    <3>3. CASE feeder' = [feeder EXCEPT !.pc = "fill"]
      BY <3>3 DEF FeederRec, FeederPc
    <3>4. CASE /\ slot[feeder.slot].state \in Pid
               /\ feeder' = [feeder EXCEPT !.pc = "stat", !.pid = slot[feeder.slot].state]
      BY <3>4 DEF FeederRec, FeederPc
    <3> QED
      BY <1>4, <3>1, <3>2, <3>3, <3>4 DEF FeederLook
  <2>2. ready' \in BOOLEAN
    BY <1>4 DEF FeederLook, PassEnds
  <2> QED
    BY <1>4, <2>1, <2>2 DEF FeederLook, Filling, Counting
<1>5. CASE FeederPurge
  <2>1. slot' \in [Slot -> SlotRec]
    BY <1>1, <1>5 DEF FeederPurge, SlotRec, SlotState
  <2>2. feeder' \in FeederRec /\ feeder'.pc \in {"look", "fill"} /\ ready' \in BOOLEAN
    <3>1. CASE feeder.phase = "over"
      BY <1>3, <1>5, <3>1 DEF FeederPurge, PassEnds
    <3>2. CASE feeder.phase # "over"
      <4>1. feeder' = [feeder EXCEPT !.pc = "fill"] /\ UNCHANGED ready
        BY <1>5, <3>2 DEF FeederPurge
      <4> QED
        BY <4>1 DEF FeederRec, FeederPc
    <3> QED
      BY <3>1, <3>2
  <2> QED
    BY <1>5, <2>1, <2>2 DEF FeederPurge, Filling, Counting
<1>6. CASE FeederFill
  <2>1. PICK rows \in IF feeder.active THEN {feeder.rows} ELSE FirstRows(Unsent) :
          \/ rows # {} /\ FetchRow(rows) /\ UNCHANGED ready
          \/ rows = {} /\ EndOfRows
    BY <1>6 DEF FeederFill
  <2>2. rows \subseteq Result
    BY <2>1 DEF FirstRows, Unsent, FeederRec
  <2>3. CASE rows # {} /\ FetchRow(rows) /\ UNCHANGED ready
    <3>1. PICK r \in rows :
            feeder' = [feeder EXCEPT !.active = TRUE, !.rows = rows \ {r},
                                     !.pc = IF Collides(r) THEN "fill" ELSE "result",
                                     !.result = IF Collides(r) THEN None ELSE r]
      BY <2>3 DEF FetchRow
    <3>2. feeder' \in FeederRec
      BY <2>2, <3>1 DEF FeederRec, FeederPc
    <3>3. Filling'
      BY <2>2, <3>1 DEF Filling, FeederRec
    <3> QED
      BY <1>6, <2>3, <3>2, <3>3 DEF FeederFill, Counting
  <2>4. CASE rows = {} /\ EndOfRows
    <3>1. feeder' \in FeederRec /\ feeder'.pc \in {"fill", "look"} /\ ready' \in BOOLEAN
      BY <1>6, <2>4, EndOfRowsType DEF FeederFill
    <3> QED
      BY <1>6, <3>1 DEF FeederFill, Filling, Counting
  <2> QED
    BY <2>1, <2>3, <2>4
<1>7. CASE FeederResult
  <2>1. slot' \in [Slot -> SlotRec]
    BY <1>1, <1>7 DEF FeederResult, SlotRec
  <2>2. feeder' \in FeederRec /\ feeder'.result = feeder.result
    BY <1>7 DEF FeederResult, FeederRec, FeederPc
  <2> QED
    BY <1>7, <2>1, <2>2 DEF FeederResult, Filling, Counting
<1>8. CASE FeederPresent
  <2>1. JobOf[feeder.result] \in Job
    BY <1>8, WorkArrayAssumption DEF FeederPresent, Filling
  <2> DEFINE filled == [slot[feeder.slot] EXCEPT !.job = JobOf[feeder.result],
                                                 !.state = "present"]
  <2>2. slot' = [slot EXCEPT ![feeder.slot] = filled]
    BY <1>1, <1>8 DEF FeederPresent
  <2>3. filled \in SlotRec
    BY <1>2, <2>1 DEF SlotRec, SlotState
  <2> HIDE DEF filled
  <2>4. slot' \in [Slot -> SlotRec]
    BY <1>1, <2>2, <2>3
  <2> QED
    BY <1>3, <1>8, <2>4 DEF FeederPresent, PassEnds, Filling, Counting
<1>9. CASE FeederStat
  <2>1. slot' \in [Slot -> SlotRec]
    BY <1>1, <1>9 DEF FeederStat, SlotRec, SlotState
  <2> QED
    BY <1>3, <1>9, <2>1 DEF FeederStat, PassEnds, Filling, Counting
<1>10. CASE FeederReread
  BY <1>10 DEF FeederReread, EmptySlot, SlotRec, SlotState, Filling, Counting
<1> QED
  BY <1>4, <1>5, <1>6, <1>7, <1>8, <1>9, <1>10 DEF FeederStep

-----------------------------------------------------------------------------
(* The scheduler processes. *)

LEMMA LockType ==
  ASSUME sema \in Nat, undo \in [Pid -> Int], NEW p \in Pid, Lock(p) \/ Unlock(p)
  PROVE  sema' \in Nat /\ undo' \in [Pid -> Int]
  BY DEF Lock, Unlock

(* A process changes its own record only; its loop is still within the array. *)
LEMMA SchedSet ==
  ASSUME sched \in [Pid -> SchedRec], Counting, NEW p \in Pid, NEW s \in SchedRec,
         s.pc \in Looping => s.left > 0, sched' = [sched EXCEPT ![p] = s]
  PROVE  sched' \in [Pid -> SchedRec] /\ Counting'
  BY DEF Counting

LEMMA GoesType ==
  ASSUME sched \in [Pid -> SchedRec], Counting, NEW p \in Pid, NEW pc \in SchedPc,
         pc \in Looping => sched[p].left > 0, Goes(p, pc)
  PROVE  sched' \in [Pid -> SchedRec] /\ Counting'
<1> DEFINE s == [sched[p] EXCEPT !.pc = pc]
<1>1. sched' = [sched EXCEPT ![p] = s]
  BY DEF Goes
<1>2. s \in SchedRec /\ s.pc = pc /\ s.left = sched[p].left
  BY DEF SchedRec
<1> QED
  BY <1>1, <1>2, SchedSet

LEMMA EndType ==
  ASSUME sched \in [Pid -> SchedRec], NEW p \in Pid
  PROVE  /\ NciEnd(p) \in SchedRec /\ NciEnd(p).pc = "send"
         /\ ScanEnd(p) \in SchedRec /\ ScanEnd(p).pc = "send"
  BY FirstSlot, Bounds DEF NciEnd, ScanEnd, SchedRec, SchedPc

LEMMA OnwardType ==
  ASSUME sched \in [Pid -> SchedRec], NEW p \in Pid, sched[p].left > 0
  PROVE  Onward(p) \in SchedRec /\ Onward(p).pc = sched[p].pc
<1>1. sched[p].slot \in Slot /\ sched[p].left \in 0 .. NSlots
  BY DEF SchedRec
<1>2. After(sched[p].slot) \in Slot /\ sched[p].left - 1 \in 0 .. NSlots
  BY <1>1, AfterType, WorkArrayAssumption
<1> QED
  BY <1>2 DEF Onward, SchedRec

LEMMA LooksType ==
  ASSUME ArrayTypeOK, Counting, NEW p \in Pid, NEW ok \in SchedPc, NEW not \in SchedPc,
         sched[p].left > 0, Looks(p, ok, not)
  PROVE  sched' \in [Pid -> SchedRec] /\ Counting'
<1> DEFINE r == slot[sched[p].slot].result
           pc == IF StillSendable(r, sched[p].job) THEN ok ELSE not
           s == [sched[p] EXCEPT !.result = r, !.pc = pc]
<1>1. r \in Result \cup {None}
  BY DEF ArrayTypeOK, SchedRec, SlotRec
<1>2. pc \in SchedPc
  OBVIOUS
<1>3. sched' = [sched EXCEPT ![p] = s]
  BY DEF Looks, ArrayTypeOK
<1> HIDE DEF r, pc
<1>4. s \in SchedRec /\ s.left = sched[p].left
  BY <1>1, <1>2 DEF ArrayTypeOK, SchedRec
<1> QED
  BY <1>3, <1>4, SchedSet DEF ArrayTypeOK

LEMMA MarkAsSentType ==
  ASSUME ArrayTypeOK, NEW p \in Pid, MarkAsSent(p)
  PROVE  row' \in [Result -> {"unsent", "sent"}] /\ given' \in [Result -> Seq(Job \cup {None})]
<1>1. sched[p].job \in Job \cup {None}
  BY DEF ArrayTypeOK, SchedRec
<1>2. CASE UNCHANGED <<row, given>>
  BY <1>2 DEF ArrayTypeOK
<1>3. CASE /\ row' = [row EXCEPT ![sched[p].result] = "sent"]
           /\ given' = [given EXCEPT ![sched[p].result] = Append(@, sched[p].job)]
  <2> DEFINE new(r) == IF r = sched[p].result THEN Append(given[r], sched[p].job) ELSE given[r]
  <2>1. given' = [r \in Result |-> new(r)]
    BY <1>3 DEF ArrayTypeOK
  <2>2. \A r \in Result : Append(given[r], sched[p].job) \in Seq(Job \cup {None})
    BY <1>1 DEF ArrayTypeOK
  <2>3. \A r \in Result : new(r) \in Seq(Job \cup {None})
    BY <2>2 DEF ArrayTypeOK
  <2>4. row' \in [Result -> {"unsent", "sent"}]
    BY <1>3 DEF ArrayTypeOK
  <2> HIDE DEF new
  <2>5. given' \in [Result -> Seq(Job \cup {None})]
    BY <2>1, <2>3
  <2> QED
    BY <2>4, <2>5
<1> QED
  BY <1>2, <1>3 DEF MarkAsSent

LEMMA ExitType ==
  ASSUME ArrayTypeOK, Counting, NEW p \in Pid, Exit(p)
  PROVE  sema' \in Nat /\ undo' \in [Pid -> Int] /\ sched' \in [Pid -> SchedRec] /\ Counting'
<1> DEFINE s == [sched[p] EXCEPT !.pc = "gone", !.slot = 1, !.left = 0, !.scans = 0,
                                 !.nci = TRUE, !.result = None, !.job = None]
<1>1. sched' = [sched EXCEPT ![p] = s]
  BY DEF Exit, ArrayTypeOK
<1>2. s \in SchedRec /\ s.pc = "gone"
  BY FirstSlot, Bounds DEF ArrayTypeOK, SchedRec, SchedPc
<1> HIDE DEF s
<1>3. sched' \in [Pid -> SchedRec] /\ Counting'
  BY <1>1, <1>2, SchedSet DEF ArrayTypeOK, Looping
<1> QED
  BY <1>3 DEF Exit, ArrayTypeOK

(* Steps of send_job_for_app(). *)
LEMMA NciType ==
  ASSUME ArrayInv, NEW p \in Pid,
         \/ NciBegin(p) \/ NciLook(p) \/ NciTake(p) \/ NciLookup(p) \/ NciMark(p) \/ NciRelock(p)
  PROVE  ArrayInv'
<1> USE DEF ArrayInv, ArrayTypeOK
<1>1. sched[p].slot \in Slot /\ sched[p] \in SchedRec
  BY DEF SchedRec
<1>2. slot[sched[p].slot] \in SlotRec
  BY <1>1
<1>3. CASE NciBegin(p)
  <2> DEFINE s == [sched[p] EXCEPT !.pc = "nci", !.slot = 1, !.left = NSlots]
  <2>1. sched' = [sched EXCEPT ![p] = s]
    BY <1>3 DEF NciBegin
  <2>2. s \in SchedRec /\ s.pc = "nci"
    BY FirstSlot, Bounds DEF SchedRec, SchedPc
  <2> HIDE DEF s
  <2>3. sched' \in [Pid -> SchedRec] /\ Counting'
    BY <2>1, <2>2, SchedSet DEF Looping
  <2> QED
    BY <1>3, <2>3, LockType DEF NciBegin, Filling
<1>4. CASE NciLook(p)
  <2>1. CASE sched[p].left = 0 /\ Unlock(p) /\ sched' = [sched EXCEPT ![p] = NciEnd(p)]
    BY <1>4, <2>1, EndType, SchedSet, LockType DEF NciLook, Looping, Filling
  <2>2. CASE sched[p].left > 0 /\ sched' = [sched EXCEPT ![p] = Onward(p)] /\ UNCHANGED <<sema, undo>>
    <3>1. Onward(p) \in SchedRec /\ Onward(p).pc = "nci"
      BY <1>4, <2>2, OnwardType DEF NciLook
    <3> QED
      BY <1>4, <2>2, <3>1, SchedSet DEF NciLook, Looping, Filling
  <2>3. CASE /\ sched[p].left > 0
             /\ sched' = [sched EXCEPT ![p].pc = "nciTake", ![p].job = slot[sched[p].slot].job]
             /\ UNCHANGED <<sema, undo>>
    <3> DEFINE s == [sched[p] EXCEPT !.pc = "nciTake", !.job = slot[sched[p].slot].job]
    <3>1. sched' = [sched EXCEPT ![p] = s]
      BY <2>3
    <3>2. s \in SchedRec /\ s.left = sched[p].left
      BY <1>1, <1>2 DEF SchedRec, SlotRec, SchedPc
    <3> HIDE DEF s
    <3> QED
      BY <1>4, <2>3, <3>1, <3>2, SchedSet DEF NciLook, Filling
  <2> QED
    BY <1>4, <2>1, <2>2, <2>3 DEF NciLook
<1>5. CASE NciTake(p)
  <2>1. sema' \in Nat /\ undo' \in [Pid -> Int] /\ sched[p].left > 0
    BY <1>5, LockType DEF NciTake, Counting, Looping
  <2>2. CASE sched' = [sched EXCEPT ![p] = NciEnd(p)] /\ UNCHANGED slot
    BY <1>5, <2>1, <2>2, EndType, SchedSet DEF NciTake, Looping, Filling
  <2>3. CASE SetState(sched[p].slot, p) /\ Goes(p, "nciLookup")
    <3>1. slot' \in [Slot -> SlotRec]
      BY <1>1, <2>3, SetStateType DEF SlotState
    <3>2. sched' \in [Pid -> SchedRec] /\ Counting'
      BY <2>1, <2>3, GoesType DEF SchedPc
    <3> QED
      BY <1>5, <2>1, <3>1, <3>2 DEF NciTake, Filling
  <2> QED
    BY <1>5, <2>2, <2>3 DEF NciTake
<1>6. CASE NciLookup(p)
  <2>1. sched[p].left > 0
    BY <1>6 DEF NciLookup, Counting, Looping
  <2>2. sched' \in [Pid -> SchedRec] /\ Counting'
    BY <1>6, <2>1, LooksType DEF NciLookup, SchedPc
  <2> QED
    BY <1>6, <2>2 DEF NciLookup, Filling
<1>7. CASE NciMark(p)
  <2>1. sched' \in [Pid -> SchedRec] /\ Counting'
    BY <1>7, EndType, SchedSet DEF NciMark, Looping
  <2> QED
    BY <1>7, <2>1, LockType, MarkAsSentType DEF NciMark, Filling
<1>8. CASE NciRelock(p)
  <2>1. sched[p].left > 0
    BY <1>8 DEF NciRelock, Counting, Looping
  <2> DEFINE s == [Onward(p) EXCEPT !.pc = "nci"]
  <2>2. s \in SchedRec /\ s.pc = "nci"
    BY <2>1, OnwardType DEF SchedRec, SchedPc
  <2>3. sched' = [sched EXCEPT ![p] = s]
    BY <1>8 DEF NciRelock
  <2> HIDE DEF s
  <2>4. sched' \in [Pid -> SchedRec] /\ Counting'
    BY <2>2, <2>3, SchedSet DEF Looping
  <2> QED
    BY <1>8, <2>4, LockType DEF NciRelock, Filling
<1> QED
  BY <1>3, <1>4, <1>5, <1>6, <1>7, <1>8

(* Steps of scan_work_array(). *)
LEMMA ScanType ==
  ASSUME ArrayInv, NEW p \in Pid,
         \/ ScanBegin(p) \/ ScanLook(p) \/ ScanTake(p) \/ ScanSlow(p)
         \/ ScanLookup(p) \/ ScanMark(p) \/ ScanRelock(p)
  PROVE  ArrayInv'
<1> USE DEF ArrayInv, ArrayTypeOK
<1>1. sched[p].slot \in Slot /\ sched[p] \in SchedRec
  BY DEF SchedRec
<1>2. slot[sched[p].slot] \in SlotRec
  BY <1>1
<1>3. CASE ScanBegin(p)
  <2>1. CASE Goes(p, "leave") /\ UNCHANGED <<sema, undo>>
    BY <1>3, <2>1, GoesType DEF ScanBegin, SchedPc, Looping, Filling
  <2>2. CASE /\ sched[p].scans < MaxScans
             /\ Lock(p)
             /\ \E i \in Slot :
                  sched' = [sched EXCEPT ![p].pc = "scan", ![p].slot = i, ![p].left = NSlots,
                                         ![p].scans = @ + 1]
    <3>1. PICK i \in Slot :
            sched' = [sched EXCEPT ![p].pc = "scan", ![p].slot = i, ![p].left = NSlots,
                                   ![p].scans = @ + 1]
      BY <2>2
    <3> DEFINE s == [sched[p] EXCEPT !.pc = "scan", !.slot = i, !.left = NSlots, !.scans = @ + 1]
    <3>2. sched' = [sched EXCEPT ![p] = s]
      BY <3>1
    <3>3. sched[p].scans + 1 \in 0 .. MaxScans
      BY <1>1, <2>2, WorkArrayAssumption DEF SchedRec
    <3>4. s \in SchedRec /\ s.pc = "scan"
      BY <1>1, <3>3, Bounds DEF SchedRec, SchedPc
    <3> HIDE DEF s
    <3>5. sched' \in [Pid -> SchedRec] /\ Counting'
      BY <3>2, <3>4, SchedSet DEF Looping
    <3> QED
      BY <1>3, <2>2, <3>5, LockType DEF ScanBegin, Filling
  <2> QED
    BY <1>3, <2>1, <2>2 DEF ScanBegin
<1>4. CASE ScanLook(p)
  <2>1. CASE sched[p].left = 0 /\ Unlock(p) /\ sched' = [sched EXCEPT ![p] = ScanEnd(p)]
    BY <1>4, <2>1, EndType, SchedSet, LockType DEF ScanLook, Looping, Filling
  <2>2. CASE sched[p].left > 0 /\ sched' = [sched EXCEPT ![p] = Onward(p)] /\ UNCHANGED <<sema, undo>>
    <3>1. Onward(p) \in SchedRec /\ Onward(p).pc = "scan"
      BY <1>4, <2>2, OnwardType DEF ScanLook
    <3> QED
      BY <1>4, <2>2, <3>1, SchedSet DEF ScanLook, Looping, Filling
  <2>3. CASE /\ sched[p].left > 0
             /\ sched' = [sched EXCEPT ![p].pc = "take", ![p].job = slot[sched[p].slot].job]
             /\ UNCHANGED <<sema, undo>>
    <3> DEFINE s == [sched[p] EXCEPT !.pc = "take", !.job = slot[sched[p].slot].job]
    <3>1. sched' = [sched EXCEPT ![p] = s]
      BY <2>3
    <3>2. s \in SchedRec /\ s.left = sched[p].left
      BY <1>1, <1>2 DEF SchedRec, SlotRec, SchedPc
    <3> HIDE DEF s
    <3> QED
      BY <1>4, <2>3, <3>1, <3>2, SchedSet DEF ScanLook, Filling
  <2> QED
    BY <1>4, <2>1, <2>2, <2>3 DEF ScanLook
<1>5. CASE ScanTake(p)
  <2>1. slot' \in [Slot -> SlotRec]
    BY <1>1, <1>5, SetStateType DEF ScanTake, SlotState
  <2>2. sched' \in [Pid -> SchedRec] /\ Counting'
    BY <1>5, GoesType DEF ScanTake, SchedPc, Counting, Looping
  <2> QED
    BY <1>5, <2>1, <2>2, LockType DEF ScanTake, Filling
<1>6. CASE ScanSlow(p)
  <2>1. PICK s \in {"present", "empty"}, pc \in {"relock", "lookup"} :
          SetState(sched[p].slot, s) /\ Goes(p, pc)
    BY <1>6 DEF ScanSlow
  <2>2. slot' \in [Slot -> SlotRec]
    BY <1>1, <2>1, SetStateType DEF SlotState
  <2>3. sched[p].left > 0
    BY <1>6 DEF ScanSlow, Counting, Looping
  <2>4. sched' \in [Pid -> SchedRec] /\ Counting'
    BY <2>1, <2>3, GoesType DEF SchedPc
  <2> QED
    BY <1>6, <2>2, <2>4 DEF ScanSlow, Filling
<1>7. CASE ScanLookup(p)
  <2>1. sched[p].left > 0
    BY <1>7 DEF ScanLookup, Counting, Looping
  <2>2. sched' \in [Pid -> SchedRec] /\ Counting'
    BY <1>7, <2>1, LooksType DEF ScanLookup, SchedPc
  <2> QED
    BY <1>7, <2>2 DEF ScanLookup, Filling
<1>8. CASE ScanMark(p)
  <2>1. sched[p].left > 0
    BY <1>8 DEF ScanMark, Counting, Looping
  <2>2. sched' \in [Pid -> SchedRec] /\ Counting'
    BY <1>8, <2>1, GoesType DEF ScanMark, SchedPc
  <2> QED
    BY <1>8, <2>2, MarkAsSentType DEF ScanMark, Filling
<1>9. CASE ScanRelock(p)
  <2>1. sched[p].left > 0
    BY <1>9 DEF ScanRelock, Counting, Looping
  <2> DEFINE next == [Onward(p) EXCEPT !.pc = "scan"]
             last == [Onward(p) EXCEPT !.pc = "scan", !.left = 0, !.scans = MaxScans]
  <2>2. /\ next \in SchedRec /\ next.pc = "scan"
        /\ last \in SchedRec /\ last.pc = "scan"
    BY <2>1, OnwardType, Bounds DEF SchedRec, SchedPc
  <2>3. sched' = [sched EXCEPT ![p] = next] \/ sched' = [sched EXCEPT ![p] = last]
    BY <1>9 DEF ScanRelock
  <2> HIDE DEF next, last
  <2>4. sched' \in [Pid -> SchedRec] /\ Counting'
    BY <2>2, <2>3, SchedSet DEF Looping
  <2> QED
    BY <1>9, <2>4, LockType DEF ScanRelock, Filling
<1> QED
  BY <1>3, <1>4, <1>5, <1>6, <1>7, <1>8, <1>9

(* The array is tagged, and given back, one slot at a time. *)
LEMMA EndsType ==
  ASSUME ArrayInv, NEW p \in Pid, Tag(p) \/ Restore(p) \/ SchedCrash(p)
  PROVE  ArrayInv'
<1> USE DEF ArrayInv, ArrayTypeOK
<1>1. CASE Tag(p)
  <2>1. sched' \in [Pid -> SchedRec] /\ Counting'
    BY <1>1, GoesType DEF Tag, SchedPc, Looping
  <2>2. slot' \in [Slot -> SlotRec]
    BY <1>1, SetStateType DEF Tag, SetState, SlotRec, SlotState
  <2> QED
    BY <1>1, <2>1, <2>2 DEF Tag, Filling
<1>2. CASE Restore(p)
  <2>1. slot' \in [Slot -> SlotRec]
    <3>1. PICK i : SetState(i, "present") \/ UNCHANGED slot
      BY <1>2 DEF Restore
    <3> QED
      BY <3>1 DEF SetState, SlotRec, SlotState
  <2> QED
    BY <1>2, <2>1, ExitType DEF Restore, Filling
<1>3. CASE SchedCrash(p)
  BY <1>3, ExitType DEF SchedCrash, Filling
<1> QED
  BY <1>1, <1>2, <1>3

LEMMA InitType == ArrayInit => ArrayInv
<1> SUFFICES ASSUME ArrayInit PROVE ArrayInv
  OBVIOUS
<1>1. EmptySlot \in SlotRec
  BY DEF EmptySlot, SlotRec, SlotState
<1>2. slot \in [Slot -> SlotRec] /\ ready \in BOOLEAN
  BY <1>1 DEF ArrayInit
<1>3. sema \in Nat /\ undo \in [Pid -> Int]
  BY DEF ArrayInit
<1>4. row \in [Result -> {"unsent", "sent"}] /\ given \in [Result -> Seq(Job \cup {None})]
  BY DEF ArrayInit
<1>5. feeder \in FeederRec /\ feeder.pc = "look"
  BY FirstSlot DEF ArrayInit, FeederRec, FeederPc
<1>6. sched \in [Pid -> SchedRec] /\ \A p \in Pid : sched[p].pc = "new"
  BY FirstSlot, Bounds DEF ArrayInit, SchedRec, SchedPc
<1> QED
  BY <1>2, <1>3, <1>4, <1>5, <1>6 DEF ArrayInv, ArrayTypeOK, Filling, Counting, Looping

LEMMA StepType == ArrayInv /\ [ArrayNext]_arrayVars => ArrayInv'
<1> SUFFICES ASSUME ArrayInv, [ArrayNext]_arrayVars PROVE ArrayInv'
  OBVIOUS
<1>1. CASE FeederStep \/ FeederReread
  BY <1>1, FeederType
<1>2. ASSUME NEW p \in Pid, SchedStep(p) \/ SchedCrash(p) PROVE ArrayInv'
  BY <1>2, NciType, ScanType, EndsType DEF SchedStep
<1>3. CASE UNCHANGED arrayVars
  BY <1>3 DEF arrayVars, ArrayInv, ArrayTypeOK, Filling, Counting
<1> QED
  BY <1>1, <1>2, <1>3 DEF ArrayNext

(***************************************************************************)
(* The indices of the feeder and of every scheduler stay within the array, *)
(* through wrapped scans, purges, crashes and rereads; what a slot holds   *)
(* is a result and a job or nothing; and the semaphore's value is never    *)
(* negative, however often a process unlocks what it did not lock.         *)
(***************************************************************************)
THEOREM ArrayTypeCorrect == ArraySpec => []ArrayTypeOK
<1>1. ArrayInv => ArrayTypeOK
  BY DEF ArrayInv
<1> QED
  BY <1>1, InitType, StepType, PTL DEF ArraySpec

-----------------------------------------------------------------------------
(* What is put into replies. *)

Marking == {"nciMark", "mark"}

(* Every step of a process changes the record of that process alone. *)
LEMMA OwnRecord ==
  ASSUME ArrayTypeOK, NEW p \in Pid, SchedStep(p) \/ SchedCrash(p)
  PROVE  \A q \in Pid \ {p} : sched'[q] = sched[q]
<1> USE DEF ArrayTypeOK
<1>1. CASE Tag(p) \/ Restore(p) \/ SchedCrash(p)
  BY <1>1 DEF Tag, Restore, SchedCrash, Exit, Goes
<1>2. CASE NciBegin(p) \/ NciLook(p) \/ NciTake(p)
  BY <1>2 DEF NciBegin, NciLook, NciTake, Goes
<1>3. CASE NciLookup(p) \/ NciMark(p) \/ NciRelock(p)
  BY <1>3 DEF NciLookup, NciMark, NciRelock, Looks
<1>4. CASE ScanBegin(p) \/ ScanLook(p) \/ ScanTake(p) \/ ScanSlow(p)
  BY <1>4 DEF ScanBegin, ScanLook, ScanTake, ScanSlow, Goes
<1>5. CASE ScanLookup(p) \/ ScanMark(p) \/ ScanRelock(p)
  BY <1>5 DEF ScanLookup, ScanMark, ScanRelock, Looks, Goes
<1> QED
  BY <1>1, <1>2, <1>3, <1>4, <1>5 DEF SchedStep

(* Only a look at the database leads to the marking of a result. *)
LEMMA ToMarking ==
  ASSUME ArrayInv, NEW p \in Pid, SchedStep(p) \/ SchedCrash(p),
         sched'[p].pc \in Marking
  PROVE  NciLookup(p) \/ ScanLookup(p)
<1> USE DEF ArrayInv, ArrayTypeOK, Marking
<1>1. sched[p] \in SchedRec
  OBVIOUS
<1>2. CASE Tag(p) \/ Restore(p) \/ SchedCrash(p)
  <2>1. CASE Tag(p)
    <3>1. Goes(p, "leave") \/ Goes(p, "send") \/ Goes(p, "gone")
      BY <2>1 DEF Tag
    <3> QED
      BY <1>1, <3>1 DEF Goes, SchedRec
  <2>2. CASE Exit(p)
    BY <1>1, <2>2 DEF Exit, SchedRec
  <2> QED
    BY <1>2, <2>1, <2>2 DEF Restore, SchedCrash
<1>3. CASE NciBegin(p) \/ NciTake(p) \/ NciMark(p)
  BY <1>1, <1>3, EndType DEF NciBegin, NciTake, NciMark, Goes, SchedRec
<1>4. CASE NciLook(p)
  <2>1. sched[p].left > 0 => Onward(p).pc = "nci"
    BY <1>4, OnwardType DEF NciLook
  <2> QED
    BY <1>1, <1>4, <2>1, EndType DEF NciLook, SchedRec
<1>5. CASE NciRelock(p) \/ ScanRelock(p)
  <2>1. sched[p].left > 0
    BY <1>5 DEF NciRelock, ScanRelock, Counting, Looping
  <2>2. Onward(p) \in SchedRec
    BY <2>1, OnwardType
  <2> QED
    BY <1>5, <2>2 DEF NciRelock, ScanRelock, SchedRec
<1>6. CASE ScanBegin(p) \/ ScanTake(p) \/ ScanSlow(p) \/ ScanMark(p)
  <2>1. CASE \E pc \in SchedPc \ Marking : Goes(p, pc)
    BY <1>1, <2>1 DEF Goes, SchedRec
  <2>2. CASE ScanTake(p) \/ ScanSlow(p) \/ ScanMark(p)
    BY <2>1, <2>2 DEF ScanTake, ScanSlow, ScanMark, SchedPc
  <2>3. CASE ScanBegin(p)
    <3>1. CASE \E i \in Slot :
            sched' = [sched EXCEPT ![p].pc = "scan", ![p].slot = i, ![p].left = NSlots,
                                   ![p].scans = @ + 1]
      <4>1. sched'[p].pc = "scan"
        BY <1>1, <3>1 DEF SchedRec
      <4> QED
        BY <4>1
    <3>2. CASE Goes(p, "leave")
      BY <2>1, <3>2 DEF SchedPc
    <3> QED
      BY <2>3, <3>1, <3>2 DEF ScanBegin
  <2> QED
    BY <1>6, <2>2, <2>3
<1>7. CASE ScanLook(p)
  <2>1. sched[p].left > 0 => Onward(p).pc = "scan"
    BY <1>7, OnwardType DEF ScanLook
  <2> QED
    BY <1>1, <1>7, <2>1, EndType DEF ScanLook, SchedRec
<1> QED
  BY <1>2, <1>3, <1>4, <1>5, <1>6, <1>7 DEF SchedStep

LEMMA LooksPrepared ==
  ASSUME ArrayTypeOK, NEW p \in Pid, NEW ok \in SchedPc, NEW not \in SchedPc \ Marking,
         Looks(p, ok, not), sched'[p].pc \in Marking
  PROVE  sched'[p].result \in Result /\ JobOf[sched'[p].result] = sched'[p].job
<1> DEFINE r == slot[sched[p].slot].result
<1>1. r \in Result \cup {None} /\ sched[p] \in SchedRec
  BY DEF ArrayTypeOK, SchedRec, SlotRec
<1>2. sched'[p].result = r /\ sched'[p].job = sched[p].job
  BY <1>1 DEF Looks, ArrayTypeOK, SchedRec
<1>3. sched'[p].pc = IF StillSendable(r, sched[p].job) THEN ok ELSE not
  BY <1>1 DEF Looks, ArrayTypeOK, SchedRec
<1>4. StillSendable(r, sched[p].job)
  BY <1>3
<1> QED
  BY <1>1, <1>2, <1>4 DEF StillSendable

LEMMA PreparedStep ==
  ASSUME ArrayInv, Prepared, NEW p \in Pid, SchedStep(p) \/ SchedCrash(p)
  PROVE  Prepared'
<1> USE DEF Marking
<1>1. \A q \in Pid \ {p} : sched'[q] = sched[q]
  BY OwnRecord DEF ArrayInv
<1>2. ASSUME sched'[p].pc \in Marking
      PROVE  sched'[p].result \in Result /\ JobOf[sched'[p].result] = sched'[p].job
  <2>1. CASE NciLookup(p)
    BY <1>2, <2>1, LooksPrepared DEF NciLookup, ArrayInv, SchedPc
  <2>2. CASE ScanLookup(p)
    BY <1>2, <2>2, LooksPrepared DEF ScanLookup, ArrayInv, SchedPc
  <2> QED
    BY <1>2, <2>1, <2>2, ToMarking
<1> QED
  BY <1>1, <1>2 DEF Prepared

(* A result that is marked was unsent, so it is in no reply yet. *)
LEMMA MarkAsSentGiven ==
  ASSUME ArrayTypeOK, GivenInv, NEW p \in Pid, sched[p].pc \in Marking, MarkAsSent(p)
  PROVE  Ungiven' /\ SentOnce' /\ RightJob'
<1> DEFINE r == sched[p].result
           j == sched[p].job
<1>1. r \in Result /\ JobOf[r] = j
  BY DEF GivenInv, Prepared, Marking
<1>2. CASE UNCHANGED <<row, given>>
  BY <1>2 DEF GivenInv, Ungiven, SentOnce, RightJob
<1>3. CASE /\ row[r] = "unsent"
           /\ row' = [row EXCEPT ![r] = "sent"]
           /\ given' = [given EXCEPT ![r] = Append(@, j)]
  <2>1. given[r] = <<>>
    BY <1>1, <1>3 DEF GivenInv, Ungiven
  <2>2. given'[r] = Append(<<>>, j) /\ row'[r] = "sent"
    BY <1>1, <1>3, <2>1 DEF ArrayTypeOK
  <2>3. given'[r] = <<j>>
    BY <2>2
  <2>4. \A q \in Result \ {r} : given'[q] = given[q] /\ row'[q] = row[q]
    BY <1>3 DEF ArrayTypeOK
  <2> HIDE DEF r, j
  <2>5. Ungiven'
    BY <2>2, <2>4 DEF GivenInv, Ungiven
  <2>6. SentOnce'
    <3>1. Len(<<j>>) = 1
      OBVIOUS
    <3>2. Len(given'[r]) <= 1
      BY <2>3, <3>1
    <3> QED
      BY <2>4, <3>2 DEF GivenInv, SentOnce
  <2>7. RightJob'
    <3>1. \A k \in DOMAIN given'[r] : given'[r][k] = JobOf[r]
      <4>1. DOMAIN <<j>> = 1 .. 1 /\ <<j>>[1] = j
        OBVIOUS
      <4>2. \A k \in 1 .. 1 : k = 1
        OBVIOUS
      <4> QED
        BY <1>1, <2>3, <4>1, <4>2
    <3> QED
      BY <2>4, <3>1 DEF GivenInv, RightJob
  <2> QED
    BY <2>5, <2>6, <2>7
<1> QED
  BY <1>2, <1>3 DEF MarkAsSent

LEMMA OnlyMarkGives ==
  ASSUME NEW p \in Pid, SchedStep(p) \/ SchedCrash(p)
  PROVE  \/ UNCHANGED <<row, given>>
         \/ sched[p].pc \in Marking /\ MarkAsSent(p)
<1>1. CASE Tag(p) \/ Restore(p) \/ SchedCrash(p)
  BY <1>1 DEF Tag, Restore, SchedCrash
<1>2. CASE NciBegin(p) \/ NciLook(p) \/ NciTake(p) \/ NciLookup(p) \/ NciRelock(p)
  BY <1>2 DEF NciBegin, NciLook, NciTake, NciLookup, NciRelock
<1>3. CASE NciMark(p) \/ ScanMark(p)
  BY <1>3 DEF NciMark, ScanMark, Marking
<1>4. CASE ScanBegin(p) \/ ScanLook(p) \/ ScanTake(p) \/ ScanSlow(p) \/ ScanLookup(p) \/ ScanRelock(p)
  BY <1>4 DEF ScanBegin, ScanLook, ScanTake, ScanSlow, ScanLookup, ScanRelock
<1> QED
  BY <1>1, <1>2, <1>3, <1>4 DEF SchedStep

LEMMA StepGiven ==
  ArrayInv /\ GivenInv /\ [ArrayNext]_arrayVars => GivenInv'
<1> SUFFICES ASSUME ArrayInv, GivenInv, [ArrayNext]_arrayVars PROVE GivenInv'
  OBVIOUS
<1>1. ASSUME UNCHANGED <<row, given, sched>> PROVE GivenInv'
  BY <1>1 DEF GivenInv, Prepared, Ungiven, SentOnce, RightJob
<1>2. CASE FeederStep \/ FeederReread
  BY <1>1, <1>2, FeederType
<1>3. ASSUME NEW p \in Pid, SchedStep(p) \/ SchedCrash(p) PROVE GivenInv'
  <2>1. Prepared'
    BY <1>3, PreparedStep DEF GivenInv
  <2>2. CASE UNCHANGED <<row, given>>
    BY <2>1, <2>2 DEF GivenInv, Ungiven, SentOnce, RightJob
  <2>3. CASE sched[p].pc \in Marking /\ MarkAsSent(p)
    BY <2>1, <2>3, MarkAsSentGiven DEF GivenInv, ArrayInv
  <2> QED
    BY <1>3, <2>2, <2>3, OnlyMarkGives
<1>4. CASE UNCHANGED arrayVars
  BY <1>1, <1>4 DEF arrayVars
<1> QED
  BY <1>2, <1>3, <1>4 DEF ArrayNext

LEMMA InitGiven == ArrayInit => GivenInv
  BY DEF ArrayInit, GivenInv, Prepared, Ungiven, SentOnce, RightJob

(***************************************************************************)
(* No result is put into two replies, whatever the schedulers' processes,  *)
(* the feeder, an operator and crashes do to the array, which two of them  *)
(* may have the same result from: the marking of a result asks once more   *)
(* whether it is unsent.                                                   *)
(***************************************************************************)
THEOREM SentOnceHolds == ArraySpec => []SentOnce
<1>1. GivenInv => SentOnce
  BY DEF GivenInv
<1> QED
  BY <1>1, InitType, StepType, InitGiven, StepGiven, PTL DEF ArraySpec

(***************************************************************************)
(* A result is sent with its own job: the copy of a job and the result are *)
(* read from the slot at different times, and result_still_sendable()      *)
(* compares them before the result is marked.                              *)
(***************************************************************************)
THEOREM RightJobHolds == ArraySpec => []RightJob
<1>1. GivenInv => RightJob
  BY DEF GivenInv
<1> QED
  BY <1>1, InitType, StepType, InitGiven, StepGiven, PTL DEF ArraySpec
=============================================================================
