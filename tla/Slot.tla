--------------------------------- MODULE Slot ---------------------------------
(***************************************************************************)
(* The processes of one job, and the lock file by which the API lets only  *)
(* one of them work in the job's slot directory.  Nothing kills a process  *)
(* when its client dies: it ends when it has missed its heartbeats, and a  *)
(* client that is started again before that starts another one.  (As on    *)
(* Unix, where the lock is on a file that may be deleted while it is open.)*)
(***************************************************************************)
VARIABLES
    proc,     \* the process this client started; how it ended, until that has been noticed
    old,      \* what the processes of earlier clients do; those that do the same count as one
    exposed   \* old ones are not kept apart by the lock file (history)

oldVars == <<old, exposed>>
slotVars == <<proc, oldVars>>

\* waiting: has the lock file open and sleeps before it tries again to lock it; running: has
\* locked it, and works.  lost and loose: the same with a file that was deleted since.
Phase == {"waiting", "lost", "running", "loose"}
AtWork == {"running", "loose"}

\* finished: exit 0 with a finish file; quit: ended in a way that calls for a restart.
How == {"finished", "quit", "error"}

SlotTypeOK == proc \in {"none"} \cup Phase \cup How /\ old \subseteq Phase /\ exposed \in BOOLEAN

(***************************************************************************)
(* boinc_init_options_general() calls FILE_LOCK::lock() when a process     *)
(* starts, and again after LOCKFILE_TIMEOUT_PERIOD; then it gives up, and  *)
(* exits for ten minutes.  The file is opened once: it can be locked also  *)
(* when it has been deleted, unless another has locked this very file.     *)
(***************************************************************************)
Started == IF "running" \in old THEN "waiting" ELSE "running"

\* mistake: who waited long enough works, whether or not it got the lock.
Lock_Ignored(p, others) ==
    CASE p = "waiting" -> {"running"}
      [] p = "lost" -> {"loose"} \cup {x \in {"quit"} : "loose" \in others}
      [] OTHER -> {}
Lock(p, others) ==
    CASE p = "waiting" -> {IF "running" \in others THEN "quit" ELSE "running"}
      [] p = "lost" -> {"loose"} \cup {x \in {"quit"} : "loose" \in others}
      [] OTHER -> {}

\* What a process becomes when the lock file is deleted: with the slot's other files,
\* or by FILE_LOCK::unlock() of one that exits.
FileDeleted(p) ==
    CASE p = "waiting" -> "lost"
      [] p = "running" -> "loose"
      [] OTHER -> p
Deleted(S) == {FileDeleted(p) : p \in S}

\* One that is killed does not unlock, and leaves the file.
OldAfter(p) == {old} \cup IF p \in AtWork THEN {Deleted(old)} ELSE {}

-----------------------------------------------------------------------------
(* The second try of the process of this client, and of an earlier client's. *)

Locks(p) ==
    /\ p \in Lock(proc, old) /\ proc' = p
    /\ UNCHANGED oldVars

OldLocks ==
    /\ \E p \in old : \E q \in Lock(p, (old \ {p}) \cup {proc}) :
          old' = (old \ {p}) \cup ({q} \cap Phase)
    /\ UNCHANGED <<proc, exposed>>

\* One of an earlier client's ends: it misses heartbeats, finishes, is killed.
OldEnds(p) ==
    /\ p \in old
    /\ \/ old' = old \ {p} /\ proc' = proc
       \/ p \in AtWork /\ old' = Deleted(old \ {p}) /\ proc' = FileDeleted(proc)
    /\ UNCHANGED exposed

(***************************************************************************)
(* The client dies and is started again; its processes live on until they  *)
(* end (which may be at once).  Unless the task keeps its slot,            *)
(* delete_old_slot_dirs() and get_free_slot() clean the directory out, the *)
(* lock file included.                                                     *)
(***************************************************************************)
Orphaned(kept) ==
    LET alive == old \cup ({proc} \cap Phase) IN
    /\ old' \in {alive} \cup IF kept THEN {} ELSE {Deleted(alive)}
    /\ exposed' = (alive # {} /\ (old # {} \/ proc # "running" \/ ~kept))
    /\ proc' = "none"
=============================================================================
