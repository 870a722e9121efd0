------------------------------- MODULE Upload -------------------------------
(***************************************************************************)
(* The upload of one output file: the client's file transfer, which asks   *)
(* for the size of the file on the server, sends what is missing, and      *)
(* tries again after every failure; and the processes of the upload        *)
(* handler, one for each request.  A handler does not learn that its       *)
(* client gave up before it has read everything the client had sent, so    *)
(* handlers of earlier attempts go on appending while the next attempt is  *)
(* under way.  They lock the file, not the name: the file may be deleted   *)
(* on the server and created anew.                                         *)
(*                                                                         *)
(* The contents of the file are its units 1 .. nbytes.  A handler reads up *)
(* to BlockSize units at a time and writes what it got.                    *)
(***************************************************************************)
EXTENDS Integers

CONSTANTS
    Size,        \* the largest file, in units
    BlockSize,   \* BLOCK_SIZE: how much a handler reads at a time
    Threshold,   \* FILE_SIZE_CHECK_THRESHOLD: smaller files are always sent whole
    Proc,        \* processes of the upload handler
    NFiles,      \* how often the file may be created on the server
    MaxFaults,   \* how many faults a behaviour has
    None         \* no process

ASSUME UploadAssumption ==
    /\ Size \in Nat /\ BlockSize \in Nat \ {0}
    /\ Threshold \in Nat \ {0} /\ Threshold <= BlockSize
    /\ NFiles \in Nat \ {0} /\ MaxFaults \in Nat
    /\ None \notin Proc

VARIABLES
    cl,       \* the client's PERS_FILE_XFER, FILE_XFER and upload_offset
    proc,     \* the handlers
    disk,     \* the files created on the server: size and units present
    path,     \* the file that has the name now, 0 if there is none
    created,  \* how many files were created under the name
    locked,   \* which process has each file locked
    faults    \* how many faults there were

uploadVars == <<cl, proc, disk, path, created, locked, faults>>

Unit == 1 .. Size
File == 1 .. NFiles
Status == {"none", "success", "transient", "permanent", "http_error"}

\* moved: some data was sent, or sending began in the middle (last_bytes_xferred).
ClientRec == [phase : {"idle", "query", "send", "polled", "done", "failed"},
              offset : -1 .. Size, conn : Proc \cup {None}, ret : Status,
              moved : BOOLEAN, nbytes : 0 .. Size]
\* sent: units the client has sent on this connection; read: units read from it;
\* buf: units read and not written yet; open: the client's end is.
ProcRec == [pc : {"free", "read", "open", "check", "write", "size", "stat", "reply"},
            offset : 0 .. Size, sent : 0 .. Size, read : 0 .. Size, buf : 0 .. Size,
            short : BOOLEAN, open : BOOLEAN, fd : 0 .. NFiles,
            status : Status, size : -1 .. Size]
FileRec == [size : 0 .. Size, data : SUBSET Unit]

UploadTypeOK ==
    /\ cl \in ClientRec /\ proc \in [Proc -> ProcRec]
    /\ disk \in [File -> FileRec] /\ path \in 0 .. NFiles /\ created \in 0 .. NFiles
    /\ locked \in [File -> Proc \cup {None}] /\ faults \in 0 .. MaxFaults

FreeProc == [pc |-> "free", offset |-> 0, sent |-> 0, read |-> 0, buf |-> 0, short |-> FALSE,
             open |-> FALSE, fd |-> 0, status |-> "none", size |-> -1]

UploadInit ==
    /\ cl \in {[phase |-> "idle", offset |-> -1, conn |-> None, ret |-> "none",
                moved |-> FALSE, nbytes |-> n] : n \in 0 .. Size}
    /\ proc = [p \in Proc |-> FreeProc]
    /\ disk = [f \in File |-> [size |-> 0, data |-> {}]] /\ path = 0 /\ created = 0
    /\ locked = [f \in File |-> None] /\ faults = 0

onServer == <<disk, path, created, locked>>

Fault == faults < MaxFaults /\ faults' = faults + 1
NoFault == UNCHANGED faults

-----------------------------------------------------------------------------
(* The client. *)

(***************************************************************************)
(* init_upload(): a query if the offset is not known, else the upload.     *)
(***************************************************************************)
Small(c) == c.nbytes < Threshold
\* mistake: the offset of a small file, which is not asked for, stays unknown.
Requested_NoOffset(c, p) ==
    IF c.offset < 0 /\ ~Small(c)
    THEN [c EXCEPT !.phase = "query", !.conn = p, !.moved = FALSE]
    ELSE [c EXCEPT !.phase = "send", !.conn = p, !.moved = ~Small(c) /\ c.offset > 0]
Requested(c, p) ==
    IF c.offset < 0 /\ ~Small(c)
    THEN [c EXCEPT !.phase = "query", !.conn = p, !.moved = FALSE]
    ELSE [c EXCEPT !.phase = "send", !.conn = p, !.offset = IF Small(c) THEN 0 ELSE @,
                   !.moved = ~Small(c) /\ c.offset > 0]
HandlerOf(c) ==
    IF c.phase = "query" THEN [FreeProc EXCEPT !.pc = "size", !.open = TRUE]
    ELSE [FreeProc EXCEPT !.pc = "read", !.open = TRUE, !.offset = c.offset]

Connect(c, p) ==
    /\ cl' = Requested(c, p)
    /\ proc' = [proc EXCEPT ![p] = HandlerOf(Requested(c, p))]

(* create_xfer(), when it is time for the next attempt. *)
StartXfer(p) ==
    /\ cl.phase = "idle" /\ proc[p].pc = "free"
    /\ Connect(cl, p)
    /\ UNCHANGED onServer /\ NoFault

SendUnit(p) ==
    /\ cl.phase = "send" /\ cl.conn = p
    /\ proc[p].pc # "reply" /\ cl.offset + proc[p].sent < cl.nbytes
    /\ proc' = [proc EXCEPT ![p].sent = @ + 1]
    /\ cl' = [cl EXCEPT !.moved = TRUE]
    /\ UNCHANGED onServer /\ NoFault

(***************************************************************************)
(* FILE_XFER_SET::poll() when the reply has come.  It overwrites the       *)
(* offset with the reply's file size, which is -1 when the reply has none. *)
(***************************************************************************)
Answered(r, ofs) ==
    cl' = [cl EXCEPT !.phase = "polled", !.conn = None, !.ret = r, !.offset = ofs]

FinishXfer(p) ==
    /\ cl.conn = p /\ proc[p].pc = "reply"
    /\ LET r == proc[p].status
           n == proc[p].size
       IN
       \/ /\ r = "http_error" /\ Answered(r, cl.offset)
          /\ proc' = [proc EXCEPT ![p] = FreeProc]
       \/ /\ r # "http_error" /\ cl.phase = "send" /\ Answered(r, n)
          /\ proc' = [proc EXCEPT ![p] = FreeProc]
       \/ /\ r \in {"transient", "permanent"} /\ cl.phase = "query" /\ Answered(r, -1)
          /\ proc' = [proc EXCEPT ![p] = FreeProc]
       \* the server has everything: pretend the file was uploaded
       \/ /\ r = "success" /\ cl.phase = "query" /\ n >= cl.nbytes /\ Answered("success", n)
          /\ proc' = [proc EXCEPT ![p] = FreeProc]
       \* restart the upload, using the newly obtained offset
       \/ /\ r = "success" /\ cl.phase = "query" /\ n < cl.nbytes
          /\ Connect([cl EXCEPT !.offset = n], p)
    /\ UNCHANGED onServer /\ NoFault

(***************************************************************************)
(* PERS_FILE_XFER::poll(): after data was sent, the offset is not trusted. *)
(* giveup: file_xfer_giveup_period has passed since the first attempt.     *)
(***************************************************************************)
After(c, ph) ==
    [c EXCEPT !.phase = ph, !.ret = "none", !.moved = FALSE,
              !.offset = IF c.moved THEN -1 ELSE @]
PollXfer ==
    /\ cl.phase = "polled"
    /\ \/ cl.ret = "success" /\ cl' = After(cl, "done") /\ NoFault
       \/ cl.ret = "permanent" /\ cl' = After(cl, "failed") /\ NoFault
       \/ cl.ret \in {"transient", "http_error"} /\ cl' = After(cl, "idle") /\ NoFault
       \/ cl.ret \in {"transient", "http_error"} /\ cl' = After(cl, "failed") /\ Fault
    /\ UNCHANGED <<proc, onServer>>

Close(p) == proc' = [q \in Proc |-> IF q = p THEN [proc[q] EXCEPT !.open = FALSE] ELSE proc[q]]

(* suspend(): network access is suspended, or the client exits. *)
Suspend ==
    /\ cl.phase \in {"query", "send", "polled"}
    /\ cl' = [cl EXCEPT !.phase = "idle", !.conn = None, !.ret = "none", !.moved = FALSE,
                        !.offset = -1]
    /\ Close(cl.conn)
    /\ UNCHANGED onServer /\ Fault

(* The connection is lost, and with it the reply if there was one. *)
Disconnect ==
    /\ cl.phase \in {"query", "send"}
    /\ Answered("http_error", cl.offset) /\ Close(cl.conn)
    /\ UNCHANGED onServer /\ Fault

-----------------------------------------------------------------------------
(* A handler. *)

Min2(a, b) == IF a < b THEN a ELSE b
Max2(a, b) == IF a > b THEN a ELSE b

Reply(p, st, n) == proc' = [proc EXCEPT ![p].pc = "reply", ![p].status = st, ![p].size = n]
\* mistake: the kernel is not told to release the lock.
Unlocked_Never(p) == locked
Unlocked(p) == [f \in File |-> IF locked[f] = p THEN None ELSE locked[f]]

Requests(p) == Min2(BlockSize, cl.nbytes - (proc[p].offset + proc[p].read))
Available(p) == proc[p].sent - proc[p].read

(***************************************************************************)
(* fread(): gets all it asked for, or what there is when the connection    *)
(* has ended.                                                              *)
(***************************************************************************)
ReadBlock(p) ==
    /\ proc[p].pc = "read" /\ proc[p].offset < cl.nbytes
    /\ Available(p) >= Requests(p) \/ ~proc[p].open
    /\ LET n == Min2(Requests(p), Available(p)) IN
       proc' = [proc EXCEPT ![p].pc = IF proc[p].fd = 0 THEN "open" ELSE "write",
                            ![p].buf = n, ![p].read = @ + n, ![p].short = (n < Requests(p))]
    /\ UNCHANGED <<cl, onServer>> /\ NoFault

(* offset >= nbytes, which is so of an empty file: it is not created. *)
NothingToRead(p) ==
    /\ proc[p].pc = "read" /\ proc[p].offset >= cl.nbytes
    /\ Reply(p, "success", -1)
    /\ UNCHANGED <<cl, onServer>> /\ NoFault

(* open(O_CREAT), after the first read. *)
OpenFile(p) ==
    /\ proc[p].pc = "open"
    /\ \/ /\ path # 0
          /\ proc' = [proc EXCEPT ![p].pc = "check", ![p].fd = path]
          /\ UNCHANGED <<path, created>>
       \/ /\ path = 0 /\ created < NFiles
          /\ path' = created + 1 /\ created' = created + 1
          /\ proc' = [proc EXCEPT ![p].pc = "check", ![p].fd = created + 1]
    /\ UNCHANGED <<cl, disk, locked>> /\ NoFault

(***************************************************************************)
(* The file that was opened is locked; the size is that of the file that   *)
(* has the name now.                                                       *)
(***************************************************************************)
\* mistake: the file is not checked to reach up to the offset.
LongEnough_Unchecked(p) == path # 0
LongEnough(p) == path # 0 /\ disk[path].size >= proc[p].offset
CheckFile(p) ==
    /\ proc[p].pc = "check"
    /\ \/ /\ locked[proc[p].fd] = None /\ LongEnough(p)
          /\ locked' = [locked EXCEPT ![proc[p].fd] = p]
          /\ proc' = [proc EXCEPT ![p].pc = "write"]
       \/ /\ locked[proc[p].fd] # None \/ ~LongEnough(p)
          /\ Reply(p, "transient", -1) /\ UNCHANGED locked
    /\ UNCHANGED <<cl, disk, path, created>> /\ NoFault

(* The first n units of what was read are written where they belong. *)
\* mistake: no lseek() to the offset.
Position_NoSeek(p) == proc[p].read - proc[p].buf
Position(p) == proc[p].offset + (proc[p].read - proc[p].buf)
Written(f, p, n) ==
    [size |-> Max2(disk[f].size, IF n = 0 THEN 0 ELSE Position(p) + n),
     data |-> disk[f].data \cup (Position(p) + 1 .. Position(p) + n)]

WriteBlock(p) ==
    /\ proc[p].pc = "write"
    /\ disk' = [disk EXCEPT ![proc[p].fd] = Written(proc[p].fd, p, proc[p].buf)]
    /\ \/ /\ proc[p].short /\ Reply(p, "transient", -1)
          /\ locked' = Unlocked(p)
       \/ /\ ~proc[p].short /\ proc[p].offset + proc[p].read = cl.nbytes
          /\ Reply(p, "success", -1) /\ locked' = Unlocked(p)
       \/ /\ ~proc[p].short /\ proc[p].offset + proc[p].read < cl.nbytes
          /\ proc' = [proc EXCEPT ![p].pc = "read"] /\ UNCHANGED locked
    /\ UNCHANGED <<cl, path, created>> /\ NoFault

(* No space is left after n units, or the process is killed there. *)
WriteFails(p) ==
    /\ proc[p].pc = "write"
    /\ \E n \in 0 .. proc[p].buf - 1 :
          disk' = [disk EXCEPT ![proc[p].fd] = Written(proc[p].fd, p, n)]
    /\ \E st \in {"transient", "http_error"} : Reply(p, st, -1)
    /\ locked' = Unlocked(p)
    /\ UNCHANGED <<cl, path, created>> /\ Fault

(* handle_get_file_size(): open() does not create the file. *)
OpenForSize(p) ==
    /\ proc[p].pc = "size"
    /\ \/ path = 0 /\ Reply(p, "success", 0)
       \/ path # 0 /\ proc' = [proc EXCEPT ![p].pc = "stat", ![p].fd = path]
    /\ UNCHANGED <<cl, onServer>> /\ NoFault

TellSize(p) ==
    /\ proc[p].pc = "stat"
    /\ \/ /\ locked[proc[p].fd] # None \/ path = 0
          /\ Reply(p, "transient", -1)
       \/ /\ locked[proc[p].fd] = None /\ path # 0
          /\ Reply(p, "success", disk[path].size)
    /\ UNCHANGED <<cl, onServer>> /\ NoFault

(***************************************************************************)
(* Uploads are stopped, the disk is full, the file cannot be opened        *)
(* ("transient"); or the request is not a valid one ("permanent").         *)
(***************************************************************************)
Refuse(p) ==
    /\ \/ proc[p].pc = "size" /\ Reply(p, "transient", -1)
       \/ /\ proc[p].pc = "read" /\ proc[p].fd = 0
          /\ \E st \in {"transient", "permanent"} : Reply(p, st, -1)
    /\ UNCHANGED <<cl, onServer>> /\ Fault

(* boinc_catch_signal(): no reply; the kernel releases the lock. *)
HandlerDies(p) ==
    /\ proc[p].pc \notin {"free", "reply"}
    /\ Reply(p, "http_error", -1) /\ locked' = Unlocked(p)
    /\ UNCHANGED <<cl, disk, path, created>> /\ Fault

(* The reply has nobody to go to. *)
Exit(p) ==
    /\ proc[p].pc = "reply" /\ ~proc[p].open
    /\ proc' = [proc EXCEPT ![p] = FreeProc]
    /\ UNCHANGED <<cl, onServer>> /\ NoFault

(* The file is deleted on the server, by the file deleter or an operator. *)
DeleteFile ==
    /\ path # 0 /\ created < NFiles
    /\ path' = 0
    /\ UNCHANGED <<cl, proc, disk, created, locked>> /\ Fault

-----------------------------------------------------------------------------
ClientStep == \/ \E p \in Proc : StartXfer(p) \/ SendUnit(p) \/ FinishXfer(p)
              \/ PollXfer
HandlerStep(p) ==
    \/ ReadBlock(p) \/ NothingToRead(p) \/ OpenFile(p) \/ CheckFile(p) \/ WriteBlock(p)
    \/ OpenForSize(p) \/ TellSize(p) \/ Exit(p)

UploadNext ==
    \/ ClientStep
    \/ \E p \in Proc : HandlerStep(p)
    \/ Suspend \/ Disconnect \/ DeleteFile
    \/ \E p \in Proc : WriteFails(p) \/ Refuse(p) \/ HandlerDies(p)

UploadSpec == UploadInit /\ [][UploadNext]_uploadVars
UploadFairSpec ==
    /\ UploadSpec
    /\ WF_uploadVars(ClientStep)
    /\ \A p \in Proc : WF_uploadVars(HandlerStep(p))

-----------------------------------------------------------------------------
(***************************************************************************)
(* The file the name stands for has no hole, although handlers of several  *)
(* attempts write to it at offsets their client learned earlier, and the   *)
(* file may have been deleted and created anew since.                      *)
(***************************************************************************)
Contiguous == path # 0 => disk[path].data = 1 .. disk[path].size

(***************************************************************************)
(* When the client takes its file to be uploaded, and nobody deleted it,   *)
(* the server has all of it, whichever handler wrote which part of it.     *)
(***************************************************************************)
UploadedComplete ==
    cl.phase = "done" /\ cl.nbytes > 0 /\ created <= 1 /\ path = created
        => path # 0 /\ disk[path].data = 1 .. cl.nbytes

(***************************************************************************)
(* Once failures cease the upload comes to an end, whatever locks, offsets *)
(* and half-written files earlier attempts have left behind.               *)
(***************************************************************************)
Finished == <>(cl.phase \in {"done", "failed"})
=============================================================================
