--------------------------- MODULE Upload_proofs ---------------------------
(***************************************************************************)
(* Proofs about the upload of a file, for any size of files and blocks,    *)
(* any number of handlers, and however often the file is deleted.          *)
(***************************************************************************)
EXTENDS Upload, TLAPS

(* What a handler knows: it is h, the file has n units. *)
HandlerSound(h, n) ==
    /\ h.buf <= h.read /\ h.read <= h.sent
    /\ h.offset < n \/ h.offset = 0
    /\ h.offset + h.read <= n
    /\ h.pc = "read" /\ h.fd = 0 => h.read = 0
    /\ h.pc \in {"open", "check"} => h.read = h.buf
    /\ h.pc \in {"check", "write", "stat"} => h.fd # 0
    /\ h.pc = "reply" => h.status # "none"
    /\ h.status \in {"transient", "permanent"} => h.size = -1

(* Its file is still the one with the name: it does not write past the end. *)
Follows(h) ==
    h.fd = path /\ path # 0 =>
      /\ h.pc = "write" => h.offset + (h.read - h.buf) <= disk[path].size
      /\ h.pc = "read" => h.offset + h.read <= disk[path].size

(* Nobody has deleted the file; n units of it have arrived. *)
Kept == created <= 1 /\ path = created
Has(n) == path = 1 /\ disk[1].size >= n

(* What a handler replies is so, and remains so. *)
Truthful(h) ==
    Kept /\ h.pc = "reply" /\ h.status = "success" =>
      /\ h.size = -1 /\ cl.nbytes > 0 => Has(cl.nbytes)
      /\ h.size > 0 => Has(h.size)

HandlersSound ==
    \A p \in Proc : /\ HandlerSound(proc[p], cl.nbytes)
                    /\ proc[p].fd <= created /\ Follows(proc[p]) /\ Truthful(proc[p])

FilesSound ==
    /\ path <= created
    /\ \A f \in File : f > created => disk[f] = [size |-> 0, data |-> {}]
    /\ \A f \in File : disk[f].size <= cl.nbytes
    /\ Contiguous

(* A handler that takes an upload does not answer with a size. *)
Takes(h) == h.pc \notin {"size", "stat"} /\ h.size = -1
Undecided(c) == c.phase \in {"idle", "query", "send"} \/ (c.phase = "polled" /\ c.ret # "success")
ClientSound ==
    /\ Undecided(cl) => cl.offset < cl.nbytes \/ cl.offset <= 0
    /\ cl.phase \in {"query", "send"} <=> cl.conn \in Proc
    /\ cl.phase = "send" => cl.offset >= 0 /\ Takes(proc[cl.conn])
    /\ /\ Kept /\ cl.nbytes > 0
       /\ cl.phase = "done" \/ (cl.phase = "polled" /\ cl.ret = "success")
       => Has(cl.nbytes)

UploadInv == UploadTypeOK /\ HandlersSound /\ FilesSound /\ ClientSound

-----------------------------------------------------------------------------
LEMMA FreeSound ==
  ASSUME NEW n \in 0 .. Size
  PROVE  FreeProc \in ProcRec /\ HandlerSound(FreeProc, n) /\ FreeProc.fd = 0
         /\ FreeProc.pc = "free"
  BY UploadAssumption DEF FreeProc, ProcRec, Status, HandlerSound

LEMMA InitInv == UploadInit => UploadInv
<1> SUFFICES ASSUME UploadInit PROVE UploadInv
  OBVIOUS
<1>1. PICK n \in 0 .. Size :
        cl = [phase |-> "idle", offset |-> -1, conn |-> None, ret |-> "none",
              moved |-> FALSE, nbytes |-> n]
  BY DEF UploadInit
<1>2. cl \in ClientRec /\ cl.nbytes = n /\ cl.phase = "idle" /\ cl.offset = -1
  BY <1>1, UploadAssumption DEF ClientRec, Status
<1>3. UploadTypeOK
  <2>1. proc \in [Proc -> ProcRec]
    BY FreeSound, <1>2 DEF UploadInit, ClientRec
  <2>2. disk \in [File -> FileRec]
    BY UploadAssumption DEF UploadInit, FileRec
  <2> QED
    BY <1>2, <2>1, <2>2, UploadAssumption DEF UploadInit, UploadTypeOK
<1>4. HandlersSound
  BY FreeSound, <1>2 DEF UploadInit, HandlersSound, Follows, Truthful
<1>5. FilesSound
  BY <1>2 DEF UploadInit, FilesSound, Contiguous
<1>6. ClientSound
  BY <1>1, <1>2, UploadAssumption DEF ClientSound, Undecided
<1> QED
  BY <1>3, <1>4, <1>5, <1>6 DEF UploadInv

(* Steps that leave the files alone. *)
LEMMA FilesAlone ==
  ASSUME UploadInv, UNCHANGED <<disk, path, created>>,
         locked' \in [File -> Proc \cup {None}], faults' \in 0 .. MaxFaults,
         cl' \in ClientRec, cl'.nbytes = cl.nbytes, ClientSound',
         proc' \in [Proc -> ProcRec], HandlersSound'
  PROVE  UploadInv'
  BY DEF UploadInv, UploadTypeOK, FilesSound, Contiguous

LEMMA FaultType ==
  ASSUME faults \in 0 .. MaxFaults, Fault \/ NoFault
  PROVE  faults' \in 0 .. MaxFaults
  BY UploadAssumption DEF Fault, NoFault

(* The client does something, and perhaps the handler p it talks to. *)
LEMMA ClientMoves ==
  ASSUME UploadInv, UNCHANGED onServer, Fault \/ NoFault,
         cl' \in ClientRec, cl'.nbytes = cl.nbytes, ClientSound',
         proc' \in [Proc -> ProcRec],
         \A p \in Proc : /\ HandlerSound(proc'[p], cl.nbytes)
                         /\ proc'[p].fd \in {0, proc[p].fd}
                         /\ proc'[p].fd # 0 => proc'[p].pc = proc[p].pc
                                               /\ proc'[p].offset = proc[p].offset
                                               /\ proc'[p].read = proc[p].read
                                               /\ proc'[p].buf = proc[p].buf
                         /\ proc'[p].pc = "reply" => proc[p].pc = "reply"
                                                     /\ proc'[p].status = proc[p].status
                                                     /\ proc'[p].size = proc[p].size
  PROVE  UploadInv'
<1>1. HandlersSound'
  <2> SUFFICES ASSUME NEW p \in Proc
               PROVE  /\ HandlerSound(proc'[p], cl'.nbytes)
                      /\ proc'[p].fd <= created' /\ Follows(proc[p])' /\ Truthful(proc[p])'
    BY DEF HandlersSound
  <2>1. proc[p].fd <= created /\ Follows(proc[p]) /\ Truthful(proc[p])
    BY DEF UploadInv, HandlersSound
  <2>2. proc'[p].fd <= created'
    BY <2>1, UploadAssumption DEF UploadInv, UploadTypeOK, onServer
  <2>3. Follows(proc[p])'
    BY <2>1 DEF Follows, onServer
  <2>4. Truthful(proc[p])'
    BY <2>1 DEF Truthful, Kept, Has, onServer
  <2> QED
    BY <2>2, <2>3, <2>4
<1>2. faults' \in 0 .. MaxFaults
  BY FaultType DEF UploadInv, UploadTypeOK
<1> QED
  BY <1>1, <1>2, FilesAlone DEF UploadInv, UploadTypeOK, onServer

LEMMA RequestedSound ==
  ASSUME NEW c \in ClientRec, NEW p \in Proc, c.offset < c.nbytes \/ c.offset <= 0
  PROVE  LET d == Requested(c, p)
             h == HandlerOf(d)
         IN  /\ d \in ClientRec /\ d.nbytes = c.nbytes /\ d.conn = p
             /\ d.phase \in {"query", "send"} /\ (d.offset < d.nbytes \/ d.offset <= 0)
             /\ d.phase = "send" => d.offset >= 0 /\ Takes(h)
             /\ h \in ProcRec /\ HandlerSound(h, c.nbytes) /\ h.fd = 0 /\ h.pc # "reply"
<1> DEFINE d == Requested(c, p)
<1>1. c.nbytes \in 0 .. Size /\ c.offset \in -1 .. Size
  BY DEF ClientRec
<1>2. CASE c.offset < 0 /\ ~Small(c)
  <2>1. d = [c EXCEPT !.phase = "query", !.conn = p, !.moved = FALSE]
    BY <1>2 DEF Requested
  <2>2. d \in ClientRec /\ d.nbytes = c.nbytes /\ d.conn = p /\ d.phase = "query"
        /\ d.offset = c.offset
    BY <2>1 DEF ClientRec
  <2>3. HandlerOf(d) = [FreeProc EXCEPT !.pc = "size", !.open = TRUE]
    BY <2>2 DEF HandlerOf
  <2>4. HandlerOf(d) =
          [pc |-> "size", offset |-> 0, sent |-> 0, read |-> 0, buf |-> 0, short |-> FALSE,
           open |-> TRUE, fd |-> 0, status |-> "none", size |-> -1]
    BY <2>3 DEF FreeProc
  <2>5. HandlerOf(d) \in ProcRec
    BY <2>4, UploadAssumption DEF ProcRec, Status
  <2>6. HandlerSound(HandlerOf(d), c.nbytes)
        /\ HandlerOf(d).fd = 0 /\ HandlerOf(d).pc = "size"
    BY <1>1, <2>4, UploadAssumption DEF HandlerSound
  <2> QED
    BY <2>2, <2>5, <2>6
<1>3. CASE ~(c.offset < 0 /\ ~Small(c))
  <2> DEFINE ofs == IF Small(c) THEN 0 ELSE c.offset
             m == ~Small(c) /\ c.offset > 0
  <2>1. ofs \in 0 .. Size /\ (ofs < c.nbytes \/ ofs = 0)
    BY <1>1, <1>3, UploadAssumption DEF Small
  <2>2. d = [c EXCEPT !.phase = "send", !.conn = p, !.offset = ofs,
                      !.moved = m] /\ m \in BOOLEAN
    BY <1>3 DEF Requested
  <2> HIDE DEF ofs, m
  <2>3. d \in ClientRec /\ d.nbytes = c.nbytes /\ d.conn = p /\ d.phase = "send"
        /\ d.offset = ofs
    <3>1. ofs \in -1 .. Size
      BY <2>1, UploadAssumption
    <3>2. d = [phase |-> "send", offset |-> ofs, conn |-> p, ret |-> c.ret,
               moved |-> m, nbytes |-> c.nbytes]
      BY <2>2 DEF ClientRec
    <3>3. c.ret \in Status
      BY DEF ClientRec
    <3> QED
      BY <1>1, <2>2, <3>1, <3>2, <3>3 DEF ClientRec
  <2>4. HandlerOf(d) = [FreeProc EXCEPT !.pc = "read", !.open = TRUE, !.offset = ofs]
    BY <2>3 DEF HandlerOf
  <2>5. HandlerOf(d) =
          [pc |-> "read", offset |-> ofs, sent |-> 0, read |-> 0, buf |-> 0, short |-> FALSE,
           open |-> TRUE, fd |-> 0, status |-> "none", size |-> -1]
    BY <2>4 DEF FreeProc
  <2>6. HandlerOf(d) \in ProcRec
    BY <2>1, <2>5, UploadAssumption DEF ProcRec, Status
  <2>7. HandlerSound(HandlerOf(d), c.nbytes)
        /\ HandlerOf(d).fd = 0 /\ HandlerOf(d).pc = "read" /\ HandlerOf(d).size = -1
    BY <1>1, <2>1, <2>5, UploadAssumption DEF HandlerSound
  <2> QED
    BY <1>1, <2>1, <2>3, <2>6, <2>7 DEF Takes
<1> QED
  BY <1>2, <1>3

LEMMA ConnectInv ==
  ASSUME UploadInv, UNCHANGED onServer, Fault \/ NoFault,
         NEW c \in ClientRec, c.nbytes = cl.nbytes, c.offset < c.nbytes \/ c.offset <= 0,
         NEW p \in Proc, Connect(c, p)
  PROVE  UploadInv'
<1> DEFINE d == Requested(c, p)
           h == HandlerOf(d)
<1>1. cl' = d /\ proc' = [proc EXCEPT ![p] = h]
  BY DEF Connect
<1>2. /\ d \in ClientRec /\ d.nbytes = c.nbytes /\ d.conn = p
      /\ d.phase \in {"query", "send"} /\ (d.offset < d.nbytes \/ d.offset <= 0)
      /\ d.phase = "send" => d.offset >= 0 /\ Takes(h)
      /\ h \in ProcRec /\ HandlerSound(h, c.nbytes) /\ h.fd = 0 /\ h.pc # "reply"
  BY RequestedSound
<1> HIDE DEF d, h
<1>3. proc \in [Proc -> ProcRec] /\ \A q \in Proc : HandlerSound(proc[q], cl.nbytes)
  BY DEF UploadInv, UploadTypeOK, HandlersSound
<1>4. ClientSound'
  BY <1>1, <1>2, <1>3 DEF ClientSound, Takes
<1> QED
  BY <1>1, <1>2, <1>3, <1>4, ClientMoves

(* The handler p goes, or its client closes the connection: nothing else changes. *)
LEMMA CloseSound ==
  ASSUME NEW h \in ProcRec, NEW n \in 0 .. Size, HandlerSound(h, n)
  PROVE  LET g == [h EXCEPT !.open = FALSE] IN
         /\ g \in ProcRec /\ HandlerSound(g, n) /\ g.fd = h.fd /\ g.pc = h.pc
         /\ g.offset = h.offset /\ g.read = h.read /\ g.buf = h.buf
         /\ g.status = h.status /\ g.size = h.size
  BY DEF ProcRec, HandlerSound

LEMMA CloseInv ==
  ASSUME UploadInv, UNCHANGED onServer, Fault \/ NoFault,
         cl' \in ClientRec, cl'.nbytes = cl.nbytes, Undecided(cl'),
         cl'.phase \notin {"query", "send"}, cl'.conn = None,
         cl'.offset < cl.nbytes \/ cl'.offset <= 0,
         Close(cl.conn)
  PROVE  UploadInv'
<1>1. proc \in [Proc -> ProcRec] /\ cl.nbytes \in 0 .. Size
      /\ \A q \in Proc : HandlerSound(proc[q], cl.nbytes)
  BY DEF UploadInv, UploadTypeOK, HandlersSound, ClientRec
<1>2. \A q \in Proc : proc'[q] \in {proc[q], [proc[q] EXCEPT !.open = FALSE]}
  BY DEF Close
<1>3. proc' \in [Proc -> ProcRec]
  BY <1>1, <1>2, CloseSound DEF Close
<1>4. ClientSound'
  BY UploadAssumption DEF ClientSound, Undecided
<1>5. ASSUME NEW q \in Proc
      PROVE  LET g == proc'[q] IN
             /\ HandlerSound(g, cl.nbytes) /\ g.fd = proc[q].fd /\ g.pc = proc[q].pc
             /\ g.offset = proc[q].offset /\ g.read = proc[q].read /\ g.buf = proc[q].buf
             /\ g.status = proc[q].status /\ g.size = proc[q].size
  <2>1. CASE proc'[q] = proc[q]
    BY <1>1, <2>1
  <2>2. CASE proc'[q] = [proc[q] EXCEPT !.open = FALSE]
    BY <1>1, <2>2, CloseSound
  <2> QED
    BY <1>2, <2>1, <2>2
<1> QED
  BY <1>3, <1>4, <1>5, ClientMoves

LEMMA FreedInv ==
  ASSUME UploadInv, UNCHANGED onServer, Fault \/ NoFault, NEW p \in Proc,
         proc' = [proc EXCEPT ![p] = FreeProc],
         cl' \in ClientRec, cl'.nbytes = cl.nbytes, ClientSound'
  PROVE  UploadInv'
<1>1. proc \in [Proc -> ProcRec] /\ cl.nbytes \in 0 .. Size
      /\ \A q \in Proc : HandlerSound(proc[q], cl.nbytes)
  BY DEF UploadInv, UploadTypeOK, HandlersSound, ClientRec
<1> QED
  BY <1>1, FreeSound, ClientMoves

(* The client has an answer; an upload that succeeded is on the server. *)
LEMMA AnsweredSound ==
  ASSUME UploadInv, NEW r \in Status \ {"none"}, NEW n \in -1 .. Size, Answered(r, n),
         r # "success" => n < cl.nbytes \/ n <= 0,
         r = "success" /\ cl.nbytes > 0 /\ Kept => Has(cl.nbytes),
         UNCHANGED onServer
  PROVE  /\ cl' \in ClientRec /\ cl'.nbytes = cl.nbytes /\ ClientSound'
         /\ cl'.phase = "polled" /\ cl'.ret = r /\ cl'.offset = n /\ cl'.conn = None
<1>1. cl \in ClientRec
  BY DEF UploadInv, UploadTypeOK
<1>2. cl' = [cl EXCEPT !.phase = "polled", !.conn = None, !.ret = r, !.offset = n]
  BY DEF Answered
<1>3. cl' \in ClientRec /\ cl'.nbytes = cl.nbytes
      /\ cl'.phase = "polled" /\ cl'.ret = r /\ cl'.offset = n /\ cl'.conn = None
  BY <1>1, <1>2 DEF ClientRec
<1>4. ClientSound'
  BY <1>3, UploadAssumption DEF ClientSound, Undecided, Kept, Has, onServer
<1> QED
  BY <1>3, <1>4

LEMMA FinishInv ==
  ASSUME UploadInv, NEW p \in Proc, FinishXfer(p)
  PROVE  UploadInv'
<1> DEFINE r == proc[p].status
           n == proc[p].size
<1>1. /\ cl \in ClientRec /\ proc[p] \in ProcRec
      /\ HandlerSound(proc[p], cl.nbytes) /\ Truthful(proc[p]) /\ ClientSound
  BY DEF UploadInv, UploadTypeOK, HandlersSound
<1>2. /\ proc[p].pc = "reply" /\ cl.conn = p /\ p # None
      /\ UNCHANGED onServer /\ NoFault
  BY UploadAssumption DEF FinishXfer
<1>3. r \in Status \ {"none"} /\ n \in -1 .. Size
      /\ (r \in {"transient", "permanent"} => n = -1)
  BY <1>1, <1>2 DEF ProcRec, HandlerSound
<1>4. cl.phase \in {"query", "send"} => cl.offset \in -1 .. Size
                                        /\ (cl.offset < cl.nbytes \/ cl.offset <= 0)
  BY <1>1 DEF ClientRec, ClientSound, Undecided
<1>5. cl.nbytes \in 0 .. Size /\ (cl.phase = "send" => n = -1)
  BY <1>1, <1>2 DEF ClientRec, ClientSound, Takes
<1> HIDE DEF r, n
<1>6. CASE cl.phase \in {"query", "send"} /\ r = "http_error" /\ Answered(r, cl.offset)
           /\ proc' = [proc EXCEPT ![p] = FreeProc]
  BY <1>2, <1>3, <1>4, <1>6, AnsweredSound, FreedInv
<1>7. CASE r # "http_error" /\ cl.phase = "send" /\ Answered(r, n)
           /\ proc' = [proc EXCEPT ![p] = FreeProc]
  <2>1. r = "success" /\ cl.nbytes > 0 /\ Kept => Has(cl.nbytes)
    BY <1>1, <1>2, <1>5, <1>7 DEF Truthful, r, n
  <2>2. n < cl.nbytes \/ n <= 0
    BY <1>5, <1>7
  <2> QED
    BY <1>2, <1>3, <1>7, <2>1, <2>2, AnsweredSound, FreedInv
<1>8. CASE r \in {"transient", "permanent"} /\ cl.phase = "query" /\ Answered(r, -1)
           /\ proc' = [proc EXCEPT ![p] = FreeProc]
  <2>1. n = -1 /\ n <= 0 /\ r # "success" /\ Answered(r, n)
    BY <1>3, <1>8
  <2> QED
    BY <1>2, <1>3, <1>8, <2>1, AnsweredSound, FreedInv
<1>9. CASE r = "success" /\ cl.phase = "query" /\ n >= cl.nbytes /\ Answered("success", n)
           /\ proc' = [proc EXCEPT ![p] = FreeProc]
  <2>1. cl.nbytes > 0 /\ Kept => Has(cl.nbytes)
    <3> SUFFICES ASSUME cl.nbytes > 0, Kept PROVE Has(cl.nbytes)
      OBVIOUS
    <3>1. Has(n) /\ n >= cl.nbytes
      BY <1>1, <1>2, <1>3, <1>5, <1>9 DEF Truthful, r, n
    <3>2. disk[1].size \in 0 .. Size
      BY UploadAssumption DEF UploadInv, UploadTypeOK, File, FileRec
    <3> QED
      BY <1>3, <1>5, <3>1, <3>2, UploadAssumption DEF Has
  <2> QED
    BY <1>2, <1>3, <1>9, <2>1, AnsweredSound, FreedInv
<1>10. CASE r = "success" /\ cl.phase = "query" /\ n < cl.nbytes
            /\ Connect([cl EXCEPT !.offset = n], p)
  <2> DEFINE c == [cl EXCEPT !.offset = n]
  <2>1. c \in ClientRec /\ c.nbytes = cl.nbytes /\ c.offset = n
    BY <1>1, <1>3 DEF ClientRec
  <2> HIDE DEF c
  <2>2. Connect(c, p)
    BY <1>10 DEF c
  <2> QED
    BY <1>2, <1>10, <2>1, <2>2, ConnectInv
<1>11. cl.phase \in {"query", "send"}
  BY <1>1, <1>2 DEF ClientSound
<1> QED
  BY <1>6, <1>7, <1>8, <1>9, <1>10, <1>11 DEF FinishXfer, r, n

LEMMA ClientInv ==
  ASSUME UploadInv, ClientStep \/ Suspend \/ Disconnect
  PROVE  UploadInv'
<1>1. /\ cl \in ClientRec /\ proc \in [Proc -> ProcRec] /\ ClientSound
      /\ \A q \in Proc : HandlerSound(proc[q], cl.nbytes)
  BY DEF UploadInv, UploadTypeOK, HandlersSound
<1>2. cl.nbytes \in 0 .. Size /\ cl.offset \in -1 .. Size
  BY <1>1 DEF ClientRec
<1>3. ASSUME NEW p \in Proc, StartXfer(p) PROVE UploadInv'
  <2>1. cl.offset < cl.nbytes \/ cl.offset <= 0
    BY <1>1, <1>3 DEF StartXfer, ClientSound, Undecided
  <2> QED
    BY <1>1, <1>3, <2>1, ConnectInv DEF StartXfer
<1>4. ASSUME NEW p \in Proc, SendUnit(p) PROVE UploadInv'
  <2> DEFINE h == [proc[p] EXCEPT !.sent = @ + 1]
  <2>1. /\ cl' = [cl EXCEPT !.moved = TRUE] /\ proc' = [proc EXCEPT ![p] = h]
        /\ cl.phase = "send" /\ cl.offset + proc[p].sent < cl.nbytes
        /\ UNCHANGED onServer /\ NoFault
    BY <1>4 DEF SendUnit
  <2>2. proc[p] \in ProcRec /\ HandlerSound(proc[p], cl.nbytes)
    BY <1>1
  <2>3. proc[p].sent + 1 \in 0 .. Size
    BY <1>1, <1>2, <2>1, <2>2, UploadAssumption DEF ClientSound, ProcRec
  <2>4. h \in ProcRec /\ h.sent = proc[p].sent + 1 /\ h.fd = proc[p].fd /\ h.pc = proc[p].pc
        /\ h.offset = proc[p].offset /\ h.read = proc[p].read /\ h.buf = proc[p].buf
        /\ h.status = proc[p].status /\ h.size = proc[p].size
    BY <2>2, <2>3 DEF ProcRec
  <2> HIDE DEF h
  <2>5. HandlerSound(h, cl.nbytes)
    BY <2>2, <2>4 DEF HandlerSound, ProcRec
  <2>6. /\ cl' \in ClientRec /\ cl'.nbytes = cl.nbytes /\ cl'.phase = cl.phase
        /\ cl'.conn = cl.conn /\ cl'.offset = cl.offset /\ cl'.ret = cl.ret
    BY <1>1, <2>1 DEF ClientRec
  <2>7. ClientSound'
    BY <1>1, <2>1, <2>4, <2>6 DEF ClientSound, Undecided, Takes, Kept, Has, onServer
  <2> QED
    BY <1>1, <2>1, <2>4, <2>5, <2>6, <2>7, ClientMoves
<1>5. CASE PollXfer
  <2>1. /\ cl.phase = "polled" /\ UNCHANGED <<proc, onServer>> /\ (Fault \/ NoFault)
    BY <1>5 DEF PollXfer
  <2>2. PICK ph \in {"done", "failed", "idle"} :
          /\ cl' = After(cl, ph)
          /\ ph = "done" => cl.ret = "success"
          /\ ph = "idle" => cl.ret # "success"
    BY <1>5 DEF PollXfer
  <2> DEFINE ofs == IF cl.moved THEN -1 ELSE cl.offset
  <2>3. ofs \in -1 .. Size /\ (ofs = -1 \/ ofs = cl.offset)
    BY <1>1, <1>2, UploadAssumption DEF ClientRec
  <2>4. cl' = [cl EXCEPT !.phase = ph, !.ret = "none", !.moved = FALSE, !.offset = ofs]
    BY <2>2 DEF After
  <2> HIDE DEF ofs
  <2>5. /\ cl' \in ClientRec /\ cl'.nbytes = cl.nbytes /\ cl'.phase = ph /\ cl'.ret = "none"
        /\ cl'.conn = cl.conn /\ cl'.offset = ofs
    BY <1>1, <2>3, <2>4 DEF ClientRec, Status
  <2>6. ClientSound'
    BY <1>1, <1>2, <2>1, <2>2, <2>3, <2>5, UploadAssumption
    DEF ClientSound, Undecided, Kept, Has, onServer
  <2> QED
    BY <1>1, <2>1, <2>5, <2>6, ClientMoves
<1>6. CASE Suspend
  <2>1. cl' = [cl EXCEPT !.phase = "idle", !.conn = None, !.ret = "none", !.moved = FALSE,
                         !.offset = -1]
    BY <1>6 DEF Suspend
  <2>2. /\ cl' \in ClientRec /\ cl'.nbytes = cl.nbytes /\ cl'.phase = "idle"
        /\ cl'.conn = None /\ cl'.offset = -1
    <3>1. -1 \in -1 .. Size
      BY UploadAssumption
    <3> QED
      BY <1>1, <2>1, <3>1 DEF ClientRec, Status
  <2> QED
    BY <1>6, <2>2, CloseInv DEF Suspend, Undecided
<1>7. CASE Disconnect
  <2>1. cl' = [cl EXCEPT !.phase = "polled", !.conn = None, !.ret = "http_error",
                         !.offset = cl.offset]
    BY <1>7 DEF Disconnect, Answered
  <2>2. /\ cl' \in ClientRec /\ cl'.nbytes = cl.nbytes /\ cl'.phase = "polled"
        /\ cl'.ret = "http_error" /\ cl'.conn = None /\ cl'.offset = cl.offset
    BY <1>1, <2>1 DEF ClientRec, Status
  <2>3. cl.offset < cl.nbytes \/ cl.offset <= 0
    BY <1>1, <1>7 DEF Disconnect, ClientSound, Undecided
  <2> QED
    BY <1>7, <2>2, <2>3, CloseInv DEF Disconnect, Undecided
<1> QED
  BY <1>3, <1>4, <1>5, <1>6, <1>7, FinishInv DEF ClientStep

-----------------------------------------------------------------------------
(* A handler does something, and becomes h. *)
LEMMA HandlerMoves ==
  ASSUME UploadInv, NEW p \in Proc, NEW h \in ProcRec, HandlerSound(h, cl.nbytes),
         proc' = [proc EXCEPT ![p] = h], UNCHANGED <<cl, disk, path, created>>,
         locked' \in [File -> Proc \cup {None}], Fault \/ NoFault,
         h.fd <= created, Follows(h), Truthful(h),
         cl.phase = "send" /\ cl.conn = p => Takes(h)
  PROVE  UploadInv'
<1>1. proc' \in [Proc -> ProcRec] /\ \A q \in Proc : proc'[q] \in {proc[q], h}
  BY DEF UploadInv, UploadTypeOK
<1>2. HandlersSound'
  <2> SUFFICES ASSUME NEW q \in Proc
               PROVE  /\ HandlerSound(proc'[q], cl'.nbytes)
                      /\ proc'[q].fd <= created' /\ Follows(proc[q])' /\ Truthful(proc[q])'
    BY DEF HandlersSound
  <2>1. CASE proc'[q] = proc[q]
    BY <2>1 DEF UploadInv, HandlersSound, Follows, Truthful, Kept, Has
  <2>2. CASE proc'[q] = h
    BY <2>2 DEF Follows, Truthful, Kept, Has
  <2> QED
    BY <1>1, <2>1, <2>2
<1>3. ClientSound'
  <2>1. cl.phase = "send" => Takes(proc'[cl.conn])
    <3>1. proc \in [Proc -> ProcRec]
          /\ (cl.phase = "send" => cl.conn \in Proc /\ Takes(proc[cl.conn]))
      BY DEF UploadInv, UploadTypeOK, ClientSound
    <3> QED
      BY <3>1
  <2> QED
    BY <2>1 DEF UploadInv, ClientSound, Undecided, Takes, Kept, Has
<1>4. faults' \in 0 .. MaxFaults
  BY FaultType DEF UploadInv, UploadTypeOK
<1> QED
  BY <1>1, <1>2, <1>3, <1>4, FilesAlone DEF UploadInv, UploadTypeOK

LEMMA ReplyInv ==
  ASSUME UploadInv, NEW p \in Proc, NEW st \in Status \ {"none"}, NEW sz \in -1 .. Size,
         st \in {"transient", "permanent"} => sz = -1,
         Reply(p, st, sz), UNCHANGED <<cl, disk, path, created>>,
         locked' \in [File -> Proc \cup {None}], Fault \/ NoFault,
         Kept /\ st = "success" => /\ sz = -1 /\ cl.nbytes > 0 => Has(cl.nbytes)
                                   /\ sz > 0 => Has(sz),
         cl.phase = "send" /\ cl.conn = p => sz = -1
  PROVE  UploadInv'
<1> DEFINE g == [proc[p] EXCEPT !.pc = "reply", !.status = st, !.size = sz]
<1>1. proc[p] \in ProcRec /\ HandlerSound(proc[p], cl.nbytes) /\ proc[p].fd <= created
      /\ cl.nbytes \in 0 .. Size
  BY DEF UploadInv, UploadTypeOK, HandlersSound, ClientRec
<1>2. proc' = [proc EXCEPT ![p] = g]
  BY DEF Reply
<1>3. /\ g \in ProcRec /\ HandlerSound(g, cl.nbytes) /\ g.fd = proc[p].fd /\ g.pc = "reply"
      /\ g.status = st /\ g.size = sz
  BY <1>1 DEF ProcRec, HandlerSound
<1> HIDE DEF g
<1>4. Follows(g) /\ Truthful(g)
  BY <1>3 DEF Follows, Truthful
<1>5. cl.phase = "send" /\ cl.conn = p => Takes(g)
  BY <1>3 DEF Takes
<1> QED
  BY <1>1, <1>2, <1>3, <1>4, <1>5, HandlerMoves

LEMMA LockedType ==
  ASSUME UploadInv, NEW p \in Proc
  PROVE  /\ locked \in [File -> Proc \cup {None}]
         /\ Unlocked(p) \in [File -> Proc \cup {None}]
  BY DEF UploadInv, UploadTypeOK, Unlocked

(* Replies that promise nothing. *)
LEMMA RefusedInv ==
  ASSUME UploadInv, NEW p \in Proc, NEW st \in {"transient", "permanent", "http_error"},
         Reply(p, st, -1), UNCHANGED <<cl, disk, path, created>>,
         locked' \in {locked, Unlocked(p)}, Fault \/ NoFault
  PROVE  UploadInv'
<1>1. st \in Status \ {"none"} /\ -1 \in -1 .. Size /\ st # "success"
  BY UploadAssumption DEF Status
<1> QED
  BY <1>1, ReplyInv, LockedType

(* What is known of a handler, and of what it may read. *)
LEMMA HandlerFacts ==
  ASSUME UploadInv, NEW p \in Proc
  PROVE  /\ proc[p] \in ProcRec /\ HandlerSound(proc[p], cl.nbytes)
         /\ proc[p].fd <= created /\ Follows(proc[p])
         /\ cl.nbytes \in 0 .. Size /\ path \in 0 .. created /\ created \in 0 .. NFiles
         /\ \A f \in File : disk[f] \in FileRec /\ disk[f].size \in 0 .. Size
         /\ cl.phase = "send" /\ cl.conn = p => Takes(proc[p])
         /\ proc[p].pc \in {"check", "write", "stat"} => proc[p].fd \in File
         /\ path # 0 => path \in File
<1>1. /\ proc[p] \in ProcRec /\ HandlerSound(proc[p], cl.nbytes)
      /\ proc[p].fd <= created /\ Follows(proc[p]) /\ cl.nbytes \in 0 .. Size
      /\ path \in 0 .. NFiles /\ created \in 0 .. NFiles /\ path <= created
  BY DEF UploadInv, UploadTypeOK, HandlersSound, FilesSound, ClientRec
<1>2. \A f \in File : disk[f] \in FileRec /\ disk[f].size \in 0 .. Size
  BY DEF UploadInv, UploadTypeOK, FileRec
<1>3. cl.phase = "send" /\ cl.conn = p => Takes(proc[p])
  BY DEF UploadInv, ClientSound
<1>4. proc[p].pc \in {"check", "write", "stat"} => proc[p].fd \in File
  BY <1>1, UploadAssumption DEF ProcRec, HandlerSound, File
<1> QED
  BY <1>1, <1>2, <1>3, <1>4, UploadAssumption DEF File

LEMMA ReadInv ==
  ASSUME UploadInv, NEW p \in Proc, ReadBlock(p) \/ NothingToRead(p)
  PROVE  UploadInv'
<1>1. /\ proc[p] \in ProcRec /\ HandlerSound(proc[p], cl.nbytes) /\ cl.nbytes \in 0 .. Size
      /\ proc[p].fd <= created /\ Follows(proc[p])
      /\ cl.phase = "send" /\ cl.conn = p => Takes(proc[p])
  BY HandlerFacts
<1>2. CASE ReadBlock(p)
  <2> DEFINE n == Min2(Requests(p), Available(p))
             pc == IF proc[p].fd = 0 THEN "open" ELSE "write"
             sh == n < Requests(p)
             h == [proc[p] EXCEPT !.pc = pc, !.buf = n, !.read = @ + n, !.short = sh]
  <2>1. /\ proc' = [proc EXCEPT ![p] = h] /\ proc[p].pc = "read"
        /\ UNCHANGED <<cl, onServer>> /\ NoFault
    BY <1>2 DEF ReadBlock
  <2>2. /\ n \in 0 .. Size /\ proc[p].read + n \in 0 .. Size /\ proc[p].read + n <= proc[p].sent
        /\ proc[p].offset + (proc[p].read + n) <= cl.nbytes
    BY <1>1, UploadAssumption DEF Min2, Requests, Available, ProcRec, HandlerSound
  <2>3. sh \in BOOLEAN /\ pc \in {"open", "write"} /\ (pc = "open" <=> proc[p].fd = 0)
    OBVIOUS
  <2> HIDE DEF n, pc, sh
  <2>4. /\ h \in ProcRec /\ h.pc = pc /\ h.buf = n /\ h.read = proc[p].read + n
        /\ h.fd = proc[p].fd /\ h.offset = proc[p].offset /\ h.sent = proc[p].sent
        /\ h.status = proc[p].status /\ h.size = proc[p].size
    BY <1>1, <2>2, <2>3 DEF ProcRec
  <2> HIDE DEF h
  <2>5. HandlerSound(h, cl.nbytes)
    BY <1>1, <2>1, <2>2, <2>3, <2>4 DEF HandlerSound, ProcRec
  <2>6. Follows(h) /\ Truthful(h)
    BY <1>1, <2>1, <2>2, <2>3, <2>4 DEF Follows, Truthful, ProcRec
  <2>7. cl.phase = "send" /\ cl.conn = p => Takes(h)
    BY <1>1, <2>3, <2>4 DEF Takes
  <2> QED
    BY <1>1, <2>1, <2>4, <2>5, <2>6, <2>7, HandlerMoves, LockedType DEF onServer
<1>3. CASE NothingToRead(p)
  <2>1. /\ proc[p].offset >= cl.nbytes /\ Reply(p, "success", -1)
        /\ UNCHANGED <<cl, onServer>> /\ NoFault
    BY <1>3 DEF NothingToRead
  <2>2. ~(cl.nbytes > 0) /\ -1 \in -1 .. Size /\ "success" \in Status \ {"none"}
    BY <1>1, <2>1, UploadAssumption DEF HandlerSound, ProcRec, Status
  <2> QED
    BY <2>1, <2>2, ReplyInv, LockedType DEF onServer
<1> QED
  BY <1>2, <1>3

(* Opening: a file that is created has a number no handler has seen. *)
LEMMA OpenInv ==
  ASSUME UploadInv, NEW p \in Proc, OpenFile(p)
  PROVE  UploadInv'
<1>1. /\ proc[p] \in ProcRec /\ HandlerSound(proc[p], cl.nbytes) /\ cl.nbytes \in 0 .. Size
      /\ created \in 0 .. NFiles /\ path \in 0 .. created
      /\ cl.phase = "send" /\ cl.conn = p => Takes(proc[p])
  BY HandlerFacts
<1>2. /\ proc[p].pc = "open" /\ UNCHANGED <<cl, disk, locked>> /\ NoFault
  BY <1>1 DEF OpenFile
<1>3. ASSUME NEW f \in File
      PROVE  LET h == [proc[p] EXCEPT !.pc = "check", !.fd = f] IN
             /\ h \in ProcRec /\ HandlerSound(h, cl.nbytes) /\ h.fd = f /\ h.pc = "check"
             /\ cl.phase = "send" /\ cl.conn = p => Takes(h)
  <2>1. f \in 0 .. NFiles /\ f # 0
    BY UploadAssumption DEF File
  <2> DEFINE h == [proc[p] EXCEPT !.pc = "check", !.fd = f]
  <2>2. /\ h \in ProcRec /\ h.fd = f /\ h.pc = "check" /\ h.status = proc[p].status
        /\ h.size = proc[p].size /\ h.read = proc[p].read /\ h.buf = proc[p].buf
        /\ h.sent = proc[p].sent /\ h.offset = proc[p].offset
    BY <1>1, <2>1 DEF ProcRec
  <2> HIDE DEF h
  <2>3. HandlerSound(h, cl.nbytes)
    BY <1>1, <1>2, <2>1, <2>2 DEF HandlerSound
  <2>4. cl.phase = "send" /\ cl.conn = p => Takes(h)
    BY <1>1, <2>2 DEF Takes
  <2> QED
    BY <2>2, <2>3, <2>4 DEF h
<1>4. CASE path # 0 /\ UNCHANGED <<path, created>>
           /\ proc' = [proc EXCEPT ![p].pc = "check", ![p].fd = path]
  <2> DEFINE h == [proc[p] EXCEPT !.pc = "check", !.fd = path]
  <2>1. path \in File /\ path <= created /\ proc' = [proc EXCEPT ![p] = h]
    <3>1. proc' = [proc EXCEPT ![p] = h]
      BY <1>4
    <3>2. path \in File /\ path <= created
      BY <1>1, <1>4, UploadAssumption DEF File
    <3> QED
      BY <3>1, <3>2
  <2>2. /\ h \in ProcRec /\ HandlerSound(h, cl.nbytes) /\ h.fd = path /\ h.pc = "check"
        /\ cl.phase = "send" /\ cl.conn = p => Takes(h)
    BY <1>3, <2>1
  <2> HIDE DEF h
  <2>3. Follows(h) /\ Truthful(h)
    BY <2>2 DEF Follows, Truthful
  <2> QED
    BY <1>2, <1>4, <2>1, <2>2, <2>3, HandlerMoves, LockedType
<1>5. CASE path = 0 /\ created < NFiles /\ path' = created + 1 /\ created' = created + 1
           /\ proc' = [proc EXCEPT ![p].pc = "check", ![p].fd = created + 1]
  <2> DEFINE f == created + 1
             h == [proc[p] EXCEPT !.pc = "check", !.fd = f]
  <2>1. f \in File /\ f > created /\ proc' = [proc EXCEPT ![p] = h] /\ path' = f /\ created' = f
    <3>1. proc' = [proc EXCEPT ![p] = h]
      BY <1>5
    <3>2. f \in File /\ f > created /\ path' = f /\ created' = f
      BY <1>1, <1>5, UploadAssumption DEF File
    <3> QED
      BY <3>1, <3>2
  <2>2. /\ h \in ProcRec /\ HandlerSound(h, cl.nbytes) /\ h.fd = f /\ h.pc = "check"
        /\ cl.phase = "send" /\ cl.conn = p => Takes(h)
    BY <1>3, <2>1
  <2> HIDE DEF h, f
  <2>3. UploadTypeOK'
    <3>1. proc' \in [Proc -> ProcRec] /\ f \in 0 .. NFiles
      BY <2>1, <2>2, UploadAssumption DEF UploadInv, UploadTypeOK, File
    <3>2. faults' \in 0 .. MaxFaults
      BY <1>2, FaultType DEF UploadInv, UploadTypeOK
    <3> QED
      BY <1>2, <2>1, <3>1, <3>2 DEF UploadInv, UploadTypeOK
  <2>4. FilesSound'
    <3>1. disk[f] = [size |-> 0, data |-> {}]
      BY <2>1 DEF UploadInv, FilesSound
    <3>2. Contiguous'
      BY <1>2, <2>1, <3>1 DEF Contiguous
    <3>3. \A g \in File : g > f => disk[g] = [size |-> 0, data |-> {}]
      BY <1>1, <2>1, UploadAssumption DEF UploadInv, FilesSound, File
    <3> QED
      BY <1>1, <1>2, <2>1, <3>2, <3>3, UploadAssumption DEF UploadInv, FilesSound, File
  <2>5. Kept' => Kept
    BY <1>1, <1>5, <2>1 DEF Kept, f
  <2>6. Kept => ~Has(1)
    BY <1>5 DEF Has
  <2>7. HandlersSound'
    <3> SUFFICES ASSUME NEW q \in Proc
                 PROVE  /\ HandlerSound(proc'[q], cl'.nbytes)
                        /\ proc'[q].fd <= created' /\ Follows(proc[q])' /\ Truthful(proc[q])'
      BY DEF HandlersSound
    <3>1. CASE proc'[q] = h
      BY <1>2, <2>1, <2>2, <3>1, UploadAssumption DEF Follows, Truthful, File
    <3>2. CASE proc'[q] = proc[q]
      <4>1. /\ HandlerSound(proc[q], cl.nbytes) /\ proc[q].fd <= created
            /\ Truthful(proc[q]) /\ proc[q] \in ProcRec
        BY DEF UploadInv, UploadTypeOK, HandlersSound
      <4>2. proc[q].fd \in 0 .. NFiles /\ proc[q].fd < f
        BY <1>1, <2>1, <4>1, UploadAssumption DEF ProcRec, f
      <4>3. Follows(proc[q])'
        BY <2>1, <3>2, <4>2, UploadAssumption DEF Follows, File
      <4>4. Truthful(proc[q])'
        BY <1>2, <1>5, <2>5, <3>2, <4>1 DEF Truthful, Has
      <4> QED
        BY <1>2, <2>1, <3>2, <4>1, <4>2, <4>3, <4>4, UploadAssumption DEF File
    <3> QED
      BY <2>1, <3>1, <3>2 DEF UploadInv, UploadTypeOK
  <2>8. ClientSound'
    <3>1. cl.phase = "send" => Takes(proc'[cl.conn])
      <4>1. proc \in [Proc -> ProcRec]
            /\ (cl.phase = "send" => cl.conn \in Proc /\ Takes(proc[cl.conn]))
        BY DEF UploadInv, UploadTypeOK, ClientSound
      <4> QED
        BY <2>1, <2>2, <4>1
    <3> QED
      BY <1>2, <1>5, <2>5, <3>1 DEF UploadInv, ClientSound, Undecided, Takes, Has
  <2> QED
    BY <2>3, <2>4, <2>7, <2>8 DEF UploadInv
<1> QED
  BY <1>4, <1>5 DEF OpenFile

LEMMA CheckInv ==
  ASSUME UploadInv, NEW p \in Proc, CheckFile(p)
  PROVE  UploadInv'
<1>1. /\ proc[p] \in ProcRec /\ HandlerSound(proc[p], cl.nbytes) /\ proc[p].fd <= created
      /\ cl.phase = "send" /\ cl.conn = p => Takes(proc[p])
  BY HandlerFacts
<1>2. proc[p].pc = "check" /\ UNCHANGED <<cl, disk, path, created>> /\ NoFault
  BY DEF CheckFile
<1>3. CASE /\ LongEnough(p) /\ locked' = [locked EXCEPT ![proc[p].fd] = p]
           /\ proc' = [proc EXCEPT ![p].pc = "write"]
  <2> DEFINE h == [proc[p] EXCEPT !.pc = "write"]
  <2>1. proc' = [proc EXCEPT ![p] = h] /\ locked' \in [File -> Proc \cup {None}]
    BY <1>3, LockedType
  <2>2. /\ h \in ProcRec /\ h.fd = proc[p].fd /\ h.pc = "write" /\ h.status = proc[p].status
        /\ h.size = proc[p].size /\ h.read = proc[p].read /\ h.buf = proc[p].buf
        /\ h.sent = proc[p].sent /\ h.offset = proc[p].offset
    BY <1>1 DEF ProcRec
  <2> HIDE DEF h
  <2>3. HandlerSound(h, cl.nbytes) /\ Truthful(h)
    BY <1>1, <1>2, <2>2 DEF HandlerSound, Truthful
  <2>4. Follows(h)
    BY <1>1, <1>2, <1>3, <2>2 DEF Follows, LongEnough, HandlerSound, ProcRec
  <2>5. cl.phase = "send" /\ cl.conn = p => Takes(h)
    BY <1>1, <2>2 DEF Takes
  <2> QED
    BY <1>1, <1>2, <2>1, <2>2, <2>3, <2>4, <2>5, HandlerMoves
<1>4. CASE Reply(p, "transient", -1) /\ UNCHANGED locked
  BY <1>2, <1>4, RefusedInv
<1> QED
  BY <1>3, <1>4 DEF CheckFile

LEMMA SizeInv ==
  ASSUME UploadInv, NEW p \in Proc, OpenForSize(p) \/ TellSize(p)
  PROVE  UploadInv'
<1>1. /\ proc[p] \in ProcRec /\ HandlerSound(proc[p], cl.nbytes) /\ proc[p].fd <= created
      /\ created \in 0 .. NFiles /\ path \in 0 .. created /\ (path # 0 => path \in File)
      /\ \A f \in File : disk[f].size \in 0 .. Size
      /\ cl.phase = "send" /\ cl.conn = p => Takes(proc[p])
  BY HandlerFacts
<1>2. /\ proc[p].pc \in {"size", "stat"} /\ UNCHANGED <<cl, onServer>> /\ NoFault
  BY DEF OpenForSize, TellSize
<1>3. ~(cl.phase = "send" /\ cl.conn = p)
  BY <1>1, <1>2 DEF Takes
<1>4. "success" \in Status \ {"none"} /\ 0 \in -1 .. Size
  BY UploadAssumption DEF Status
<1>5. CASE path = 0 /\ Reply(p, "success", 0)
  BY <1>2, <1>3, <1>4, <1>5, ReplyInv, LockedType DEF onServer
<1>6. CASE path # 0 /\ proc' = [proc EXCEPT ![p].pc = "stat", ![p].fd = path]
  <2> DEFINE h == [proc[p] EXCEPT !.pc = "stat", !.fd = path]
  <2>1. proc' = [proc EXCEPT ![p] = h]
    BY <1>6
  <2>2. path \in 0 .. NFiles /\ path # 0 /\ path <= created
    BY <1>1, <1>6, UploadAssumption
  <2>3. /\ h \in ProcRec /\ h.fd = path /\ h.pc = "stat" /\ h.status = proc[p].status
        /\ h.size = proc[p].size /\ h.read = proc[p].read /\ h.buf = proc[p].buf
        /\ h.sent = proc[p].sent /\ h.offset = proc[p].offset
    BY <1>1, <2>2 DEF ProcRec
  <2> HIDE DEF h
  <2>4. HandlerSound(h, cl.nbytes) /\ Follows(h) /\ Truthful(h)
    BY <1>1, <2>2, <2>3 DEF HandlerSound, Follows, Truthful
  <2> QED
    BY <1>2, <1>3, <2>1, <2>2, <2>3, <2>4, HandlerMoves, LockedType DEF onServer
<1>7. CASE Reply(p, "transient", -1)
  BY <1>2, <1>7, RefusedInv DEF onServer
<1>8. CASE path # 0 /\ Reply(p, "success", disk[path].size)
  <2> DEFINE sz == disk[path].size
  <2>1. sz \in -1 .. Size /\ sz >= 0
    BY <1>1, <1>8, UploadAssumption
  <2>2. Kept => Has(sz)
    BY <1>1, <1>8 DEF Kept, Has
  <2>3. Reply(p, "success", sz) /\ sz # -1
    BY <1>8, <2>1
  <2> HIDE DEF sz
  <2> QED
    BY <1>2, <1>3, <1>4, <2>1, <2>2, <2>3, ReplyInv, LockedType DEF onServer
<1> QED
  BY <1>5, <1>6, <1>7, <1>8 DEF OpenForSize, TellSize

LEMMA EndInv ==
  ASSUME UploadInv, NEW p \in Proc, Refuse(p) \/ HandlerDies(p) \/ Exit(p)
  PROVE  UploadInv'
<1>1. CASE Refuse(p)
  BY <1>1, RefusedInv DEF Refuse, onServer
<1>2. CASE HandlerDies(p)
  BY <1>2, RefusedInv DEF HandlerDies
<1>3. CASE Exit(p)
  <2>1. cl \in ClientRec /\ cl.nbytes \in 0 .. Size /\ created \in 0 .. NFiles
        /\ (cl.phase = "send" /\ cl.conn = p => Takes(FreeProc))
    BY DEF UploadInv, UploadTypeOK, ClientRec, Takes, FreeProc
  <2>2. FreeProc.fd <= created /\ Follows(FreeProc) /\ Truthful(FreeProc)
    BY <2>1, FreeSound, UploadAssumption DEF Follows, Truthful
  <2> QED
    BY <1>3, <2>1, <2>2, FreeSound, HandlerMoves, LockedType DEF Exit, onServer
<1> QED
  BY <1>1, <1>2, <1>3

LEMMA DeleteInv ==
  ASSUME UploadInv, DeleteFile
  PROVE  UploadInv'
<1>1. /\ UNCHANGED <<cl, proc, disk, created, locked>> /\ Fault /\ path' = 0
      /\ path \in 0 .. NFiles /\ path <= created /\ path # 0
  BY DEF DeleteFile, UploadInv, UploadTypeOK, FilesSound
<1>2. UploadTypeOK'
  BY <1>1, FaultType, UploadAssumption DEF UploadInv, UploadTypeOK
<1>3. ~Kept'
  BY <1>1, UploadAssumption DEF Kept, UploadInv, UploadTypeOK
<1>4. HandlersSound'
  BY <1>1, <1>3 DEF UploadInv, HandlersSound, Follows, Truthful
<1>5. FilesSound'
  BY <1>1, UploadAssumption DEF UploadInv, UploadTypeOK, FilesSound, Contiguous
<1>6. ClientSound'
  BY <1>1, <1>3 DEF UploadInv, ClientSound, Undecided, Takes
<1> QED
  BY <1>2, <1>4, <1>5, <1>6 DEF UploadInv

(* Writing n of the units read. *)
LEMMA WrittenSound ==
  ASSUME UploadInv, NEW p \in Proc, proc[p].pc = "write", NEW n \in 0 .. proc[p].buf,
         disk' = [disk EXCEPT ![proc[p].fd] = Written(proc[p].fd, p, n)],
         UNCHANGED <<cl, path, created>>
  PROVE  /\ disk' \in [File -> FileRec] /\ FilesSound'
         /\ \A f \in File : disk'[f].size >= disk[f].size
         /\ proc[p].fd = path => disk'[path].size >= Position(p) + n
<1> DEFINE f == proc[p].fd
           sz == Max2(disk[f].size, IF n = 0 THEN 0 ELSE Position(p) + n)
           d == disk[f].data \cup (Position(p) + 1 .. Position(p) + n)
<1>1. /\ proc[p] \in ProcRec /\ HandlerSound(proc[p], cl.nbytes)
      /\ f <= created /\ Follows(proc[p]) /\ f \in File
      /\ cl.nbytes \in 0 .. Size /\ path \in 0 .. created /\ created \in 0 .. NFiles
      /\ \A g \in File : disk[g] \in FileRec /\ disk[g].size \in 0 .. Size
  BY HandlerFacts
<1>2. /\ disk \in [File -> FileRec] /\ FilesSound
      /\ disk[f].size <= cl.nbytes /\ disk[f].data \subseteq Unit
  BY <1>1 DEF UploadInv, UploadTypeOK, FilesSound, FileRec
<1>3. n \in 0 .. Size /\ Position(p) \in 0 .. Size /\ Position(p) + n <= cl.nbytes
  BY <1>1, UploadAssumption DEF ProcRec, HandlerSound, Position
<1>4. sz \in 0 .. Size /\ sz >= disk[f].size /\ sz <= cl.nbytes
      /\ (n > 0 => sz >= Position(p) + n)
      /\ (sz = disk[f].size \/ (n > 0 /\ sz = Position(p) + n))
  BY <1>1, <1>2, <1>3, UploadAssumption DEF Max2
<1>5. d \subseteq Unit
  BY <1>1, <1>2, <1>3, UploadAssumption DEF Unit
<1>6. disk' = [disk EXCEPT ![f] = [size |-> sz, data |-> d]]
  BY DEF Written
<1>7. f = path => Position(p) <= disk[f].size
  BY <1>1, UploadAssumption DEF Follows, Position, File
<1>8. f = path => d = 1 .. sz
  <2> SUFFICES ASSUME f = path PROVE d = 1 .. sz
    OBVIOUS
  <2>1. disk[f].data = 1 .. disk[f].size
    BY <1>1, <1>2, UploadAssumption DEF FilesSound, Contiguous, File
  <2>2. d = (1 .. disk[f].size) \cup (Position(p) + 1 .. Position(p) + n)
    BY <2>1
  <2> HIDE DEF f, sz, d
  <2> QED
    BY <1>1, <1>3, <1>4, <1>7, <2>2, UploadAssumption
<1> HIDE DEF sz, d
<1>9. disk' \in [File -> FileRec] /\ disk'[f].size = sz /\ disk'[f].data = d
      /\ \A g \in File \ {f} : disk'[g] = disk[g]
  BY <1>1, <1>2, <1>4, <1>5, <1>6 DEF FileRec
<1> HIDE DEF f
<1>10. Contiguous'
  <2>1. CASE path = f
    BY <1>8, <1>9, <2>1 DEF Contiguous
  <2>2. CASE path # f
    BY <1>1, <1>2, <1>9, <2>2, UploadAssumption DEF FilesSound, Contiguous, File
  <2> QED
    BY <2>1, <2>2
<1>11. FilesSound'
  <2>1. \A g \in File : disk'[g].size <= cl.nbytes
    BY <1>2, <1>4, <1>9 DEF FilesSound
  <2>2. \A g \in File : g > created => disk'[g] = [size |-> 0, data |-> {}]
    <3>1. \A g \in File : g > created => g # f
      BY <1>1, UploadAssumption DEF File
    <3> QED
      BY <1>2, <1>9, <3>1 DEF FilesSound
  <2> QED
    BY <1>2, <1>10, <2>1, <2>2 DEF FilesSound
<1>12. \A g \in File : disk'[g].size >= disk[g].size
  BY <1>1, <1>4, <1>9, UploadAssumption
<1>13. f = path => disk'[path].size >= Position(p) + n
  BY <1>1, <1>3, <1>4, <1>7, <1>9, UploadAssumption
<1> QED
  BY <1>9, <1>11, <1>12, <1>13 DEF f

(* The handler p has written n units, and becomes h. *)
LEMMA WriteMoves ==
  ASSUME UploadInv, NEW p \in Proc, proc[p].pc = "write", NEW n \in 0 .. proc[p].buf,
         disk' = [disk EXCEPT ![proc[p].fd] = Written(proc[p].fd, p, n)],
         UNCHANGED <<cl, path, created>>, locked' \in [File -> Proc \cup {None}],
         Fault \/ NoFault, NEW h \in ProcRec, HandlerSound(h, cl.nbytes),
         proc' = [proc EXCEPT ![p] = h], h.fd = proc[p].fd, h.pc \in {"read", "reply"},
         h.pc = "read" => h.offset + h.read = Position(p) + n,
         h.pc = "reply" /\ h.status = "success"
           => h.size = -1 /\ Position(p) + n = cl.nbytes,
         Takes(proc[p]) => Takes(h)
  PROVE  UploadInv'
<1>1. /\ disk' \in [File -> FileRec] /\ FilesSound'
      /\ \A f \in File : disk'[f].size >= disk[f].size
      /\ proc[p].fd = path => disk'[path].size >= Position(p) + n
  BY WrittenSound
<1>2. /\ \A f \in File : disk[f].size \in 0 .. Size
      /\ proc[p].fd \in File /\ proc[p].fd <= created /\ path \in 0 .. created
      /\ created \in 0 .. NFiles /\ (path # 0 => path \in File) /\ cl.nbytes \in 0 .. Size
  BY HandlerFacts
<1>3. \A f \in File : disk'[f].size \in 0 .. Size
  BY <1>1 DEF FileRec
<1>4. Kept => path = 1 \/ path = 0
  BY <1>2, UploadAssumption DEF Kept
<1>5. Kept => path = 1 /\ proc[p].fd = 1 /\ 1 \in File
  BY <1>2, <1>4, UploadAssumption DEF Kept, File
<1>6. ASSUME NEW m \in 0 .. Size, Kept, Has(m) PROVE Has(m)'
  BY <1>1, <1>2, <1>3, <1>5, <1>6, UploadAssumption DEF Has
<1>7. UploadTypeOK'
  <2>1. proc' \in [Proc -> ProcRec] /\ faults' \in 0 .. MaxFaults
    BY FaultType DEF UploadInv, UploadTypeOK
  <2> QED
    BY <1>1, <2>1 DEF UploadInv, UploadTypeOK
<1>8. HandlersSound'
  <2> SUFFICES ASSUME NEW q \in Proc
               PROVE  /\ HandlerSound(proc'[q], cl'.nbytes)
                      /\ proc'[q].fd <= created' /\ Follows(proc[q])' /\ Truthful(proc[q])'
    BY DEF HandlersSound
  <2>1. CASE proc'[q] = h
    <3>1. Follows(proc[q])'
      BY <1>1, <1>2, <2>1 DEF Follows
    <3>2. Truthful(proc[q])'
      <4> SUFFICES ASSUME Kept, h.pc = "reply", h.status = "success"
                   PROVE  disk'[1].size >= cl.nbytes /\ path = 1 /\ h.size = -1
        BY <2>1, UploadAssumption DEF Truthful, Kept, Has
      <4> QED
        BY <1>1, <1>5
    <3> QED
      BY <1>2, <2>1, <3>1, <3>2
  <2>2. CASE proc'[q] = proc[q]
    <3>1. /\ HandlerSound(proc[q], cl.nbytes) /\ proc[q].fd <= created
          /\ Follows(proc[q]) /\ Truthful(proc[q]) /\ proc[q] \in ProcRec
      BY DEF UploadInv, UploadTypeOK, HandlersSound
    <3>2. /\ proc[q].offset \in 0 .. Size /\ proc[q].read \in 0 .. Size
          /\ proc[q].buf \in 0 .. Size /\ proc[q].size \in -1 .. Size
      BY <3>1 DEF ProcRec
    <3>3. Follows(proc[q])'
      <4> SUFFICES ASSUME path # 0, proc[q].fd = path
                   PROVE  /\ proc[q].pc = "write" =>
                              proc[q].offset + (proc[q].read - proc[q].buf) <= disk'[path].size
                          /\ proc[q].pc = "read" =>
                              proc[q].offset + proc[q].read <= disk'[path].size
        BY <2>2 DEF Follows
      <4>1. disk'[path].size >= disk[path].size /\ disk'[path].size \in 0 .. Size
            /\ disk[path].size \in 0 .. Size
        BY <1>1, <1>2, <1>3
      <4> QED
        BY <3>1, <3>2, <4>1, UploadAssumption DEF Follows
    <3>4. Truthful(proc[q])'
      <4> SUFFICES ASSUME Kept, proc[q].pc = "reply", proc[q].status = "success"
                   PROVE  /\ proc[q].size = -1 /\ cl.nbytes > 0 => Has(cl.nbytes)'
                          /\ proc[q].size > 0 => Has(proc[q].size)'
        BY <2>2 DEF Truthful, Kept, Has
      <4>1. /\ proc[q].size = -1 /\ cl.nbytes > 0 => Has(cl.nbytes)
            /\ proc[q].size > 0 => Has(proc[q].size)
        BY <3>1 DEF Truthful
      <4>2. proc[q].size > 0 => proc[q].size \in 0 .. Size
        BY <3>2, UploadAssumption
      <4>3. cl'.nbytes = cl.nbytes /\ proc'[q].size = proc[q].size
        BY <2>2
      <4> QED
        BY <1>2, <1>6, <4>1, <4>2, <4>3 DEF Has
    <3> QED
      BY <2>2, <3>1, <3>3, <3>4
  <2> QED
    BY <2>1, <2>2 DEF UploadInv, UploadTypeOK
<1>9. ClientSound'
  <2>1. cl.phase = "send" => Takes(proc'[cl.conn])
    <3>1. proc \in [Proc -> ProcRec]
          /\ (cl.phase = "send" => cl.conn \in Proc /\ Takes(proc[cl.conn]))
      BY DEF UploadInv, UploadTypeOK, ClientSound
    <3> QED
      BY <3>1
  <2>2. Kept /\ Has(cl.nbytes) => Has(cl.nbytes)'
    BY <1>2, <1>6
  <2>3. Kept' <=> Kept
    BY DEF Kept
  <2>4. ClientSound
    BY DEF UploadInv
  <2> QED
    BY <2>1, <2>2, <2>3, <2>4 DEF ClientSound, Undecided, Takes
<1> QED
  BY <1>1, <1>7, <1>8, <1>9 DEF UploadInv

LEMMA WriteInv ==
  ASSUME UploadInv, NEW p \in Proc, WriteBlock(p) \/ WriteFails(p)
  PROVE  UploadInv'
<1>1. /\ proc[p] \in ProcRec /\ HandlerSound(proc[p], cl.nbytes) /\ cl.nbytes \in 0 .. Size
  BY HandlerFacts
<1>2. proc[p].pc = "write" /\ UNCHANGED <<cl, path, created>> /\ (Fault \/ NoFault)
  BY DEF WriteBlock, WriteFails
<1>3. /\ proc[p].buf \in 0 .. Size /\ proc[p].offset \in 0 .. Size /\ proc[p].read \in 0 .. Size
      /\ proc[p].size \in -1 .. Size
      /\ Position(p) + proc[p].buf = proc[p].offset + proc[p].read
  BY <1>1, UploadAssumption DEF ProcRec, Position
<1>4. ASSUME NEW n \in 0 .. proc[p].buf, NEW st \in Status \ {"none"},
             disk' = [disk EXCEPT ![proc[p].fd] = Written(proc[p].fd, p, n)],
             Reply(p, st, -1), locked' = Unlocked(p),
             st = "success" => Position(p) + n = cl.nbytes
      PROVE  UploadInv'
  <2> DEFINE h == [proc[p] EXCEPT !.pc = "reply", !.status = st, !.size = -1]
  <2>1. proc' = [proc EXCEPT ![p] = h]
    BY <1>4 DEF Reply
  <2>2. -1 \in -1 .. Size
    BY UploadAssumption
  <2>3. /\ h \in ProcRec /\ HandlerSound(h, cl.nbytes) /\ h.fd = proc[p].fd /\ h.pc = "reply"
        /\ h.status = st /\ h.size = -1
    BY <1>1, <2>2 DEF ProcRec, HandlerSound
  <2> HIDE DEF h
  <2>4. Takes(proc[p]) => Takes(h)
    BY <2>3 DEF Takes
  <2> QED
    BY <1>2, <1>4, <2>1, <2>3, <2>4, LockedType, WriteMoves
<1>5. ASSUME WriteBlock(p) PROVE UploadInv'
  <2> DEFINE n == proc[p].buf
  <2>1. /\ disk' = [disk EXCEPT ![proc[p].fd] = Written(proc[p].fd, p, n)]
        /\ n \in 0 .. proc[p].buf /\ "success" \in Status \ {"none"}
        /\ "transient" \in Status \ {"none"}
    BY <1>3, <1>5 DEF WriteBlock, Status
  <2>2. CASE Reply(p, "transient", -1) /\ locked' = Unlocked(p)
    BY <1>4, <2>1, <2>2
  <2>3. CASE /\ proc[p].offset + proc[p].read = cl.nbytes
             /\ Reply(p, "success", -1) /\ locked' = Unlocked(p)
    BY <1>3, <1>4, <2>1, <2>3
  <2>4. CASE proc' = [proc EXCEPT ![p].pc = "read"] /\ UNCHANGED locked
    <3> DEFINE h == [proc[p] EXCEPT !.pc = "read"]
    <3>1. proc' = [proc EXCEPT ![p] = h] /\ proc[p].fd # 0
      <4>1. proc[p].fd # 0
        BY <1>1, <1>2 DEF HandlerSound
      <4> QED
        BY <2>4, <4>1
    <3>2. /\ h \in ProcRec /\ h.fd = proc[p].fd /\ h.pc = "read" /\ h.status = proc[p].status
          /\ h.size = proc[p].size /\ h.read = proc[p].read /\ h.buf = proc[p].buf
          /\ h.sent = proc[p].sent /\ h.offset = proc[p].offset
      BY <1>1 DEF ProcRec
    <3> HIDE DEF h
    <3>3. HandlerSound(h, cl.nbytes) /\ (Takes(proc[p]) => Takes(h))
      BY <1>1, <3>1, <3>2 DEF HandlerSound, Takes
    <3>4. h.offset + h.read = Position(p) + n
      BY <1>3, <3>2
    <3>5. locked' \in [File -> Proc \cup {None}]
      BY <2>4, LockedType
    <3>6. h.pc # "reply"
      BY <3>2
    <3> HIDE DEF n
    <3> QED
      BY <1>2, <2>1, <3>1, <3>2, <3>3, <3>4, <3>5, <3>6, WriteMoves
  <2> QED
    BY <1>5, <2>2, <2>3, <2>4 DEF WriteBlock
<1>6. ASSUME WriteFails(p) PROVE UploadInv'
  <2>1. PICK n \in 0 .. proc[p].buf - 1 :
          disk' = [disk EXCEPT ![proc[p].fd] = Written(proc[p].fd, p, n)]
    BY <1>6 DEF WriteFails
  <2>2. PICK st \in {"transient", "http_error"} : Reply(p, st, -1)
    BY <1>6 DEF WriteFails
  <2>3. n \in 0 .. proc[p].buf /\ st \in Status \ {"none"} /\ st # "success"
    BY <1>3 DEF Status
  <2> QED
    BY <1>4, <1>6, <2>1, <2>2, <2>3 DEF WriteFails
<1> QED
  BY <1>5, <1>6

LEMMA StepInv == ASSUME UploadInv, [UploadNext]_uploadVars PROVE UploadInv'
<1>1. CASE ClientStep \/ Suspend \/ Disconnect
  BY <1>1, ClientInv
<1>2. ASSUME NEW p \in Proc, HandlerStep(p) PROVE UploadInv'
  BY <1>2, ReadInv, OpenInv, CheckInv, WriteInv, SizeInv, EndInv DEF HandlerStep
<1>3. CASE DeleteFile
  BY <1>3, DeleteInv
<1>4. ASSUME NEW p \in Proc, WriteFails(p) \/ Refuse(p) \/ HandlerDies(p) PROVE UploadInv'
  BY <1>4, WriteInv, EndInv
<1>5. CASE UNCHANGED uploadVars
  BY <1>5 DEF uploadVars, UploadInv, UploadTypeOK, HandlersSound, Follows, Truthful, FilesSound,
              Contiguous, ClientSound, Undecided, Takes, Kept, Has
<1> QED
  BY <1>1, <1>2, <1>3, <1>4, <1>5 DEF UploadNext

THEOREM Invariance == UploadSpec => []UploadInv
  BY InitInv, StepInv, PTL DEF UploadSpec

(* Offsets, buffers and sizes stay within the file, whatever was interrupted. *)
THEOREM UploadTypeCorrect == UploadSpec => []UploadTypeOK
<1>1. UploadInv => UploadTypeOK
  BY DEF UploadInv
<1> QED
  BY <1>1, Invariance, PTL

(***************************************************************************)
(* No hole: a handler that still has the file with the name was let write  *)
(* at an offset within it, and files only grow; one that has an older file *)
(* writes to that.                                                         *)
(***************************************************************************)
THEOREM NoHole == UploadSpec => []Contiguous
<1>1. UploadInv => Contiguous
  BY DEF UploadInv, FilesSound
<1> QED
  BY <1>1, Invariance, PTL

(***************************************************************************)
(* What is taken to be uploaded is on the server, because every success    *)
(* and every size a handler answers with was true and, nobody deleting the *)
(* file, has remained so.                                                  *)
(***************************************************************************)
THEOREM Complete == UploadSpec => []UploadedComplete
<1>1. UploadInv => UploadedComplete
  <2> SUFFICES ASSUME UploadInv, cl.phase = "done", cl.nbytes > 0, created <= 1,
                      path = created
               PROVE  path # 0 /\ disk[path].data = 1 .. cl.nbytes
    BY DEF UploadedComplete
  <2>1. path = 1 /\ disk[1].size >= cl.nbytes
    BY DEF UploadInv, ClientSound, Kept, Has
  <2>2. 1 \in File /\ cl.nbytes \in 0 .. Size /\ disk[1].size \in 0 .. Size
    BY UploadAssumption DEF UploadInv, UploadTypeOK, File, FileRec, ClientRec
  <2>3. disk[1].size <= cl.nbytes /\ disk[1].data = 1 .. disk[1].size
    BY <2>1, <2>2 DEF UploadInv, FilesSound, Contiguous
  <2>4. disk[1].size = cl.nbytes
    BY <2>1, <2>2, <2>3, UploadAssumption
  <2> QED
    BY <2>1, <2>3, <2>4
<1> QED
  BY <1>1, Invariance, PTL
=============================================================================
