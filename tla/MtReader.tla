------------------------------ MODULE MtReader ------------------------------
(***************************************************************************)
(* mt_reader::read(): the worker threads read the volume through one       *)
(* overlapped handle without a lock.  A call creates an event, issues a    *)
(* ReadFile for what is still missing, waits for that request when it is   *)
(* pending, and goes round again after a short read.  The kernel is        *)
(* modelled from how the code uses it: a request ends at once or later,    *)
(* with any count of blocks up to what was asked, or fails.                *)
(***************************************************************************)
EXTENDS Integers, FiniteSets

CONSTANTS
  Caller, DiskSize, MaxSize, Offset,
  Dword              \* 2^32: the range of each half of OVERLAPPED's offset

ASSUME ReaderAssumption ==
  /\ DiskSize \in Nat /\ MaxSize \in Nat /\ Dword \in Nat \ {0}
  /\ DiskSize < Dword * Dword /\ MaxSize < Dword
  /\ Offset \subseteq 0..(Dword * Dword - 1)

VARIABLES
  handle,            \* did CreateFileW give a valid handle?
  pc,                \* where each caller is
  req,               \* history: the arguments of each caller's latest call
  offset, size,      \* what is still to be read
  pos,               \* pbuf - buf
  buf,               \* the caller's buffer: a position of the disk per cell
  ov,                \* the caller's OVERLAPPED
  event,             \* its event handle: "none", "reset" or "set"
  read,              \* the count of the latest ReadFile
  io,                \* the kernel's request
  outcome            \* what the latest call returned

caller == <<req, offset, size, pos, read>>
vars == <<handle, pc, caller, buf, ov, event, io, outcome>>

Request == [offset : Offset, size : 0..MaxSize]
Overlapped == [Offset : 0..(Dword - 1), OffsetHigh : Nat,
               InternalHigh : 0..MaxSize]
KernelRequest == [status : {"none", "queued", "done", "failed"},
                  at : Nat, dest : 0..MaxSize, len : 0..MaxSize]
Cell == 0..(MaxSize - 1)
Untouched == -1
Blank == [i \in Cell |-> Untouched]
NoIo == [status |-> "none", at |-> 0, dest |-> 0, len |-> 0]

(* CreateFileW may fail: the constructor prints the error and goes on. *)
Init ==
  /\ handle \in BOOLEAN
  /\ pc = [c \in Caller |-> "idle"]
  /\ req \in [Caller -> Request]
  /\ offset = [c \in Caller |-> 0] /\ size = [c \in Caller |-> 0]
  /\ pos = [c \in Caller |-> 0] /\ read = [c \in Caller |-> 0]
  /\ buf = [c \in Caller |-> Blank]
  /\ ov = [c \in Caller |-> [Offset |-> 0, OffsetHigh |-> 0, InternalHigh |-> 0]]
  /\ event = [c \in Caller |-> "none"]
  /\ io = [c \in Caller |-> NoIo]
  /\ outcome = [c \in Caller |-> "none"]

At(c, p) == pc[c] = p
Goto(c, p) == pc' = [pc EXCEPT ![c] = p]

(* Every return closes the event that was created. *)
Return(c, result) ==
  /\ Goto(c, "idle")
  /\ event' = [event EXCEPT ![c] = "none"]
  /\ outcome' = [outcome EXCEPT ![c] = result]

-----------------------------------------------------------------------------
(* The caller *)

Call(c) ==
  /\ At(c, "idle")
  /\ \E r \in Request :
       /\ req' = [req EXCEPT ![c] = r]
       /\ offset' = [offset EXCEPT ![c] = r.offset]
       /\ size' = [size EXCEPT ![c] = r.size]
  /\ pos' = [pos EXCEPT ![c] = 0]
  /\ read' = [read EXCEPT ![c] = 0]
  /\ buf' = [buf EXCEPT ![c] = Blank]
  /\ ov' = [ov EXCEPT ![c] = [Offset |-> 0, OffsetHigh |-> 0, InternalHigh |-> 0]]
  /\ outcome' = [outcome EXCEPT ![c] = "none"]
  /\ Goto(c, "create")
  /\ UNCHANGED <<handle, event, io>>

CreateEvent(c) ==
  /\ At(c, "create")
  /\ \/ /\ Goto(c, "loop")
        /\ event' = [event EXCEPT ![c] = "reset"]
        /\ UNCHANGED outcome
     \/ Return(c, "err")
  /\ UNCHANGED <<handle, caller, buf, ov, io>>

(* The loop is left when nothing is missing. *)
Finish(c) ==
  /\ At(c, "loop") /\ size[c] = 0
  /\ Return(c, "ok")
  /\ UNCHANGED <<handle, caller, buf, ov, io>>

(* The offset goes into OVERLAPPED in two halves; the kernel joins them. *)
LowHalf(n) == n % Dword
HighHalf(n) == n \div Dword
Joined(o) == o.OffsetHigh * Dword + o.Offset

SetOffset(c) ==
  ov' = [ov EXCEPT ![c] = [Offset       |-> LowHalf(offset[c]),
                           OffsetHigh   |-> HighHalf(offset[c]),
                           InternalHigh |-> @.InternalHigh]]

(* ReadFile returned TRUE, or FALSE and ERROR_IO_PENDING: the kernel has a  *)
(* request of its own, and the event is reset until it is done.             *)
Issue(c) ==
  /\ At(c, "loop") /\ size[c] > 0 /\ handle
  /\ SetOffset(c)
  /\ read' = [read EXCEPT ![c] = 0]
  /\ event' = [event EXCEPT ![c] = "reset"]
  /\ io' = [io EXCEPT ![c] = [status |-> "queued", at |-> Joined(ov'[c]),
                             dest |-> pos[c], len |-> size[c]]]
  /\ Goto(c, "wait")
  /\ UNCHANGED <<handle, req, offset, size, pos, buf, outcome>>

(* Bug: an early return without CloseHandle. *)
IssueFails_Leaks(c) ==
  /\ At(c, "loop") /\ size[c] > 0
  /\ SetOffset(c)
  /\ read' = [read EXCEPT ![c] = 0]
  /\ Goto(c, "idle") /\ outcome' = [outcome EXCEPT ![c] = "err"]
  /\ UNCHANGED <<handle, req, offset, size, pos, buf, event, io>>

(* Any other error of ReadFile. *)
IssueFails(c) ==
  /\ At(c, "loop") /\ size[c] > 0
  /\ SetOffset(c)
  /\ read' = [read EXCEPT ![c] = 0]
  /\ Return(c, "err")
  /\ UNCHANGED <<handle, req, offset, size, pos, buf, io>>

(* Bug: bWait = FALSE, and ERROR_IO_INCOMPLETE taken for a failure. *)
GetResult_NoWait(c) ==
  /\ At(c, "wait")
  /\ IF event[c] # "set" \/ io[c].status = "failed"
     THEN Return(c, "err") /\ UNCHANGED read
     ELSE /\ read' = [read EXCEPT ![c] = ov[c].InternalHigh]
          /\ Goto(c, "advance")
          /\ UNCHANGED <<event, outcome>>
  /\ UNCHANGED <<handle, req, offset, size, pos, buf, ov, io>>

(* GetOverlappedResult(bWait = TRUE) waits for the caller's own event. *)
GetResult(c) ==
  /\ At(c, "wait") /\ event[c] = "set"
  /\ IF io[c].status = "failed"
     THEN Return(c, "err") /\ UNCHANGED read
     ELSE /\ read' = [read EXCEPT ![c] = ov[c].InternalHigh]
          /\ Goto(c, "advance")
          /\ UNCHANGED <<event, outcome>>
  /\ UNCHANGED <<handle, req, offset, size, pos, buf, ov, io>>

(* Bug: every ReadFile is taken to bring all that is missing. *)
Advance_Whole(c) ==
  /\ At(c, "advance") /\ read[c] # 0
  /\ offset' = [offset EXCEPT ![c] = @ + read[c]]
  /\ size' = [size EXCEPT ![c] = 0]
  /\ pos' = [pos EXCEPT ![c] = @ + read[c]]
  /\ Goto(c, "loop")
  /\ UNCHANGED <<handle, req, read, buf, ov, event, io, outcome>>

(* Bug: a read of nothing is retried, as a short read is. *)
EndOfVolume_Retries(c) ==
  /\ At(c, "advance") /\ read[c] = 0
  /\ Goto(c, "loop")
  /\ UNCHANGED <<handle, caller, buf, ov, event, io, outcome>>

(* A read of nothing is the end of the volume; a short read goes round. *)
Advance(c) ==
  /\ At(c, "advance") /\ read[c] # 0
  /\ offset' = [offset EXCEPT ![c] = (@ + read[c]) % (Dword * Dword)]
  /\ size' = [size EXCEPT ![c] = @ - read[c]]
  /\ pos' = [pos EXCEPT ![c] = @ + read[c]]
  /\ Goto(c, "loop")
  /\ UNCHANGED <<handle, req, read, buf, ov, event, io, outcome>>

EndOfVolume(c) ==
  /\ At(c, "advance") /\ read[c] = 0
  /\ Return(c, "err")
  /\ UNCHANGED <<handle, caller, buf, ov, io>>

-----------------------------------------------------------------------------
(* The kernel *)

(* How many blocks a request can bring: none past the end of the volume. *)
Transfer(r) == {n \in 0..r.len : n = 0 \/ r.at + n <= DiskSize}

Filled(b, r, n) ==
  [i \in DOMAIN b |-> IF r.dest <= i /\ i < r.dest + n
                      THEN r.at + (i - r.dest) ELSE b[i]]

Complete(c) ==
  /\ io[c].status = "queued"
  /\ \/ \E n \in Transfer(io[c]) :
          /\ buf' = [buf EXCEPT ![c] = Filled(@, io[c], n)]
          /\ ov' = [ov EXCEPT ![c].InternalHigh = n]
          /\ io' = [io EXCEPT ![c].status = "done"]
     \/ io' = [io EXCEPT ![c].status = "failed"] /\ UNCHANGED <<buf, ov>>
  /\ event' = [event EXCEPT ![c] = "set"]
  /\ UNCHANGED <<handle, pc, caller, outcome>>

-----------------------------------------------------------------------------
CallerNext(c) ==
  \/ CreateEvent(c) \/ Finish(c) \/ Issue(c) \/ IssueFails(c)
  \/ GetResult(c) \/ Advance(c) \/ EndOfVolume(c)

Next == \E c \in Caller : Call(c) \/ CallerNext(c) \/ Complete(c)

Spec == Init /\ [][Next]_vars

(* A thread inside read() runs on, and the kernel ends every request.  No  *)
(* fairness on Call: nobody has to read.                                   *)
Fairness ==
  \A c \in Caller : WF_vars(CallerNext(c)) /\ WF_vars(Complete(c))
FairSpec == Spec /\ Fairness
-----------------------------------------------------------------------------
TypeOK ==
  /\ handle \in BOOLEAN
  /\ pc \in [Caller -> {"idle", "create", "loop", "wait", "advance"}]
  /\ req \in [Caller -> Request]
  /\ offset \in [Caller -> Nat] /\ size \in [Caller -> 0..MaxSize]
  /\ pos \in [Caller -> 0..MaxSize] /\ read \in [Caller -> 0..MaxSize]
  /\ buf \in [Caller -> [Cell -> Nat \cup {Untouched}]]
  /\ ov \in [Caller -> Overlapped]
  /\ event \in [Caller -> {"none", "reset", "set"}]
  /\ io \in [Caller -> KernelRequest]
  /\ outcome \in [Caller -> {"none", "ok", "err"}]

(***************************************************************************)
(* No request outlives the call that issued it (mt_reader.cpp:158-163):    *)
(* while the kernel may still write, its caller waits in read() with its   *)
(* OVERLAPPED, event and buffer alive, and the cells the kernel may write  *)
(* are cells of that caller's buffer it has not been given yet.            *)
(***************************************************************************)
IoWithinCall ==
  \A c \in Caller : io[c].status = "queued" =>
    /\ pc[c] = "wait" /\ event[c] = "reset"
    /\ io[c].dest = pos[c]
    /\ io[c].dest + io[c].len = req[c].size

(***************************************************************************)
(* Each of the seven ways out of read() (mt_reader.cpp:133-186) closes the *)
(* event once it has been created: a caller outside read() owns none.      *)
(***************************************************************************)
NoEventLeak == \A c \in Caller : (event[c] # "none") <=>
                 pc[c] \in {"loop", "wait", "advance"}

(***************************************************************************)
(* Every read ends, also when each ReadFile brings less than was asked and *)
(* when the volume ends in the middle of the request.                      *)
(***************************************************************************)
ReadEnds == \A c \in Caller : pc[c] = "create" ~> pc[c] = "idle"

(***************************************************************************)
(* read() implements an atomic read of the volume, whatever the other      *)
(* threads do on the shared handle.                                        *)
(***************************************************************************)
asked == [c \in Caller |-> pc[c] # "idle"]
answer ==
  [c \in Caller |->
     [status |-> outcome[c],
      data   |-> [i \in (IF outcome[c] = "ok" THEN 0..(req[c].size - 1)
                         ELSE {}) |-> buf[c][i]]]]
Abstract == INSTANCE BlockRead WITH
  asked <- asked, req <- req, answer <- answer
ImplementsBlockRead == Abstract!Spec

-----------------------------------------------------------------------------
(***************************************************************************)
(* The inductive invariant behind these properties: what the loop of one   *)
(* call knows of the part of the buffer it has been given.                 *)
(***************************************************************************)
(* The first n cells of c's buffer hold what was asked for. *)
Good(c, n) ==
  \A i \in 0..(n - 1) : /\ buf[c][i] = req[c].offset + i
                        /\ req[c].offset + i < DiskSize

LoopInv(c) ==
  pc[c] # "idle" =>
    /\ offset[c] = req[c].offset + pos[c]
    /\ size[c] = req[c].size - pos[c]
    /\ Good(c, pos[c])

IoInv(c) ==
  /\ io[c].status = "queued" => pc[c] = "wait"
  /\ pc[c] = "wait" =>
       /\ io[c].at = offset[c] /\ io[c].dest = pos[c] /\ io[c].len = size[c]
       /\ io[c].status # "none"
       /\ event[c] = IF io[c].status = "queued" THEN "reset" ELSE "set"
       /\ io[c].status = "done" =>
            /\ ov[c].InternalHigh <= size[c]
            /\ Good(c, pos[c] + ov[c].InternalHigh)

ReturnInv(c) ==
  /\ pc[c] = "advance" =>
       read[c] <= size[c] /\ Good(c, pos[c] + read[c])
  /\ outcome[c] = "ok" => Good(c, req[c].size)
  /\ outcome[c] # "none" => pc[c] = "idle"

Inductive ==
  /\ NoEventLeak
  /\ \A c \in Caller : LoopInv(c) /\ IoInv(c) /\ ReturnInv(c)
=============================================================================
