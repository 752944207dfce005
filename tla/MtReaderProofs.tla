--------------------------- MODULE MtReaderProofs ---------------------------
(***************************************************************************)
(* For every volume, request size and number of threads: the safety of     *)
(* mt_reader::read(), and that it implements an atomic read.               *)
(***************************************************************************)
EXTENDS MtReader, TLAPS

(* An offset survives being split into two halves and joined again. *)
LEMMA Halves ==
  ASSUME NEW n \in 0..(Dword * Dword - 1)
  PROVE  /\ LowHalf(n) \in 0..(Dword - 1)
         /\ HighHalf(n) \in Nat
         /\ HighHalf(n) * Dword + LowHalf(n) = n
BY ReaderAssumption DEF LowHalf, HighHalf

LEMMA NoWrap ==
  ASSUME NEW n \in Nat, n <= DiskSize
  PROVE  n % (Dword * Dword) = n /\ n \in 0..(Dword * Dword - 1)
<1>1. Dword * Dword \in Nat \ {0}
  BY ReaderAssumption
<1>2. n < Dword * Dword
  BY <1>1, ReaderAssumption
<1> QED
  BY <1>1, <1>2

LEMMA Requests ==
  ASSUME NEW r \in Request
  PROVE  /\ r.offset \in Nat /\ r.offset \in 0..(Dword * Dword - 1)
         /\ r.size \in 0..MaxSize /\ MaxSize \in Nat
<1>1. Dword * Dword \in Nat \ {0}
  BY ReaderAssumption
<1>2. r.offset \in 0..(Dword * Dword - 1) /\ r.size \in 0..MaxSize
  BY ReaderAssumption DEF Request
<1> QED
  BY <1>1, <1>2, ReaderAssumption

-----------------------------------------------------------------------------
(* An offset in range: where the caller's loop is. *)
OffsetInv ==
  \A c \in Caller : offset[c] \in 0..(Dword * Dword - 1)

(* The records of a call. *)
LEMMA SplitType ==
  ASSUME NEW o \in Overlapped, NEW f \in 0..(Dword * Dword - 1)
  PROVE  /\ [Offset |-> LowHalf(f), OffsetHigh |-> HighHalf(f),
             InternalHigh |-> o.InternalHigh] \in Overlapped
         /\ Joined([Offset |-> LowHalf(f), OffsetHigh |-> HighHalf(f),
                    InternalHigh |-> o.InternalHigh]) = f
BY Halves DEF Overlapped, Joined

LEMMA OverlappedType ==
  ASSUME NEW o \in Overlapped, NEW n \in 0..MaxSize
  PROVE  /\ o.InternalHigh \in 0..MaxSize
         /\ [o EXCEPT !.InternalHigh = n] \in Overlapped
         /\ [o EXCEPT !.InternalHigh = n].InternalHigh = n
BY DEF Overlapped

LEMMA RequestType ==
  ASSUME NEW r \in KernelRequest, NEW s \in {"done", "failed"}
  PROVE  /\ r.at \in Nat /\ r.dest \in 0..MaxSize /\ r.len \in 0..MaxSize
         /\ [r EXCEPT !.status = s] \in KernelRequest
         /\ [r EXCEPT !.status = s].status = s
         /\ [r EXCEPT !.status = s].at = r.at
         /\ [r EXCEPT !.status = s].dest = r.dest
         /\ [r EXCEPT !.status = s].len = r.len
BY DEF KernelRequest

LEMMA FilledType ==
  ASSUME NEW b \in [Cell -> Nat \cup {Untouched}],
         NEW r \in KernelRequest, NEW n \in Transfer(r)
  PROVE  /\ n \in 0..MaxSize /\ n <= r.len
         /\ n > 0 => r.at + n <= DiskSize
         /\ Filled(b, r, n) \in [Cell -> Nat \cup {Untouched}]
         /\ \A i \in Cell : Filled(b, r, n)[i] =
              IF r.dest <= i /\ i < r.dest + n THEN r.at + (i - r.dest) ELSE b[i]
<1>1. /\ MaxSize \in Nat /\ DiskSize \in Nat
      /\ r.at \in Nat /\ r.dest \in 0..MaxSize /\ r.len \in 0..MaxSize
  BY ReaderAssumption DEF KernelRequest
<1>2. n \in 0..MaxSize /\ n <= r.len /\ (n > 0 => r.at + n <= DiskSize)
  BY <1>1 DEF Transfer
<1>3. \A i \in Cell : r.dest <= i => r.at + (i - r.dest) \in Nat
  BY <1>1 DEF Cell
<1>4. DOMAIN b = Cell
  OBVIOUS
<1> QED
  BY <1>2, <1>3, <1>4 DEF Filled

(* What the kernel does when it ends the request of caller c. *)
LEMMA CompleteFacts ==
  ASSUME TypeOK, NEW c \in Caller, Complete(c)
  PROVE  /\ io[c].status = "queued" /\ io[c] \in KernelRequest
         /\ ov[c] \in Overlapped /\ event'[c] = "set"
         /\ \/ /\ io'[c] = [io[c] EXCEPT !.status = "failed"]
               /\ UNCHANGED <<buf, ov>>
            \/ \E n \in Transfer(io[c]) :
                 /\ buf' = [buf EXCEPT ![c] = Filled(buf[c], io[c], n)]
                 /\ ov' = [ov EXCEPT ![c] = [ov[c] EXCEPT !.InternalHigh = n]]
                 /\ io'[c] = [io[c] EXCEPT !.status = "done"]
         /\ io' = [io EXCEPT ![c] = io'[c]]
         /\ io'[c] \in KernelRequest
<1>1. io[c] \in KernelRequest /\ ov[c] \in Overlapped
  BY DEF TypeOK
<1>2. CASE io' = [io EXCEPT ![c].status = "failed"] /\ UNCHANGED <<buf, ov>>
  <2>1. io' = [io EXCEPT ![c] = [io[c] EXCEPT !.status = "failed"]]
    BY <1>2
  <2>2. io'[c] = [io[c] EXCEPT !.status = "failed"]
    BY <2>1 DEF TypeOK
  <2>3. io'[c] \in KernelRequest
    BY <1>1, <2>2, RequestType
  <2> QED
    BY <1>1, <1>2, <2>1, <2>2, <2>3 DEF Complete, TypeOK
<1>3. ASSUME NEW n \in Transfer(io[c]),
             buf' = [buf EXCEPT ![c] = Filled(@, io[c], n)],
             ov' = [ov EXCEPT ![c].InternalHigh = n],
             io' = [io EXCEPT ![c].status = "done"]
      PROVE  /\ buf' = [buf EXCEPT ![c] = Filled(buf[c], io[c], n)]
             /\ ov' = [ov EXCEPT ![c] = [ov[c] EXCEPT !.InternalHigh = n]]
             /\ io'[c] = [io[c] EXCEPT !.status = "done"]
             /\ io' = [io EXCEPT ![c] = io'[c]]
             /\ io'[c] \in KernelRequest
  <2>1. io' = [io EXCEPT ![c] = [io[c] EXCEPT !.status = "done"]]
    BY <1>3
  <2>2. io'[c] = [io[c] EXCEPT !.status = "done"]
    BY <2>1 DEF TypeOK
  <2>3. io'[c] \in KernelRequest
    BY <1>1, <2>2, RequestType
  <2> QED
    BY <1>3, <2>1, <2>2, <2>3
<1> QED
  BY <1>1, <1>2, <1>3 DEF Complete, TypeOK

-----------------------------------------------------------------------------
(* Every step keeps the types of the variables. *)
LEMMA TypeStep ==
  TypeOK /\ Inductive /\ OffsetInv /\ [Next]_vars => TypeOK'
<1> SUFFICES ASSUME TypeOK, Inductive, OffsetInv, [Next]_vars
             PROVE  TypeOK'
  OBVIOUS
<1> USE DEF TypeOK, caller, Goto, At, Return
<1>0. MaxSize \in Nat /\ DiskSize \in Nat /\ Dword \in Nat \ {0}
  BY ReaderAssumption
<1>1. ASSUME NEW c \in Caller, Call(c)
      PROVE  TypeOK'
  <2>1. /\ [Offset |-> 0, OffsetHigh |-> 0, InternalHigh |-> 0] \in Overlapped
        /\ Blank \in [Cell -> Nat \cup {Untouched}]
    BY <1>0 DEF Overlapped, Blank
  <2> QED
    BY <1>0, <1>1, <2>1, Requests DEF Call
<1>2. ASSUME NEW c \in Caller,
             CreateEvent(c) \/ Finish(c) \/ EndOfVolume(c)
      PROVE  TypeOK'
  BY <1>2 DEF CreateEvent, Finish, EndOfVolume
<1>3. ASSUME NEW c \in Caller, GetResult(c)
      PROVE  TypeOK'
  <2>1. ov[c].InternalHigh \in 0..MaxSize
    BY DEF Overlapped
  <2> QED
    BY <1>3, <2>1 DEF GetResult
<1>4. ASSUME NEW c \in Caller, Issue(c)
      PROVE  TypeOK'
  <2>1. 0 \in 0..MaxSize /\ offset[c] \in 0..(Dword * Dword - 1)
    BY <1>0 DEF OffsetInv
  <2>2. ov' \in [Caller -> Overlapped] /\ Joined(ov'[c]) = offset[c]
    BY <1>4, <2>1, SplitType DEF Issue, SetOffset
  <2>3. [status |-> "queued", at |-> Joined(ov'[c]), dest |-> pos[c],
         len |-> size[c]] \in KernelRequest
    BY <2>2 DEF KernelRequest
  <2>4. io' \in [Caller -> KernelRequest]
    BY <1>4, <2>3 DEF Issue
  <2> QED
    BY <1>4, <2>1, <2>2, <2>4 DEF Issue
<1>5. ASSUME NEW c \in Caller, IssueFails(c)
      PROVE  TypeOK'
  <2>1. 0 \in 0..MaxSize /\ offset[c] \in 0..(Dword * Dword - 1)
    BY <1>0 DEF OffsetInv
  <2>2. ov' \in [Caller -> Overlapped]
    BY <1>5, <2>1, SplitType DEF IssueFails, SetOffset
  <2> QED
    BY <1>5, <2>1, <2>2 DEF IssueFails
<1>6. ASSUME NEW c \in Caller, Advance(c)
      PROVE  TypeOK'
  <2>1. /\ read[c] \in Nat /\ size[c] \in Nat /\ pos[c] \in Nat
        /\ read[c] <= size[c] /\ size[c] = req[c].size - pos[c]
        /\ req[c].size \in 0..MaxSize
    BY <1>0, <1>6, Requests DEF Advance, Inductive, ReturnInv, LoopInv
  <2>2. size[c] - read[c] \in 0..MaxSize /\ pos[c] + read[c] \in 0..MaxSize
    BY <1>0, <2>1
  <2>3. (offset[c] + read[c]) % (Dword * Dword) \in Nat
    <3>1. Dword * Dword \in Nat \ {0}
      BY <1>0
    <3> QED
      BY <3>1, <2>1
  <2> QED
    BY <1>6, <2>2, <2>3 DEF Advance
<1>7. ASSUME NEW c \in Caller, Complete(c)
      PROVE  TypeOK'
  <2>1. ov[c] \in Overlapped /\ io[c] \in KernelRequest
    OBVIOUS
  <2>2. io' \in [Caller -> KernelRequest]
    BY <1>7, CompleteFacts
  <2>3. CASE UNCHANGED <<buf, ov>>
    BY <1>7, <2>2, <2>3 DEF Complete
  <2>4. ASSUME NEW n \in Transfer(io[c]),
               buf' = [buf EXCEPT ![c] = Filled(buf[c], io[c], n)],
               ov' = [ov EXCEPT ![c] = [ov[c] EXCEPT !.InternalHigh = n]]
        PROVE  TypeOK'
    <3>1. buf[c] \in [Cell -> Nat \cup {Untouched}]
      OBVIOUS
    <3>2. /\ n \in 0..MaxSize
          /\ Filled(buf[c], io[c], n) \in [Cell -> Nat \cup {Untouched}]
      BY <2>1, <3>1, FilledType
    <3>3. [ov[c] EXCEPT !.InternalHigh = n] \in Overlapped
      BY <2>1, <3>2, OverlappedType
    <3>4. buf' \in [Caller -> [Cell -> Nat \cup {Untouched}]]
      BY <2>4, <3>2
    <3>5. ov' \in [Caller -> Overlapped]
      BY <2>4, <3>3
    <3> QED
      BY <1>7, <2>2, <3>4, <3>5 DEF Complete
  <2> QED
    BY <1>7, <2>3, <2>4, CompleteFacts
<1>8. CASE UNCHANGED vars
  BY <1>8 DEF vars
<1> QED
  BY <1>1, <1>2, <1>3, <1>4, <1>5, <1>6, <1>7, <1>8 DEF Next, CallerNext

-----------------------------------------------------------------------------
(* What Inductive says of one caller. *)
CallInv(c) ==
  /\ (event[c] # "none") <=> pc[c] \in {"loop", "wait", "advance"}
  /\ LoopInv(c) /\ IoInv(c) /\ ReturnInv(c)

LEMMA InductiveParts == Inductive <=> \A c \in Caller : CallInv(c)
BY DEF Inductive, NoEventLeak, CallInv

(* The variables of caller c, as it sees them. *)
Mine(c) == <<pc[c], req[c], offset[c], size[c], pos[c], read[c], buf[c],
             ov[c], event[c], io[c], outcome[c]>>

(* The threads share the handle, and nothing that read() keeps. *)
LEMMA Apart ==
  ASSUME TypeOK, NEW c \in Caller,
         Call(c) \/ CallerNext(c) \/ Complete(c)
  PROVE  \A d \in Caller \ {c} : Mine(d)' = Mine(d)
<1> USE DEF TypeOK, caller, Goto, Return, Mine
<1>1. CASE Call(c) \/ CreateEvent(c) \/ Finish(c)
  BY <1>1 DEF Call, CreateEvent, Finish
<1>2. CASE Issue(c) \/ IssueFails(c)
  BY <1>2 DEF Issue, IssueFails, SetOffset
<1>3. CASE GetResult(c) \/ Advance(c) \/ EndOfVolume(c)
  BY <1>3 DEF GetResult, Advance, EndOfVolume
<1>4. CASE Complete(c)
  BY <1>4 DEF Complete
<1> QED
  BY <1>1, <1>2, <1>3, <1>4 DEF CallerNext

LEMMA Kept ==
  ASSUME NEW d \in Caller, CallInv(d), Mine(d)' = Mine(d)
  PROVE  CallInv(d)'
BY DEF CallInv, LoopInv, IoInv, ReturnInv, Good, Mine

(* The numbers of a call in progress. *)
LEMMA Numbers ==
  ASSUME TypeOK, NEW c \in Caller, LoopInv(c), pc[c] # "idle"
  PROVE  /\ pos[c] \in Nat /\ size[c] \in Nat /\ req[c].size \in Nat
         /\ req[c].offset \in Nat /\ req[c].size <= MaxSize
         /\ req[c].size = pos[c] + size[c]
         /\ size[c] = 0 => req[c].size = pos[c]
<1>1. /\ req[c].size \in 0..MaxSize /\ pos[c] \in 0..MaxSize
      /\ size[c] \in 0..MaxSize /\ req[c].offset \in Nat /\ MaxSize \in Nat
  BY Requests DEF TypeOK
<1>2. size[c] = req[c].size - pos[c]
  BY DEF LoopInv
<1> QED
  BY <1>1, <1>2

LEMMA ReturnStep ==
  ASSUME TypeOK, NEW c \in Caller, CallInv(c),
         CreateEvent(c) \/ Finish(c) \/ IssueFails(c) \/ EndOfVolume(c)
  PROVE  CallInv(c)'
<1> USE DEF CallInv, LoopInv, IoInv, ReturnInv, Good, At, Goto, Return, caller,
            TypeOK
<1>1. CASE CreateEvent(c)
  BY <1>1 DEF CreateEvent
<1>2. CASE Finish(c)
  <2>1. req[c].size = pos[c]
    BY <1>2, Numbers DEF Finish
  <2> QED
    BY <1>2, <2>1 DEF Finish
<1>3. CASE IssueFails(c)
  BY <1>3 DEF IssueFails
<1>4. CASE EndOfVolume(c)
  BY <1>4 DEF EndOfVolume
<1> QED
  BY <1>1, <1>2, <1>3, <1>4

LEMMA CallStep ==
  ASSUME TypeOK, NEW c \in Caller, CallInv(c), Call(c)
  PROVE  CallInv(c)'
<1>1. PICK r \in Request :
        /\ req'[c] = r /\ offset'[c] = r.offset /\ size'[c] = r.size
        /\ pos'[c] = 0 /\ pc'[c] = "create" /\ outcome'[c] = "none"
        /\ pc[c] = "idle" /\ event' = event /\ io' = io
  BY DEF Call, TypeOK, Goto, At
<1>2. r.offset \in Nat /\ r.size \in Nat
  BY Requests
<1>3. r.offset = r.offset + 0 /\ r.size = r.size - 0
  BY <1>2
<1> QED
  BY <1>1, <1>3 DEF CallInv, LoopInv, IoInv, ReturnInv, Good

LEMMA IssueStep ==
  ASSUME TypeOK, OffsetInv, NEW c \in Caller, CallInv(c), Issue(c)
  PROVE  CallInv(c)'
<1>1. /\ ov[c] \in Overlapped /\ offset[c] \in 0..(Dword * Dword - 1)
      /\ ov'[c] = [Offset |-> LowHalf(offset[c]),
                   OffsetHigh |-> HighHalf(offset[c]),
                   InternalHigh |-> ov[c].InternalHigh]
  BY DEF TypeOK, OffsetInv, Issue, SetOffset
<1>2. Joined(ov'[c]) = offset[c]
  BY <1>1, SplitType
<1>3. /\ io'[c].status = "queued" /\ io'[c].at = offset[c]
      /\ io'[c].dest = pos[c] /\ io'[c].len = size[c]
      /\ pc[c] = "loop" /\ pc'[c] = "wait" /\ event'[c] = "reset"
      /\ UNCHANGED <<req, offset, size, pos, buf, outcome>>
  BY <1>2 DEF Issue, TypeOK, Goto, At
<1> QED
  BY <1>3 DEF CallInv, LoopInv, IoInv, ReturnInv, Good

LEMMA GetResultStep ==
  ASSUME TypeOK, NEW c \in Caller, CallInv(c), GetResult(c)
  PROVE  CallInv(c)'
<1>1. /\ pc[c] = "wait" /\ io[c].status \in {"done", "failed"}
      /\ UNCHANGED <<req, offset, size, pos, buf, ov, io>>
  BY DEF GetResult, At, CallInv, IoInv, TypeOK, KernelRequest
<1>2. CASE io[c].status = "failed"
  <2>1. pc'[c] = "idle" /\ event'[c] = "none" /\ outcome'[c] = "err"
    BY <1>2 DEF GetResult, Return, Goto, TypeOK
  <2> QED
    BY <1>1, <1>2, <2>1 DEF CallInv, LoopInv, IoInv, ReturnInv
<1>3. CASE io[c].status = "done"
  <2>1. /\ pc'[c] = "advance" /\ UNCHANGED <<event, outcome>>
        /\ read'[c] = ov[c].InternalHigh
    BY <1>3 DEF GetResult, Goto, TypeOK
  <2> QED
    BY <1>1, <1>3, <2>1 DEF CallInv, LoopInv, IoInv, ReturnInv, Good
<1> QED
  BY <1>1, <1>2, <1>3

LEMMA AdvanceStep ==
  ASSUME TypeOK, NEW c \in Caller, CallInv(c), Advance(c)
  PROVE  CallInv(c)'
<1>1. /\ pc[c] = "advance" /\ read[c] # 0 /\ pc'[c] = "loop"
      /\ offset'[c] = (offset[c] + read[c]) % (Dword * Dword)
      /\ size'[c] = size[c] - read[c] /\ pos'[c] = pos[c] + read[c]
      /\ UNCHANGED <<req, read, buf, ov, event, io, outcome>>
  BY DEF Advance, At, Goto, TypeOK
<1>2. /\ pos[c] \in Nat /\ size[c] \in Nat /\ req[c].size \in Nat
      /\ req[c].offset \in Nat /\ req[c].size = pos[c] + size[c]
      /\ offset[c] = req[c].offset + pos[c]
  BY <1>1, Numbers DEF CallInv, LoopInv
<1>3. read[c] \in Nat /\ read[c] > 0 /\ read[c] <= size[c]
  BY <1>1, <1>2, ReaderAssumption DEF CallInv, ReturnInv, TypeOK
<1>4. Good(c, pos[c] + read[c])
  BY <1>1 DEF CallInv, ReturnInv
<1>5. offset[c] + read[c] <= DiskSize /\ offset[c] + read[c] \in Nat
  <2>1. PICK i \in 0..(pos[c] + read[c] - 1) : i = pos[c] + read[c] - 1
    BY <1>2, <1>3
  <2>2. req[c].offset + i < DiskSize
    BY <1>2, <1>3, <1>4 DEF Good
  <2> QED
    BY <1>2, <1>3, <2>1, <2>2, ReaderAssumption
<1>6. offset'[c] = req[c].offset + (pos[c] + read[c])
  BY <1>1, <1>2, <1>3, <1>5, NoWrap
<1>7. size'[c] = req[c].size - (pos[c] + read[c])
  BY <1>1, <1>2, <1>3
<1>8. outcome[c] = "none" /\ io[c].status # "queued"
  BY <1>1 DEF CallInv, ReturnInv, IoInv, TypeOK
<1> QED
  BY <1>1, <1>4, <1>6, <1>7, <1>8
     DEF CallInv, LoopInv, IoInv, ReturnInv, Good

LEMMA CompleteStep ==
  ASSUME TypeOK, NEW c \in Caller, CallInv(c), Complete(c)
  PROVE  CallInv(c)'
<1>1. /\ io[c].status = "queued" /\ pc[c] = "wait"
      /\ io[c].at = offset[c] /\ io[c].dest = pos[c] /\ io[c].len = size[c]
      /\ io[c] \in KernelRequest /\ ov[c] \in Overlapped
      /\ event'[c] = "set" /\ outcome[c] = "none"
      /\ UNCHANGED <<pc, req, offset, size, pos, read, outcome>>
  BY CompleteFacts DEF CallInv, IoInv, ReturnInv, Complete, caller, TypeOK
<1>2. CASE io'[c] = [io[c] EXCEPT !.status = "failed"] /\ UNCHANGED <<buf, ov>>
  <2>1. /\ io'[c].status = "failed" /\ io'[c].at = io[c].at
        /\ io'[c].dest = io[c].dest /\ io'[c].len = io[c].len
    BY <1>1, <1>2, RequestType
  <2> QED
    BY <1>1, <1>2, <2>1 DEF CallInv, LoopInv, IoInv, ReturnInv, Good
<1>3. ASSUME NEW n \in Transfer(io[c]),
             buf' = [buf EXCEPT ![c] = Filled(buf[c], io[c], n)],
             ov' = [ov EXCEPT ![c] = [ov[c] EXCEPT !.InternalHigh = n]],
             io'[c] = [io[c] EXCEPT !.status = "done"]
      PROVE  CallInv(c)'
  <2>1. /\ io'[c].status = "done" /\ io'[c].at = io[c].at
        /\ io'[c].dest = io[c].dest /\ io'[c].len = io[c].len
    BY <1>1, <1>3, RequestType
  <2>2. buf[c] \in [Cell -> Nat \cup {Untouched}]
    BY DEF TypeOK
  <2>3. /\ n \in 0..MaxSize /\ n <= size[c]
        /\ n > 0 => offset[c] + n <= DiskSize
        /\ \A i \in Cell : Filled(buf[c], io[c], n)[i] =
             IF pos[c] <= i /\ i < pos[c] + n THEN offset[c] + (i - pos[c])
             ELSE buf[c][i]
    BY <1>1, <2>2, FilledType
  <2>4. ov'[c].InternalHigh = n /\ buf'[c] = Filled(buf[c], io[c], n)
    <3>1. /\ ov'[c] = [ov[c] EXCEPT !.InternalHigh = n]
          /\ buf'[c] = Filled(buf[c], io[c], n)
      BY <1>3 DEF TypeOK
    <3> QED
      BY <1>1, <2>3, <3>1, OverlappedType
  <2>5. /\ pos[c] \in Nat /\ size[c] \in Nat /\ req[c].offset \in Nat
        /\ pos[c] + size[c] <= MaxSize /\ MaxSize \in Nat /\ DiskSize \in Nat
        /\ offset[c] = req[c].offset + pos[c] /\ Good(c, pos[c])
    BY <1>1, Numbers, ReaderAssumption DEF CallInv, LoopInv
  <2>6. ASSUME NEW i \in 0..(pos[c] + n - 1)
        PROVE  /\ buf'[c][i] = req[c].offset + i
               /\ req[c].offset + i < DiskSize
    <3>1. i \in Cell /\ i \in Nat
      BY <2>3, <2>5 DEF Cell
    <3>2. CASE i < pos[c]
      <4>1. i \in 0..(pos[c] - 1)
        BY <2>5, <3>1, <3>2
      <4>2. buf[c][i] = req[c].offset + i /\ req[c].offset + i < DiskSize
        BY <2>5, <4>1 DEF Good
      <4>3. ~(pos[c] <= i)
        BY <2>5, <3>1, <3>2
      <4> QED
        BY <2>3, <2>4, <3>1, <4>2, <4>3
    <3>3. CASE pos[c] <= i
      <4>1. i < pos[c] + n /\ n > 0
        BY <2>3, <2>5, <3>1, <3>3
      <4>2. buf'[c][i] = offset[c] + (i - pos[c])
        BY <2>3, <2>4, <3>1, <3>3, <4>1
      <4> QED
        BY <2>3, <2>5, <3>1, <4>1, <4>2
    <3> QED
      BY <2>5, <3>1, <3>2, <3>3
  <2>7. Good(c, pos[c])' /\ Good(c, pos[c] + ov[c].InternalHigh)'
    <3>1. \A i \in 0..(pos[c] - 1) : i \in 0..(pos[c] + n - 1)
      BY <2>3, <2>5
    <3>2. /\ req'[c] = req[c] /\ pos'[c] = pos[c]
          /\ pos'[c] + ov'[c].InternalHigh = pos[c] + n
      BY <1>1, <2>4
    <3> QED
      BY <2>3, <2>5, <2>6, <3>1, <3>2 DEF Good
  <2> QED
    BY <1>1, <2>1, <2>3, <2>4, <2>7 DEF CallInv, LoopInv, IoInv, ReturnInv
<1> QED
  BY <1>2, <1>3, CompleteFacts

-----------------------------------------------------------------------------
LEMMA OffsetStep == TypeOK /\ OffsetInv /\ [Next]_vars => OffsetInv'
<1> SUFFICES ASSUME TypeOK, OffsetInv, [Next]_vars
             PROVE  OffsetInv'
  OBVIOUS
<1>1. ASSUME NEW c \in Caller, Call(c)
      PROVE  OffsetInv'
  BY <1>1, Requests DEF Call, OffsetInv, TypeOK
<1>2. ASSUME NEW c \in Caller, Advance(c)
      PROVE  OffsetInv'
  <2>1. Dword * Dword \in Nat \ {0} /\ offset[c] + read[c] \in Nat
    BY ReaderAssumption DEF TypeOK
  <2>2. (offset[c] + read[c]) % (Dword * Dword) \in 0..(Dword * Dword - 1)
    BY <2>1
  <2> QED
    BY <1>2, <2>2 DEF Advance, OffsetInv, TypeOK
<1>3. CASE UNCHANGED offset
  BY <1>3 DEF OffsetInv
<1> QED
  BY <1>1, <1>2, <1>3 DEF Next, CallerNext, CreateEvent, Finish, Issue,
     IssueFails, GetResult, EndOfVolume, Complete, caller, vars

LEMMA InductiveStep ==
  TypeOK /\ OffsetInv /\ Inductive /\ [Next]_vars => Inductive'
<1> SUFFICES ASSUME TypeOK, OffsetInv, Inductive, [Next]_vars
             PROVE  \A d \in Caller : CallInv(d)'
  BY DEF Inductive, NoEventLeak, CallInv
<1>1. \A d \in Caller : CallInv(d)
  BY InductiveParts
<1>2. ASSUME NEW c \in Caller, Call(c) \/ CallerNext(c) \/ Complete(c)
      PROVE  \A d \in Caller : CallInv(d)'
  <2>1. CallInv(c)'
    BY <1>1, <1>2, CallStep, ReturnStep, IssueStep, GetResultStep,
       AdvanceStep, CompleteStep DEF CallerNext
  <2>2. \A d \in Caller \ {c} : CallInv(d)'
    BY <1>1, <1>2, Apart, Kept
  <2> QED
    BY <2>1, <2>2
<1>3. CASE UNCHANGED vars
  <2>1. \A d \in Caller : Mine(d)' = Mine(d)
    BY <1>3 DEF vars, caller, Mine
  <2> QED
    BY <1>1, <2>1, Kept
<1> QED
  BY <1>2, <1>3 DEF Next

Inv == TypeOK /\ OffsetInv /\ Inductive

LEMMA InvInit == Init => Inv
<1> SUFFICES ASSUME Init
             PROVE  Inv
  OBVIOUS
<1>1. MaxSize \in Nat /\ Dword \in Nat \ {0} /\ Dword * Dword \in Nat \ {0}
  BY ReaderAssumption
<1>2. /\ [Offset |-> 0, OffsetHigh |-> 0, InternalHigh |-> 0] \in Overlapped
      /\ NoIo \in KernelRequest
      /\ Blank \in [Cell -> Nat \cup {Untouched}]
  BY <1>1 DEF Overlapped, KernelRequest, NoIo, Blank
<1>3. TypeOK
  BY <1>1, <1>2 DEF Init, TypeOK
<1>4. OffsetInv
  BY <1>1 DEF Init, OffsetInv
<1>5. Inductive
  BY DEF Init, Inductive, NoEventLeak, LoopInv, IoInv, ReturnInv, NoIo
<1> QED
  BY <1>3, <1>4, <1>5 DEF Inv

LEMMA InvCorrect == Spec => []Inv
<1>1. Inv /\ [Next]_vars => Inv'
  BY TypeStep, OffsetStep, InductiveStep DEF Inv
<1> QED
  BY <1>1, InvInit, PTL DEF Spec

(* The type invariant of MtReader. *)
THEOREM TypeCorrect == Spec => []TypeOK
BY InvCorrect, PTL DEF Inv

(* No kernel request outlives the read() that issued it, and none writes    *)
(* outside the part of the buffer that is still missing.                    *)
THEOREM NoStrayIo == Spec => []IoWithinCall
<1>1. Inv => IoWithinCall
  <2> SUFFICES ASSUME Inv, NEW c \in Caller, io[c].status = "queued"
               PROVE  /\ pc[c] = "wait" /\ event[c] = "reset"
                      /\ io[c].dest = pos[c]
                      /\ io[c].dest + io[c].len = req[c].size
    BY DEF IoWithinCall
  <2>1. LoopInv(c) /\ IoInv(c) /\ TypeOK
    BY DEF Inv, Inductive
  <2>2. /\ pc[c] = "wait" /\ event[c] = "reset"
        /\ io[c].dest = pos[c] /\ io[c].len = size[c]
    BY <2>1 DEF IoInv
  <2> QED
    BY <2>1, <2>2, Numbers
<1> QED
  BY <1>1, InvCorrect, PTL

(* Every way out of read() closes the event it created. *)
THEOREM EventClosed == Spec => []NoEventLeak
BY InvCorrect, PTL DEF Inv, Inductive

-----------------------------------------------------------------------------
LEMMA AnswerFacts ==
  ASSUME NEW c \in Caller
  PROVE  /\ outcome[c] # "ok" =>
              answer[c] = [status |-> outcome[c], data |-> Abstract!NoData]
         /\ outcome[c] = "ok" =>
              answer[c] = [status |-> "ok", data |->
                             [i \in 0..(req[c].size - 1) |-> buf[c][i]]]
BY DEF answer, Abstract!NoData

(* A step of one caller that returns nothing and starts nothing. *)
LEMMA StutterStep ==
  ASSUME TypeOK, UNCHANGED <<req, outcome>>,
         \A d \in Caller : (pc'[d] = "idle") <=> (pc[d] = "idle"),
         \A d \in Caller : outcome[d] = "ok" => buf'[d] = buf[d]
  PROVE  UNCHANGED Abstract!vars
<1>1. asked' = asked
  BY DEF asked
<1>2. \A d \in Caller : answer'[d] = answer[d]
  BY DEF answer
<1>3. answer' = answer
  BY <1>2 DEF answer
<1> QED
  BY <1>1, <1>3 DEF Abstract!vars

(* A step of caller c that returns from read(). *)
LEMMA ReturnMaps ==
  ASSUME TypeOK, NEW c \in Caller, NEW s \in {"ok", "err"}, Return(c, s),
         pc[c] # "idle", UNCHANGED <<req, buf>>
  PROVE  Abstract!Return(c, answer'[c])
<1>1. asked[c] /\ asked' = [asked EXCEPT ![c] = FALSE]
  BY DEF asked, Return, Goto, TypeOK
<1>2. \A d \in Caller \ {c} : answer'[d] = answer[d]
  BY DEF answer, Return, TypeOK
<1>3. answer' = [answer EXCEPT ![c] = answer'[c]]
  BY <1>2 DEF answer
<1> QED
  BY <1>1, <1>3 DEF Abstract!Return

LEMMA RefinementStep == Inv /\ [Next]_vars => [Abstract!Next]_(Abstract!vars)
<1> SUFFICES ASSUME Inv, [Next]_vars
             PROVE  [Abstract!Next]_(Abstract!vars)
  OBVIOUS
<1>1. TypeOK /\ \A c \in Caller : CallInv(c)
  BY InductiveParts DEF Inv
<1>2. ASSUME NEW c \in Caller, Call(c)
      PROVE  Abstract!Call(c)
  <2>1. ~asked[c] /\ asked' = [asked EXCEPT ![c] = TRUE]
    BY <1>1, <1>2 DEF asked, Call, At, Goto, TypeOK
  <2>2. \E r \in Request : req' = [req EXCEPT ![c] = r]
    BY <1>2 DEF Call
  <2>3. answer'[c] = Abstract!Pending
    BY <1>1, <1>2 DEF answer, Abstract!Pending, Abstract!NoData, Call, TypeOK
  <2>4. \A d \in Caller \ {c} : answer'[d] = answer[d]
    <3>1. \A d \in Caller \ {c} : Mine(d)' = Mine(d)
      BY <1>1, <1>2, Apart
    <3> QED
      BY <3>1 DEF Mine, answer
  <2>5. answer' = [answer EXCEPT ![c] = Abstract!Pending]
    BY <2>3, <2>4 DEF answer
  <2> QED
    BY <2>1, <2>2, <2>5 DEF Abstract!Call, Abstract!Request, Request
<1>3. ASSUME NEW c \in Caller, Finish(c)
      PROVE  Abstract!Succeed(c)
  <2>1. Abstract!Return(c, answer'[c])
    BY <1>1, <1>3, ReturnMaps DEF Finish, At, caller
  <2>2. Good(c, req[c].size) /\ UNCHANGED <<req, buf>> /\ outcome'[c] = "ok"
    BY <1>1, <1>3, Numbers DEF CallInv, LoopInv, Finish, At, Return, caller, TypeOK
  <2>3. answer'[c] = Abstract!Data(req[c])
    BY <2>2 DEF answer, Abstract!Data, Good
  <2>4. \A i \in 0..(req[c].size - 1) : req[c].offset + i < DiskSize
    BY <2>2 DEF Good
  <2> QED
    BY <2>1, <2>3, <2>4 DEF Abstract!Succeed
<1>4. ASSUME NEW c \in Caller, Return(c, "err"), pc[c] # "idle",
             UNCHANGED <<req, buf>>
      PROVE  Abstract!Fail(c)
  <2>1. Abstract!Return(c, answer'[c])
    BY <1>1, <1>4, ReturnMaps
  <2>2. answer'[c] = Abstract!Error
    BY <1>1, <1>4 DEF answer, Abstract!Error, Abstract!NoData, Return, TypeOK
  <2> QED
    BY <2>1, <2>2 DEF Abstract!Fail
<1>5. ASSUME NEW c \in Caller, CallerNext(c), ~Finish(c)
      PROVE  Abstract!Fail(c) \/ UNCHANGED Abstract!vars
  <2>1. CASE CreateEvent(c) \/ IssueFails(c) \/ EndOfVolume(c) \/ GetResult(c)
    <3>1. CASE Return(c, "err")
      BY <1>4, <2>1, <3>1
         DEF CreateEvent, IssueFails, EndOfVolume, GetResult, At, caller
    <3>2. CASE ~Return(c, "err")
      BY <1>1, <2>1, <3>2, StutterStep
         DEF CreateEvent, IssueFails, EndOfVolume, GetResult, At, Goto, caller,
             TypeOK
    <3> QED
      BY <3>1, <3>2
  <2>2. CASE Issue(c) \/ Advance(c)
    BY <1>1, <2>2, StutterStep DEF Issue, Advance, At, Goto, TypeOK
  <2> QED
    BY <1>5, <2>1, <2>2 DEF CallerNext
<1>6. ASSUME NEW c \in Caller, Complete(c)
      PROVE  UNCHANGED Abstract!vars
  <2>1. outcome[c] # "ok"
    BY <1>1, <1>6 DEF Complete, CallInv, IoInv, ReturnInv
  <2>2. \A d \in Caller \ {c} : buf'[d] = buf[d]
    BY <1>1, <1>6, Apart DEF Mine
  <2> QED
    BY <1>1, <1>6, <2>1, <2>2, StutterStep DEF Complete, caller
<1>7. CASE UNCHANGED vars
  BY <1>1, <1>7, StutterStep DEF vars, caller
<1> QED
  BY <1>2, <1>3, <1>5, <1>6, <1>7 DEF Next, Abstract!Next

(* mt_reader::read() is an atomic read, for any number of threads, any      *)
(* volume and any order in which the kernel ends their requests.            *)
THEOREM Refinement == Spec => ImplementsBlockRead
<1>1. Init => Abstract!Init
  <2> SUFFICES ASSUME Init
               PROVE  Abstract!Init
    OBVIOUS
  <2>1. asked = [c \in Caller |-> FALSE]
    BY DEF Init, asked
  <2>2. answer = [c \in Caller |-> Abstract!Pending]
    BY DEF Init, answer, Abstract!Pending, Abstract!NoData
  <2> QED
    BY <2>1, <2>2 DEF Init, Abstract!Init, Abstract!Request, Request
<1> QED
  BY <1>1, InvCorrect, RefinementStep, PTL
     DEF Spec, ImplementsBlockRead, Abstract!Spec
=============================================================================
