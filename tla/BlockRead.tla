----------------------------- MODULE BlockRead ------------------------------
(***************************************************************************)
(* What a read of a volume promises its callers, many threads on one       *)
(* handle: in one step it either hands back exactly the blocks that were   *)
(* asked for or an error; a read that leaves the volume is an error.  A    *)
(* block is named by its position, so the data of a correct read of n      *)
(* blocks at o is o, o + 1, ..., o + n - 1.                                *)
(***************************************************************************)
EXTENDS Integers, FiniteSets

CONSTANTS
  Caller,            \* the threads that share the reader
  DiskSize,          \* the blocks of the volume
  MaxSize,           \* the most a caller asks for
  Offset             \* the offsets callers ask for

Request == [offset : Offset, size : 0..MaxSize]

VARIABLES
  asked,             \* is caller c inside read()?
  req,               \* the arguments of its latest call
  answer             \* what its latest call returned, if it has

vars == <<asked, req, answer>>

NoData == [i \in {} |-> 0]
Pending == [status |-> "none", data |-> NoData]
Error   == [status |-> "err", data |-> NoData]
Data(r) == [status |-> "ok",
            data   |-> [i \in 0..(r.size - 1) |-> r.offset + i]]

Init ==
  /\ asked = [c \in Caller |-> FALSE]
  /\ req \in [Caller -> Request]
  /\ answer = [c \in Caller |-> Pending]

Call(c) ==
  /\ ~asked[c]
  /\ asked' = [asked EXCEPT ![c] = TRUE]
  /\ \E r \in Request : req' = [req EXCEPT ![c] = r]
  /\ answer' = [answer EXCEPT ![c] = Pending]

Return(c, a) ==
  /\ asked[c]
  /\ asked' = [asked EXCEPT ![c] = FALSE]
  /\ answer' = [answer EXCEPT ![c] = a]
  /\ UNCHANGED req

Succeed(c) ==
  /\ \A i \in 0..(req[c].size - 1) : req[c].offset + i < DiskSize
  /\ Return(c, Data(req[c]))

Fail(c) == Return(c, Error)

Next == \E c \in Caller : Call(c) \/ Succeed(c) \/ Fail(c)

Spec == Init /\ [][Next]_vars
=============================================================================
