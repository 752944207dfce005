------------------------------ MODULE DataRuns ------------------------------
(***************************************************************************)
(* read_dataruns(): the mapping pairs of a non-resident attribute, decoded *)
(* byte by byte.  A pair is a header (how many bytes of length, how many   *)
(* of offset), the length, and the signed distance of the run from the one *)
(* before it; a run without an offset is a hole.                           *)
(***************************************************************************)
EXTENDS Integers, Sequences, SequencesExt, FiniteSetsExt

CONSTANTS
  Base,              \* 256: the values of a byte
  MaxWidth,          \* the bytes NTFS uses for a length or an offset; of eight
                     \* the shift of line 671 would be undefined
  Layouts            \* what the attributes look like on the disk

Hole == -1
Layout == Seq([length : Nat \ {0}, lcn : Nat \cup {Hole}])

ASSUME RunsAssumption ==
  /\ Base \in Nat /\ Base >= 2 /\ Base % 2 = 0 /\ MaxWidth \in 1..7
  /\ Layouts \subseteq Layout

-----------------------------------------------------------------------------
(* How NTFS writes a layout: a header byte, and little-endian digits.      *)
Power(n) ==
  LET power[i \in 1..(MaxWidth + 1)] == IF i = 1 THEN 1 ELSE Base * power[i - 1]
  IN  power[n + 1]
Digits(v, w) == [i \in 1..w |-> (v \div Power(i - 1)) % Base]
Header(lengthLen, offsetLen) == 16 * offsetLen + lengthLen
RunsEnd == 0

(* The distance of run k from the last run before it that is no hole.      *)
Before(layout, k) ==
  LET placed == {j \in 1..(k - 1) : layout[j].lcn # Hole}
  IN  IF placed = {} THEN 0 ELSE layout[Max(placed)].lcn
Distance(layout, k) == layout[k].lcn - Before(layout, k)

(* The widths a run may be written with; 0 is the width of a hole's offset. *)
LengthFits(run, w) == run.length < Power(w)
OffsetFits(layout, k, w) ==
  IF layout[k].lcn = Hole THEN w = 0
  ELSE /\ w > 0
       /\ -(Power(w)) <= 2 * Distance(layout, k)
       /\ 2 * Distance(layout, k) < Power(w)
Widths(layout) ==
  {w \in [DOMAIN layout -> [length : 1..MaxWidth, offset : 0..MaxWidth]] :
     \A k \in DOMAIN layout : /\ LengthFits(layout[k], w[k].length)
                              /\ OffsetFits(layout, k, w[k].offset)}
Pair(layout, w, k) ==
  <<Header(w[k].length, w[k].offset)>>
    \o Digits(layout[k].length, w[k].length)
    \o Digits(Distance(layout, k) % Power(w[k].offset), w[k].offset)
Encoded(layout, w) ==
  FlattenSeq([k \in DOMAIN layout |-> Pair(layout, w, k)]) \o <<RunsEnd>>

-----------------------------------------------------------------------------
VARIABLES
  layout,            \* what the attribute is: the meaning of runList
  form,              \* "nonresident", "resident", or "null" for no attribute
  runList,           \* the bytes
  at,                \* the byte the pointer is at
  pc,                \* "check", "header", "length", "offset", "push" or "end"
  length_len, offset_len, i,
  length, offsetDiff, offset,
  result, outcome

input == <<layout, form, runList>>
run == <<length_len, offset_len, i, length, offsetDiff>>
vars == <<input, at, pc, run, offset, result, outcome>>

Init ==
  /\ layout \in Layouts
  /\ \E w \in Widths(layout) : runList = Encoded(layout, w)
  /\ form \in {"nonresident", "resident", "null"}
  /\ at = 1 /\ pc = "check"
  /\ length_len = 0 /\ offset_len = 0 /\ i = 0
  /\ length = 0 /\ offsetDiff = 0 /\ offset = 0
  /\ result = <<>> /\ outcome = "none"

Goto(p) == pc' = p
Return(o) == outcome' = o /\ Goto("end")

Check ==
  /\ pc = "check"
  /\ IF form = "nonresident" THEN Goto("header") /\ UNCHANGED outcome
                             ELSE Return("err")
  /\ UNCHANGED <<input, at, run, offset, result>>

(* Bug: the loops run to i <= length_len and i <= offset_len. *)
ReadHeader_Inclusive ==
  /\ pc = "header" /\ runList[at] # RunsEnd
  /\ offset_len' = (runList[at] \div 16) + 1
  /\ length_len' = (runList[at] % 16) + 1
  /\ at' = at + 1
  /\ length' = 0 /\ offsetDiff' = 0 /\ i' = 0
  /\ Goto("length")
  /\ UNCHANGED <<input, offset, result, outcome>>

ReadHeader ==
  /\ pc = "header" /\ runList[at] # RunsEnd
  /\ offset_len' = runList[at] \div 16
  /\ length_len' = runList[at] % 16
  /\ at' = at + 1
  /\ length' = 0 /\ offsetDiff' = 0 /\ i' = 0
  /\ Goto("length")
  /\ UNCHANGED <<input, offset, result, outcome>>

(* One round of either loop: the next byte is the next higher digit.       *)
ReadLength ==
  /\ pc = "length" /\ i < length_len
  /\ length' = length + runList[at] * Power(i)
  /\ at' = at + 1 /\ i' = i + 1
  /\ UNCHANGED <<input, pc, length_len, offset_len, offsetDiff, offset>>
  /\ UNCHANGED <<result, outcome>>

LengthDone ==
  /\ pc = "length" /\ i = length_len
  /\ i' = 0
  /\ Goto(IF offset_len # 0 THEN "offset" ELSE "push")
  /\ UNCHANGED <<input, at, length_len, offset_len, length, offsetDiff>>
  /\ UNCHANGED <<offset, result, outcome>>

ReadOffset ==
  /\ pc = "offset" /\ i < offset_len
  /\ offsetDiff' = offsetDiff + runList[at] * Power(i)
  /\ at' = at + 1 /\ i' = i + 1
  /\ UNCHANGED <<input, pc, length_len, offset_len, length, offset>>
  /\ UNCHANGED <<result, outcome>>

(* Bug: the smallest negative distance is taken for a positive one. *)
Signed_Late(v, w) == IF v > Power(w) \div 2 THEN v - Power(w) ELSE v

(* The distance is signed, and counts from the run before.                 *)
Signed(v, w) == IF v >= Power(w) \div 2 THEN v - Power(w) ELSE v
OffsetDone ==
  /\ pc = "offset" /\ i = offset_len
  /\ offset' = offset + Signed(offsetDiff, offset_len)
  /\ Goto("push")
  /\ UNCHANGED <<input, at, run, result, outcome>>

(* A hole is pushed with the offset of the run before it.                  *)
Push ==
  /\ pc = "push"
  /\ result' = Append(result, [offset |-> offset, length |-> length])
  /\ Goto("header")
  /\ UNCHANGED <<input, at, run, offset, outcome>>

(* Bug: an empty list is a result. *)
Finish_Empty ==
  /\ pc = "header" /\ runList[at] = RunsEnd
  /\ Return("ok")
  /\ UNCHANGED <<input, at, run, offset, result>>

Finish ==
  /\ pc = "header" /\ runList[at] = RunsEnd
  /\ Return(IF result = <<>> THEN "err" ELSE "ok")
  /\ UNCHANGED <<input, at, run, offset, result>>

Decode ==
  \/ Check \/ ReadHeader \/ ReadLength \/ LengthDone \/ ReadOffset
  \/ OffsetDone \/ Push \/ Finish

Next ==
  \/ Decode
  \/ pc = "end" /\ UNCHANGED vars

Spec == Init /\ [][Next]_vars
FairSpec == Spec /\ WF_vars(Next)
-----------------------------------------------------------------------------
(***************************************************************************)
(* Decoding undoes encoding, with any widths: a run's length and place are *)
(* those of the layout, forward and backward distances and distances that  *)
(* fill their bytes included (mt_ntfs_mft_record.cpp:645-683).             *)
(***************************************************************************)
DecodesLayout ==
  outcome = "ok" =>
    /\ form = "nonresident" /\ Len(result) = Len(layout)
    /\ \A k \in DOMAIN layout :
         /\ result[k].length = layout[k].length
         /\ layout[k].lcn # Hole => result[k].offset = layout[k].lcn

(***************************************************************************)
(* The pointer never leaves the mapping pairs: no byte behind the end mark *)
(* is read, though nothing but the mark stops the loop.                    *)
(***************************************************************************)
StaysInList == at <= Len(runList)

(***************************************************************************)
(* An error is answered for a resident or missing attribute and for an     *)
(* empty run list, and for nothing else; and every list is decoded.        *)
(***************************************************************************)
AlwaysAnswers ==
  <>(outcome = IF form = "nonresident" /\ layout # <<>> THEN "ok" ELSE "err")

(***************************************************************************)
(* The readers of the result take a run for a hole when its offset is 0    *)
(* (test/recover1.cpp:127-128, mt_ntfs_mft_record.hpp:91).  A hole that    *)
(* follows a run has that run's offset, and so this does not hold.         *)
(***************************************************************************)
HolesAreZero ==
  outcome = "ok" =>
    \A k \in DOMAIN layout : layout[k].lcn = Hole => result[k].offset = 0
=============================================================================
