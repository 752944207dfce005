----------------------------- MODULE SeekReader -----------------------------
(***************************************************************************)
(* Reader, the single-threaded reader of a volume: a handle whose position *)
(* the kernel keeps, and a copy of that position in the object, by which   *)
(* seek() decides whether it has to tell the kernel at all.  Positions are *)
(* relative to the volume's offset and count units.  Each operator gives   *)
(* the set of things that can happen, as the state of the reader after the *)
(* call and what the call returned.                                        *)
(***************************************************************************)
EXTENDS Integers, Sequences

CONSTANT BootRecord  \* the units of the boot record (512 bytes)

ASSUME BootAssumption == BootRecord \in Nat \ {0}

Reader == [open : BOOLEAN, position : Nat, pointer : Nat]

Closed == [open |-> FALSE, position |-> 0, pointer |-> 0]

(* Unit p of the volume is named by its position. *)
UnitsAt(p, n) == [i \in 1..n |-> p + i - 1]

(* The constructor's seek(0) does nothing, and its ReadFile of the boot    *)
(* record is not entered in _current_position.                             *)
Constructed ==
  {Closed, [open |-> TRUE, position |-> 0, pointer |-> BootRecord]}

X_SeekAlwaysSkips(rd, p) ==
  (* Bug: the copy of the position is set before the kernel is asked. *)
  IF rd.position = p THEN {[ok |-> TRUE, rd |-> rd]}
  ELSE IF ~rd.open THEN {[ok |-> FALSE, rd |-> rd]}
  ELSE {[ok |-> TRUE, rd |-> [rd EXCEPT !.position = p, !.pointer = p]],
        [ok |-> FALSE, rd |-> [rd EXCEPT !.position = p]]}

(* seek(): nothing is done when the copy is p already, whether or not the  *)
(* handle is good; SetFilePointerEx may fail, and moves nothing then.      *)
Seek(rd, p) ==
  IF rd.position = p THEN {[ok |-> TRUE, rd |-> rd]}
  ELSE IF ~rd.open THEN {[ok |-> FALSE, rd |-> rd]}
  ELSE {[ok |-> TRUE, rd |-> [rd EXCEPT !.position = p, !.pointer = p]],
        [ok |-> FALSE, rd |-> rd]}

(* read() of n units from wherever the kernel's position is. *)
Read(rd, n) ==
  {[ok |-> FALSE, rd |-> rd, data |-> <<>>]} \cup
  (IF ~rd.open THEN {}
   ELSE {[ok |-> TRUE, data |-> UnitsAt(rd.pointer, n),
          rd |-> [rd EXCEPT !.position = @ + n, !.pointer = @ + n]]})

(* The copy is the kernel's position. *)
Coherent(rd) == rd.position = rd.pointer
=============================================================================
