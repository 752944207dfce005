------------------------------ MODULE FileRead ------------------------------
(***************************************************************************)
(* What a reader of a file hands its callers, whatever lies on the disk:   *)
(* as long as nothing has come between the parts of a stream, what has     *)
(* been delivered is the beginning of the file, and a stream that ends     *)
(* without having lost anything has delivered all of it.                   *)
(***************************************************************************)
EXTENDS Sequences, Integers

CONSTANT Client      \* the loops that consume a stream

VARIABLES
  file,              \* the contents of what client c reads
  out,               \* what it has been given so far
  trust,             \* has nothing disturbed the stream?
  phase              \* "idle", "reading", "complete" or "short"

vars == <<file, out, trust, phase>>

Init ==
  /\ file = [c \in Client |-> <<>>]
  /\ out = [c \in Client |-> <<>>]
  /\ trust = [c \in Client |-> FALSE]
  /\ phase = [c \in Client |-> "idle"]

(* Only c's stream moves; it may lose its trust, and cost others theirs. *)
OnlyOf(c, f, g) == f = [g EXCEPT ![c] = f[c]]
Falling == \A d \in Client : trust'[d] => trust[d]

(* Something is asked for, and given up at once or read. *)
Open(c) ==
  /\ phase[c] = "idle"
  /\ \E p \in {"reading", "short"} : phase' = [phase EXCEPT ![c] = p]
  /\ OnlyOf(c, file', file)
  /\ out' = out /\ out[c] = <<>>
  /\ \A d \in Client \ {c} : trust'[d] => trust[d]

(* More of the file is delivered, or, to a disturbed stream, anything. *)
Extends(s, t) == Len(s) < Len(t) /\ SubSeq(t, 1, Len(s)) = s
Deliver(c) ==
  /\ phase[c] = "reading"
  /\ OnlyOf(c, out', out) /\ Extends(out[c], out'[c])
  /\ trust'[c] => \E n \in 0..Len(file[c]) : out'[c] = SubSeq(file[c], 1, n)
  /\ Falling /\ UNCHANGED <<file, phase>>

(* The end, perhaps with the rest of the file. *)
Complete(c) ==
  /\ phase[c] = "reading"
  /\ OnlyOf(c, out', out)
  /\ trust'[c] => out'[c] = file[c]
  /\ phase' = [phase EXCEPT ![c] = "complete"]
  /\ Falling /\ UNCHANGED file

GiveUp(c) ==
  /\ phase[c] = "reading"
  /\ phase' = [phase EXCEPT ![c] = "short"]
  /\ OnlyOf(c, out', out)
  /\ trust'[c] => \E n \in 0..Len(file[c]) : out'[c] = SubSeq(file[c], 1, n)
  /\ Falling /\ UNCHANGED file

Disturb == Falling /\ UNCHANGED <<file, out, phase>>

Next ==
  \/ \E c \in Client : Open(c) \/ Deliver(c) \/ Complete(c) \/ GiveUp(c)
  \/ Disturb

Spec == Init /\ [][Next]_vars
=============================================================================
