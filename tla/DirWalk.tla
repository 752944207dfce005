------------------------------- MODULE DirWalk -------------------------------
(***************************************************************************)
(* What the backup walk promises, without threads: every link of the       *)
(* volume that a sequential walk would reach is counted exactly once, in   *)
(* any order, and the totals are reported only when none is left.  The     *)
(* process may fail at any moment before it reports.                       *)
(***************************************************************************)
EXTENDS NtfsTree

VARIABLES
  volume,            \* the volume of this run
  handled,           \* the links counted so far
  files, folders,    \* the two totals
  phase              \* "walking", "reported" or "failed"

vars == <<volume, handled, files, folders, phase>>

Init ==
  /\ volume \in Volumes
  /\ handled = {}
  /\ files = 0 /\ folders = 0
  /\ phase = "walking"

CountFile(l) ==
  /\ phase = "walking"
  /\ volume.class[l[2]] = "file"
  /\ handled' = handled \cup {l}
  /\ files' = files + 1
  /\ UNCHANGED <<volume, folders, phase>>

CountFolder(l) ==
  /\ phase = "walking"
  /\ volume.class[l[2]] = "dir"
  /\ handled' = handled \cup {l}
  /\ folders' = folders + 1
  /\ UNCHANGED <<volume, files, phase>>

Report ==
  /\ phase = "walking"
  /\ handled = Links(volume)
  /\ phase' = "reported"
  /\ UNCHANGED <<volume, handled, files, folders>>

Fail ==
  /\ phase = "walking"
  /\ phase' = "failed"
  /\ UNCHANGED <<volume, handled, files, folders>>

Next ==
  \/ \E l \in Links(volume) \ handled : CountFile(l) \/ CountFolder(l)
  \/ Report
  \/ Fail

Spec == Init /\ [][Next]_vars
=============================================================================
