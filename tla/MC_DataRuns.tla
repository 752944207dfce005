---------------------------- MODULE MC_DataRuns -----------------------------
(***************************************************************************)
(* Instances of DataRuns.  A byte has four values, so two bytes hold       *)
(* distances from -8 to 7, and one byte from -2 to 1: each end occurs.     *)
(***************************************************************************)
EXTENDS DataRuns

Piece == [length : {1, 3, 4}, lcn : {Hole, 1, 2, 7, 9}]
MCLayouts == {l \in UNION {[1..n -> Piece] : n \in 0..3} :
                \A k \in DOMAIN l : k > 2 => l[k].length = 4}
FewLayouts == UNION {[1..n -> [length : {5}, lcn : {Hole, 3, 9}]] : n \in 0..3}
=============================================================================
