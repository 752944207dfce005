--------------------------- MODULE MC_MftLookup -----------------------------
(***************************************************************************)
(* Instances of MftLookup: $MFT in one piece and in several, clusters      *)
(* smaller than a record, as large, and larger.                            *)
(***************************************************************************)
EXTENDS MftLookup

R(o, l) == [offset |-> o, length |-> l]
V(spc, spr, runs) ==
  [sectorsPerCluster |-> spc, sectorsPerRecord |-> spr, runs |-> runs]

MCVolumes ==
  { V(4, 2, <<R(3, 3)>>),
    V(4, 2, <<R(9, 1), R(2, 1), R(5, 1)>>),
    V(2, 2, <<R(4, 2), R(1, 3)>>),
    V(1, 2, <<R(7, 3), R(2, 1), R(20, 2)>>),
    V(1, 2, <<R(7, 3), R(2, 2)>>),
    V(1, 4, <<R(3, 5), R(11, 1), R(1, 2)>>),
    V(2, 1, <<R(6, 2), R(2, 2)>>) }
MCLayouts == {LayoutOf(v.runs) : v \in MCVolumes}
=============================================================================
