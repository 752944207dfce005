---------------------------- MODULE MC_NtfsIndex ----------------------------
(***************************************************************************)
(* Instances of NtfsIndex: the places where NTFS keeps the attributes of a *)
(* directory, and trees of up to three blocks with splits and merges.      *)
(***************************************************************************)
EXTENDS NtfsIndex

E(name, sub) == [name |-> name, record |-> 30 + (name \div 2), sub |-> sub]
End(sub) == [name |-> 0, record |-> 0, sub |-> sub]

\* names 2 and 3 are the long and the short name of one file
Small == [root |-> <<E(1, 0), E(2, 0), E(3, 0), End(0)>>, large |-> FALSE,
          blocks |-> <<>>]
Empty == [root |-> <<End(0)>>, large |-> FALSE, blocks |-> <<>>]
Flat == [root |-> <<End(1)>>, large |-> TRUE,
         blocks |-> <<  <<E(1, 0), E(2, 0), E(4, 0), End(0)>> >>]
Split == [root |-> <<E(2, 1), End(3)>>, large |-> TRUE,
          blocks |-> [v \in {1, 3} |-> IF v = 1 THEN <<E(1, 0), End(0)>>
                                       ELSE <<E(4, 0), E(5, 0), End(0)>>]]
Deep == [root |-> <<End(2)>>, large |-> TRUE,
         blocks |-> << <<E(1, 0), End(0)>>, <<E(2, 1), End(3)>>, <<E(4, 0), End(0)>> >>]
\* block 2 is one that is no longer in use but still has its magic
Merged == [root |-> <<E(3, 1), End(0)>>, large |-> TRUE,
           blocks |-> << <<E(1, 0), E(2, 0), End(0)>>, <<E(2, 1), End(3)>> >>]

Versions == { <<Small>>, <<Empty>>, <<Small, Empty>>, <<Small, Flat>>,
              <<Flat, Split>>, <<Split, Deep>>, <<Deep, Merged>>, <<Merged, Split, Flat>> }

R(t) == <<"$INDEX_ROOT", t>>
A(t) == <<"$INDEX_ALLOCATION", t>>
L(a, r) == [attribute |-> a, record |-> r, size |-> 4]
Holds(b, x, y) == [base |-> b, ext1 |-> x, ext2 |-> y]

\* <<attributes of the three records, attribute list, in one piece?>>
Places == {
  << Holds({R("$I30"), A("$I30")}, {}, {}), <<>>, TRUE >>,
  << Holds({R("$R"), A("$R")}, {}, {}), <<>>, TRUE >>,
  << Holds({List, Other, R("$I30")}, {A("$I30")}, {}),
     <<L(Other, "base"), L(R("$I30"), "base"), L(A("$I30"), "ext1")>>, TRUE >>,
  << Holds({List, R("$I30")}, {A("$I30")}, {A("$I30")}),
     <<L(R("$I30"), "base"), L(A("$I30"), "ext1"), L(A("$I30"), "ext2")>>, FALSE >>,
  << Holds({List, Other}, {Other, R("$I30"), A("$I30")}, {}),
     <<L(Other, "base"), L(R("$I30"), "ext1"), L(A("$I30"), "ext1"), L(Other, "ext1")>>, TRUE >>,
  << Holds({List}, {R("$I30")}, {A("$I30")}),
     <<L(R("$I30"), "ext1"), L(A("$I30"), "ext2")>>, TRUE >>,
  << Holds({List, Other}, {Other}, {}), <<L(Other, "base"), L(Other, "ext1")>>, TRUE >>,
  << Holds({Other}, {}, {}), <<>>, TRUE >> }

MCDirectories ==
  {[holds |-> p[1], list |-> p[2], whole |-> p[3], trees |-> t] :
     p \in Places, t \in Versions}
=============================================================================
