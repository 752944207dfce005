--------------------------- MODULE MC_BackupWalk ----------------------------
(***************************************************************************)
(* Instances of BackupWalk.  Record 1 is the root directory and lists      *)
(* itself as ".", as record 5 of an NTFS volume does.                      *)
(***************************************************************************)
EXTENDS BackupWalk

Rec(directory, names) == [readable |-> TRUE, directory |-> directory, names |-> names]
N(type, name) == [type |-> type, name |-> name]
Root  == Rec(TRUE, <<N(3, ".")>>)
Dir   == Rec(TRUE, <<N(2, "$"), N(1, "other")>>)
File  == Rec(FALSE, <<N(1, "other"), N(2, "$")>>)
Bad   == [File EXCEPT !.readable = FALSE]
\* its names are in an extension record; its long name is; it has no letters
NoName  == {Rec(TRUE, <<>>), Rec(FALSE, <<N(2, "other")>>), Rec(FALSE, <<N(1, "")>>)}

Vol(records, index, noindex) ==
  [root |-> 1, class |-> [r \in DOMAIN records |-> ClassOf(records[r])],
   index |-> index, noindex |-> noindex]

\* a chain and a fork of directories; file 6 is hard-linked in 2 and 4
Fork == Vol(<<Root, Dir, File, Dir, Dir, File>>,
            <<{1, 2, 3, 4}, {6}, {}, {5, 6}, {}, {}>>, {3, 6})
\* a nameless record between two directories, an unreadable one, a directory
\* whose index cannot be read
Damaged(nameless) ==
  Vol(<<Root, Dir, nameless, Dir, Bad, File>>,
      <<{1, 2, 6}, {3, 4}, {}, {}, {}, {}>>, {6})
Hidden(nameless) ==
  Vol(<<Root, Dir, Dir, nameless, Bad, File>>,
      <<{1, 2, 3, 5}, {6}, {4, 5, 6}, {}, {}, {}>>, {2})
\* the backup is started on a file
OnFile  == Vol(<<File, Dir, File, File, File, File>>,
               [r \in 1..6 |-> {}], {1})

MCRecord == 1..6
MCVolumes == {Fork, OnFile} \cup {Damaged(n) : n \in NoName} \cup {Hidden(n) : n \in NoName}
=============================================================================
