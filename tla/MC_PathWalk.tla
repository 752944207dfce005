---------------------------- MODULE MC_PathWalk -----------------------------
(***************************************************************************)
(* Instances of PathWalk: the calls of MC_NtfsIndex, and paths of up to    *)
(* three parts through a volume whose directories are kept in several      *)
(* ways and rebuilt.  In this module a letter is a name: 1 to 9 as Windows *)
(* writes them, and 10 more for the same in capitals.                      *)
(***************************************************************************)
EXTENDS PathWalk, MC_NtfsIndex

MCFold(name) == name % 10
MCShort == {3, 5}

Keep(p, t) == [holds |-> p[1], list |-> p[2], whole |-> p[3], trees |-> t]
Here == CHOOSE p \in Places : p[1].base = {R("$I30"), A("$I30")}
Reparse == CHOOSE p \in Places : p[1].base = {R("$R"), A("$R")}
Away == CHOOSE p \in Places : p[1].base = {List, Other, R("$I30")}
File == CHOOSE p \in Places : p[1].base = {Other}
AFile(f) == [file |-> f, folder |-> FALSE, dir |-> Keep(File, <<Empty>>)]
AFolder(f, p, t) == [file |-> f, folder |-> TRUE, dir |-> Keep(p, t)]

\* two names of a case-sensitive directory, 4 and 14, differ in their case only
Cased == [root |-> <<E(1, 0), E(2, 0), [E(4, 0) EXCEPT !.record = 30],
                     E(14, 0), End(0)>>,
          large |-> FALSE, blocks |-> <<>>]
Keys == [root |-> <<[name |-> NoName, record |-> 31, sub |-> 0], End(0)>>,
         large |-> FALSE, blocks |-> <<>>]

\* below the root: 30 and 31 are folders, 32 and 37 files
Mft(p, t) ==
  [n \in {Root, 30, 31, 32, 37} |->
     CASE n = Root -> AFolder(n, p, t)
       [] n = 30 -> AFolder(n, Here, <<Small, Flat>>)
       [] n = 31 -> AFolder(n, Reparse, <<Keys>>)
       [] OTHER -> AFile(n)]
Mfts == {Mft(Here, <<Flat, Split>>), Mft(Here, <<Cased>>), Mft(Here, <<Deep, Merged>>),
         Mft(Away, <<Flat>>)}

Paths == {<<>>, <<1>>, <<12>>, <<3>>, <<4>>, <<6>>, <<1, 12>>, <<1, 3, 0>>, <<2, 0>>,
          <<4, 1>>, <<14>>, <<1, 0>>}
Request(k, f, abs, parts, m, w) ==
  [kind |-> k, fn |-> f, absolute |-> abs, parts |-> parts, mft |-> m,
   spare |-> AFolder(99, Here, <<Small>>), wanted |-> w]

MCRequests ==
  {[kind |-> "call"]}
  \cup {Request("path", "index", TRUE, p, m, {}) : p \in Paths, m \in Mfts}
  \cup {Request("path", "index", FALSE, <<1>>, m, {}) : m \in Mfts}
  \cup {Request("path", "MFTRecord::index", TRUE, p, Mft(Here, <<Flat>>), {}) :
          p \in {<<>>, <<1>>}}
  \cup {Request("list", "index", TRUE, p, m, w) :
          p \in {<<>>, <<1>>, <<2>>, <<4>>}, m \in Mfts, w \in {{TRUE}, {FALSE}, BOOLEAN}}
=============================================================================
