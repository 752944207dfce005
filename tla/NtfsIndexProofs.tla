-------------------------- MODULE NtfsIndexProofs ---------------------------
(***************************************************************************)
(* For every directory, tree and history of it: what index_records() and   *)
(* index() answer, how deep their recursion goes, and when they do answer. *)
(* Then, for every path and volume: where record_from_path() gets, what    *)
(* list() gives, and that the index of each directory on the way is what   *)
(* the first part says of a single one.                                    *)
(***************************************************************************)
EXTENDS PathWalk, DataLemmas

-----------------------------------------------------------------------------
(* The blocks that are reached: closed under taking sub-nodes, the least   *)
(* such set, and what these two facts make of single VCNs.                 *)

LEMMA UnderClosed ==
  ASSUME NEW b, NEW vcns
  PROVE  /\ Under(b, vcns) \subseteq DOMAIN b
         /\ vcns \cap DOMAIN b \subseteq Under(b, vcns)
         /\ \A u \in Under(b, vcns) : Below(b[u]) \cap DOMAIN b \subseteq Under(b, vcns)
<1>1. Under(b, vcns) \subseteq DOMAIN b
  BY DEF Under
<1>2. vcns \cap DOMAIN b \subseteq Under(b, vcns)
  BY DEF Under
<1>3. ASSUME NEW u \in Under(b, vcns), NEW w \in Below(b[u]) \cap DOMAIN b
      PROVE  w \in Under(b, vcns)
  <2>1. SUFFICES ASSUME NEW V \in SUBSET DOMAIN b, vcns \cap DOMAIN b \subseteq V,
                        \A x \in V : Below(b[x]) \cap DOMAIN b \subseteq V
                 PROVE  w \in V
    BY DEF Under
  <2>2. u \in V
    BY <2>1 DEF Under
  <2> QED
    BY <2>1, <2>2
<1> QED
  BY <1>1, <1>2, <1>3

LEMMA UnderLeast ==
  ASSUME NEW b, NEW vcns, NEW V \in SUBSET DOMAIN b, vcns \cap DOMAIN b \subseteq V,
         \A u \in V : Below(b[u]) \cap DOMAIN b \subseteq V
  PROVE  Under(b, vcns) \subseteq V
BY DEF Under

(* More VCNs reach more. *)
LEMMA UnderMonotone ==
  ASSUME NEW b, NEW S, NEW T, S \cap DOMAIN b \subseteq Under(b, T)
  PROVE  Under(b, S) \subseteq Under(b, T)
BY UnderClosed, UnderLeast

LEMMA UnderUnion ==
  ASSUME NEW b, NEW S
  PROVE  Under(b, S) = UNION {Under(b, {s}) : s \in S}
<1> DEFINE V == UNION {Under(b, {s}) : s \in S}
<1>1. V \in SUBSET DOMAIN b
  BY UnderClosed
<1>2. S \cap DOMAIN b \subseteq V
  BY UnderClosed
<1>3. \A u \in V : Below(b[u]) \cap DOMAIN b \subseteq V
  BY UnderClosed
<1>4. Under(b, S) \subseteq V
  <2> HIDE DEF V
  <2> QED BY <1>1, <1>2, <1>3, UnderLeast
<1>5. ASSUME NEW s \in S PROVE Under(b, {s}) \subseteq Under(b, S)
  <2>1. {s} \cap DOMAIN b \subseteq Under(b, S)
    BY UnderClosed
  <2> QED BY <2>1, UnderMonotone
<1> QED
  BY <1>4, <1>5

LEMMA UnderNothing ==
  ASSUME NEW b, NEW S, S \cap DOMAIN b = {}
  PROVE  Under(b, S) = {}
BY DEF Under

LEMMA UnderOne ==
  ASSUME NEW b, NEW v \in DOMAIN b
  PROVE  Under(b, {v}) = {v} \cup Under(b, Below(b[v]))
<1> DEFINE V == {v} \cup Under(b, Below(b[v]))
<1>1. V \in SUBSET DOMAIN b /\ {v} \cap DOMAIN b \subseteq V
  BY UnderClosed
<1>2. \A u \in V : Below(b[u]) \cap DOMAIN b \subseteq V
  BY UnderClosed
<1>3. Under(b, {v}) \subseteq V
  <2> HIDE DEF V
  <2> QED BY <1>1, <1>2, UnderLeast
<1>4. v \in Under(b, {v})
  BY UnderClosed
<1>5. Below(b[v]) \cap DOMAIN b \subseteq Under(b, {v})
  BY <1>4, UnderClosed
<1>6. Under(b, Below(b[v])) \subseteq Under(b, {v})
  BY <1>5, UnderMonotone
<1> QED
  BY <1>3, <1>4, <1>6

(* What is below a node is what is below its entries, one by one. *)
LEMMA FilesBelow ==
  ASSUME NEW b, NEW n, NoNode \notin DOMAIN b
  PROVE  FilesUnder(b, Below(n)) = UNION {FilesUnder(b, {n[j].sub}) : j \in DOMAIN n}
<1>1. FilesUnder(b, {NoNode}) = {}
  <2>1. {NoNode} \cap DOMAIN b = {}
    OBVIOUS
  <2> QED
    BY <2>1, UnderNothing DEF FilesUnder
<1>2. \A f : f \in FilesUnder(b, Below(n)) <=>
               \E s \in Below(n) : f \in FilesUnder(b, {s})
  <2> DEFINE S == Below(n)
  <2> HIDE DEF S
  <2>1. Under(b, S) = UNION {Under(b, {s}) : s \in S}
    BY UnderUnion
  <2>2. ASSUME NEW f
        PROVE  f \in FilesUnder(b, S) <=> \E s \in S : f \in FilesUnder(b, {s})
    <3>1. f \in FilesUnder(b, S) <=> \E v \in Under(b, S) : f \in Files(b[v])
      BY DEF FilesUnder
    <3>2. \A s : f \in FilesUnder(b, {s}) <=> \E v \in Under(b, {s}) : f \in Files(b[v])
      BY DEF FilesUnder
    <3> QED
      BY <2>1, <3>1, <3>2
  <2> QED
    BY <2>2 DEF S
<1>3. ASSUME NEW f
      PROVE  (\E s \in Below(n) : f \in FilesUnder(b, {s})) <=>
               \E j \in DOMAIN n : f \in FilesUnder(b, {n[j].sub})
  <2>1. ASSUME NEW j \in DOMAIN n, f \in FilesUnder(b, {n[j].sub})
        PROVE  n[j].sub \in Below(n)
    BY <1>1, <2>1 DEF Below
  <2> QED
    BY <2>1 DEF Below
<1> QED
  BY <1>2, <1>3

LEMMA FilesOfBlock ==
  ASSUME NEW b, NEW v \in DOMAIN b, NoNode \notin DOMAIN b
  PROVE  FilesUnder(b, {v}) = Files(b[v]) \cup FilesUnder(b, Below(b[v]))
BY UnderOne DEF FilesUnder

-----------------------------------------------------------------------------
(* A frame of the recursion, and the files that it has still to add: those *)
(* from where it stands on, and what is below the entries that it has not  *)
(* been inside of.                                                         *)
FrameSet == [node : Seq(Entry), at : Nat \ {0}, inside : BOOLEAN]
IsFrame(f) == f \in FrameSet /\ IsNode(f.node) /\ f.at <= Len(f.node)
Ahead(f) == {j \in f.at..Len(f.node) : f.inside => j > f.at}
Rest(b, f) ==
  {f.node[j] : j \in f.at..(Len(f.node) - 1)}
    \cup UNION {FilesUnder(b, {f.node[j].sub}) : j \in Ahead(f)}
SubOf(f) == f.node[f.at].sub
Within(f) == [f EXCEPT !.inside = TRUE]
Behind(f) == [f EXCEPT !.at = @ + 1, !.inside = FALSE]

LEMMA NodeFiles ==
  ASSUME NEW n, IsNode(n)
  PROVE  /\ Files(n) = {n[j] : j \in 1..(Len(n) - 1)}
         /\ Len(n) \in Nat \ {0} /\ DOMAIN n = 1..Len(n)
         /\ \A j \in 1..Len(n) : n[j] \in Entry
<1>1. Len(n) \in Nat \ {0} /\ DOMAIN n = 1..Len(n) /\ \A j \in 1..Len(n) : n[j] \in Entry
  BY EmptySeq, LenProperties, ElementOfSeq DEF IsNode
<1>2. Files(n) = {e \in {n[j] : j \in 1..Len(n)} : e.record # 0}
  BY <1>1 DEF Files, ToSet
<1>3. \A j \in 1..Len(n) : n[j].record # 0 <=> j \in 1..(Len(n) - 1)
  BY <1>1 DEF IsNode
<1>4. Files(n) = {n[j] : j \in 1..(Len(n) - 1)}
  <2>1. 1..(Len(n) - 1) \subseteq 1..Len(n)
    BY <1>1
  <2> QED
    BY <1>2, <1>3, <2>1
<1> QED
  BY <1>1, <1>4

AreBlocks(b) == NoNode \notin DOMAIN b /\ \A v \in DOMAIN b : IsNode(b[v])

LEMMA FilesUnderType ==
  ASSUME NEW b, AreBlocks(b), NEW vcns
  PROVE  FilesUnder(b, vcns) \subseteq Entry
<1>1. \A v \in Under(b, vcns) : Files(b[v]) \subseteq Entry
  <2>1. \A v \in Under(b, vcns) : IsNode(b[v])
    BY UnderClosed DEF AreBlocks
  <2> QED
    BY <2>1, NodeFiles
<1> QED
  BY <1>1 DEF FilesUnder

LEMMA RestOfFrame ==
  ASSUME NEW b, NEW n, IsNode(n), AreBlocks(b)
  PROVE  /\ IsFrame(Frame(n))
         /\ Rest(b, Frame(n)) = Files(n) \cup FilesUnder(b, Below(n))
<1>1. IsFrame(Frame(n))
  BY NodeFiles DEF IsFrame, FrameSet, Frame, IsNode
<1>2. Ahead(Frame(n)) = DOMAIN n
  BY NodeFiles DEF Ahead, Frame
<1>3. FilesUnder(b, Below(n)) = UNION {FilesUnder(b, {n[j].sub}) : j \in DOMAIN n}
  BY FilesBelow DEF AreBlocks
<1>4. Files(n) = {n[j] : j \in 1..(Len(n) - 1)}
  BY NodeFiles
<1> QED
  BY <1>1, <1>2, <1>3, <1>4 DEF Rest, Frame

LEMMA RestWithin ==
  ASSUME NEW b, AreBlocks(b), NEW f, IsFrame(f), InOrder(b, f.node), ~f.inside
  PROVE  /\ IsFrame(Within(f))
         /\ Rest(b, f) = Rest(b, Within(f)) \cup FilesUnder(b, {SubOf(f)})
         /\ \A e \in FilesUnder(b, {SubOf(f)}) :
              \A g \in Rest(b, Within(f)) : e.name < g.name
<1> DEFINE n == f.node
           A == f.at..(Len(n) - 1)
<1>0. /\ f \in FrameSet /\ Len(n) \in Nat /\ f.at \in 1..Len(n) /\ DOMAIN n = 1..Len(n)
      /\ Within(f).node = n /\ Within(f).at = f.at /\ Within(f).inside
  BY NodeFiles DEF IsFrame, FrameSet, Within
<1>1. Ahead(f) = f.at..Len(n) /\ Ahead(Within(f)) = (f.at + 1)..Len(n)
  BY <1>0 DEF Ahead
<1>2. Ahead(f) = {f.at} \cup Ahead(Within(f))
  BY <1>0, <1>1
<1>3. Rest(b, f) = Rest(b, Within(f)) \cup FilesUnder(b, {SubOf(f)})
  BY <1>0, <1>2 DEF Rest, SubOf
<1>4. IsFrame(Within(f))
  BY <1>0 DEF IsFrame, FrameSet, Within
<1>5. ASSUME NEW e \in FilesUnder(b, {SubOf(f)}), NEW g \in Rest(b, Within(f))
      PROVE  e.name < g.name
  <2>0. /\ e.name \in Nat /\ \A j \in 1..Len(n) : n[j].name \in Nat
        /\ \A j : \A x \in FilesUnder(b, {n[j].sub}) : x.name \in Nat
    BY NodeFiles, FilesUnderType DEF IsFrame, Entry
  <2>1. f.at < Len(n) => e.name < n[f.at].name
    BY <1>0 DEF InOrder, SubOf
  <2>2. CASE \E j \in A : g = n[j]
    <3>1. PICK j \in A : g = n[j]
      BY <2>2
    <3>0. j \in Nat /\ j >= f.at /\ j < Len(n) /\ f.at \in Nat
      BY <1>0
    <3>2. CASE j > f.at
      <4>1. j \in (f.at + 1)..Len(n)
        BY <1>0, <3>0, <3>2
      <4>2. n[f.at].name < n[j].name
        BY <1>0, <3>0, <4>1 DEF InOrder
      <4> QED
        BY <1>0, <2>0, <2>1, <3>0, <3>1, <4>2
    <3> QED
      BY <1>0, <2>0, <2>1, <3>0, <3>1, <3>2
  <2>3. CASE \E j \in (f.at + 1)..Len(n) : g \in FilesUnder(b, {n[j].sub})
    <3>1. PICK j \in (f.at + 1)..Len(n) : g \in FilesUnder(b, {n[j].sub})
      BY <2>3
    <3>2. f.at < Len(n) /\ f.at \in DOMAIN n
      BY <1>0
    <3>3. n[f.at].name < g.name
      <4>1. \A k \in (f.at + 1)..Len(n) :
              \A x \in FilesUnder(b, {n[k].sub}) : n[f.at].name < x.name
        BY <3>2 DEF InOrder
      <4> QED
        BY <3>1, <4>1
    <3>4. g.name \in Nat
      BY <2>0, <3>1
    <3> QED
      BY <1>0, <2>0, <2>1, <3>2, <3>3, <3>4
  <2> QED
    BY <1>0, <1>1, <2>2, <2>3 DEF Rest
<1> QED
  BY <1>3, <1>4, <1>5

LEMMA NothingUnder ==
  ASSUME NEW b, AreBlocks(b)
  PROVE  FilesUnder(b, {NoNode}) = {}
<1>1. {NoNode} \cap DOMAIN b = {}
  BY DEF AreBlocks
<1> QED
  BY <1>1, UnderNothing DEF FilesUnder

LEMMA RestBehind ==
  ASSUME NEW b, AreBlocks(b), NEW f, IsFrame(f), InOrder(b, f.node),
         f.at < Len(f.node), f.inside \/ SubOf(f) = NoNode
  PROVE  /\ IsFrame(Behind(f))
         /\ Rest(b, f) = Rest(b, Behind(f)) \cup {f.node[f.at]}
         /\ \A g \in Rest(b, Behind(f)) : f.node[f.at].name < g.name
<1> DEFINE n == f.node
           h == Behind(f)
           A == (f.at + 1)..(Len(n) - 1)
           C == (f.at + 1)..Len(n)
<1>0. /\ f \in FrameSet /\ Len(n) \in Nat /\ f.at \in 1..Len(n) /\ DOMAIN n = 1..Len(n)
      /\ h.node = n /\ h.at = f.at + 1 /\ h.inside = FALSE
  BY NodeFiles DEF IsFrame, FrameSet, Behind
<1>1. Ahead(h) = C /\ Ahead(f) = IF f.inside THEN C ELSE {f.at} \cup C
  BY <1>0 DEF Ahead
<1>2. f.at..(Len(n) - 1) = {f.at} \cup A
  BY <1>0
<1>3. Rest(b, h) = {n[j] : j \in A} \cup UNION {FilesUnder(b, {n[j].sub}) : j \in C}
  BY <1>0, <1>1 DEF Rest
<1>4. Rest(b, f) = Rest(b, h) \cup {n[f.at]}
  <2>1. UNION {FilesUnder(b, {n[j].sub}) : j \in Ahead(f)}
          = UNION {FilesUnder(b, {n[j].sub}) : j \in C}
    <3>1. ~f.inside => FilesUnder(b, {n[f.at].sub}) = {}
      BY NothingUnder DEF SubOf
    <3> QED
      BY <1>1, <3>1
  <2>2. {n[j] : j \in f.at..(Len(n) - 1)} = {n[j] : j \in A} \cup {n[f.at]}
    BY <1>2
  <2> QED
    BY <1>3, <2>1, <2>2 DEF Rest
<1>5. IsFrame(h)
  <2>0. f.at + 1 \in Nat \ {0}
    BY <1>0
  <2>1. h \in FrameSet
    BY <1>0, <2>0 DEF FrameSet, Behind
  <2>2. IsNode(h.node) /\ h.at <= Len(h.node)
    BY <1>0 DEF IsFrame
  <2> QED
    BY <2>1, <2>2 DEF IsFrame
<1>6. ASSUME NEW g \in Rest(b, h) PROVE n[f.at].name < g.name
  <2>1. /\ \A j \in C : j < Len(n) => n[f.at].name < n[j].name
        /\ \A j \in C : \A e \in FilesUnder(b, {n[j].sub}) : n[f.at].name < e.name
    BY <1>0 DEF InOrder
  <2>2. \A j \in A : j \in C /\ j < Len(n)
    BY <1>0
  <2> QED
    BY <1>3, <2>1, <2>2
<1> QED
  BY <1>4, <1>5, <1>6

LEMMA RestLeave ==
  ASSUME NEW b, AreBlocks(b), NEW f, IsFrame(f), f.at = Len(f.node),
         f.inside \/ SubOf(f) = NoNode
  PROVE  Rest(b, f) = {}
<1> DEFINE n == f.node
<1>0. f.at \in 1..Len(n) /\ Len(n) \in Nat /\ f.inside \in BOOLEAN
  BY NodeFiles DEF IsFrame, FrameSet
<1>1. f.at..(Len(n) - 1) = {} /\ Ahead(f) = IF f.inside THEN {} ELSE {f.at}
  BY <1>0 DEF Ahead
<1>2. ~f.inside => FilesUnder(b, {n[f.at].sub}) = {}
  BY NothingUnder DEF SubOf
<1>3. UNION {FilesUnder(b, {n[j].sub}) : j \in Ahead(f)} = {}
  BY <1>1, <1>2
<1>4. {n[j] : j \in f.at..(Len(n) - 1)} = {}
  BY <1>1
<1> QED
  BY <1>3, <1>4 DEF Rest

-----------------------------------------------------------------------------
(* The inductive invariant *)

IndexPC == {"root", "rootList", "large", "allocList", "blocks", "entries", "end"}

TypeInv ==
  /\ IsDirectory(dir) /\ fn \in Function
  /\ version \in DOMAIN dir.trees /\ root \in DOMAIN dir.trees
  /\ pc \in IndexPC /\ failed \in BOOLEAN
  /\ rec \in FileRecord /\ type \in Stream /\ at \in Nat \ {0}
  /\ \/ blocks = 0 /\ VCNToBlock = <<>>
     \/ blocks \in DOMAIN dir.trees /\ VCNToBlock = dir.trees[blocks].blocks
  /\ stack \in Seq(FrameSet) /\ out \in Seq(Entry)

(* What each place of the search knows: the record that is searched is the *)
(* directory's or one the list gives for the root, nothing before `at' was *)
(* what is looked for, and blocks are left unread only if there are none.  *)
SearchInv ==
  /\ rec # "base" => ~RootIn("base") /\ rec \in SentTo
  /\ pc = "root" => at = 1
  /\ pc = "rootList" => ~RootIn(rec) /\ List \in dir.holds[rec]
                        /\ \A i \in DOMAIN dir.list : i < at => ~SendsOn(dir.list[i])
  /\ pc \in {"large", "allocList", "blocks"} =>
       Has(rec, "$INDEX_ROOT", type) /\ type = RootType(rec)
  /\ pc \in {"allocList", "blocks"} => dir.trees[root].large
  /\ pc = "allocList" =>
       /\ fn = "index_records" /\ ~Has(rec, "$INDEX_ALLOCATION", type)
       /\ \A i \in DOMAIN dir.list : i < at => ~Allocates(dir.list[i])
  /\ pc = "entries" /\ blocks = 0 => ~dir.trees[root].large
  /\ pc \notin {"entries", "end"} =>
       blocks = 0 /\ stack = <<>> /\ out = <<>>
  /\ pc # "end" => outcome # "ok"

(* Each frame stands at a sub-node that is the node of the next one, and   *)
(* which lies below those of all frames before.                            *)
Started == stack # <<>> \/ outcome = "ok"
StackInv ==
  /\ \A k \in DOMAIN stack : IsFrame(stack[k])
  /\ \A k \in 1..(Len(stack) - 1) :
       /\ stack[k].inside /\ SubOf(stack[k]) \in DOMAIN VCNToBlock
       /\ stack[k + 1].node = VCNToBlock[SubOf(stack[k])]
       /\ \A l \in (k + 1)..(Len(stack) - 1) :
            SubOf(stack[l]) \in Under(VCNToBlock, Below(VCNToBlock[SubOf(stack[k])]))
  /\ outcome = "ok" => stack = <<>>
  /\ ~Started => out = <<>>

(* The files of the tree are those that have been added and those that the *)
(* frames have still to add, and come in this order: added, then from the  *)
(* deepest frame to the outermost.                                         *)
Remaining == UNION {Rest(VCNToBlock, stack[k]) : k \in DOMAIN stack}
Ascending(s) == \A i, j \in DOMAIN s : i < j => s[i].name < s[j].name
Precedes(S, T) == \A e \in S, f \in T : e.name < f.name
OrderInv ==
  Quiet /\ Started =>
    /\ VCNToBlock = dir.trees[root].blocks
    /\ \A k \in DOMAIN stack : stack[k].node \in InUse(dir.trees[root])
    /\ Entries(dir.trees[root]) = ToSet(out) \cup Remaining
    /\ Ascending(out) /\ Precedes(ToSet(out), Remaining)
    /\ \A k, l \in DOMAIN stack :
         k < l => Precedes(Rest(VCNToBlock, stack[l]), Rest(VCNToBlock, stack[k]))

(* Nodes and entries are those of some version of the directory.           *)
NodesOf(d) == UNION {Nodes(d.trees[i]) : i \in DOMAIN d.trees}
NamesInv ==
  /\ \A k \in DOMAIN stack : stack[k].node \in NodesOf(dir)
  /\ NothingInvented

IndexInv ==
  /\ TypeInv /\ SearchInv /\ StackInv
  /\ OrderInv /\ NamesInv /\ WellKeptIsAnswered

-----------------------------------------------------------------------------
(* What the definition of a directory gives. *)
LEMMA DirectoryFacts ==
  ASSUME NEW d, IsDirectory(d)
  PROVE  /\ d.holds \in [FileRecord -> SUBSET Attribute]
         /\ d.list \in Seq([attribute : Attribute, record : FileRecord, size : Nat \ {0}])
         /\ Len(d.list) \in Nat /\ DOMAIN d.list = 1..Len(d.list)
         /\ \A i \in DOMAIN d.list : /\ d.list[i].record \in FileRecord
                                     /\ d.list[i].attribute \in d.holds[d.list[i].record]
         /\ Len(d.trees) \in Nat \ {0} /\ DOMAIN d.trees = 1..Len(d.trees)
         /\ \A i \in DOMAIN d.trees : IsTree(d.trees[i])
<1> DEFINE E == [attribute : Attribute, record : FileRecord, size : Nat \ {0}]
<1>1. d.list \in Seq(E)
  BY DEF IsDirectory
<1>2. Len(d.list) \in Nat /\ DOMAIN d.list = 1..Len(d.list)
      /\ \A i \in DOMAIN d.list : d.list[i] \in E
  <2> HIDE DEF E
  <2> QED BY <1>1, LenProperties, ElementOfSeq
<1>3. \A i \in DOMAIN d.list : d.list[i].record \in FileRecord
  BY <1>2
<1> QED
  BY <1>1, <1>2, <1>3 DEF IsDirectory

LEMMA TreeFacts ==
  ASSUME NEW t, IsTree(t)
  PROVE  /\ AreBlocks(t.blocks) /\ IsFiniteSet(DOMAIN t.blocks)
         /\ IsNode(t.root) /\ \A v \in DOMAIN t.blocks : IsNode(t.blocks[v])
         /\ t.large \in BOOLEAN /\ ~t.large => t.blocks = <<>>
BY DEF IsTree, AreBlocks

(* The top of a stack is one of its frames. *)
LEMMA TopFacts ==
  ASSUME TypeInv, StackInv, stack # <<>>
  PROVE  /\ Len(stack) \in Nat \ {0} /\ DOMAIN stack = 1..Len(stack)
         /\ Len(stack) \in DOMAIN stack
         /\ Top \in FrameSet /\ IsFrame(Top) /\ This \in Entry
         /\ Top.at \in 1..Len(Top.node) /\ This.sub = SubOf(Top)
<1>1. Len(stack) \in Nat \ {0} /\ DOMAIN stack = 1..Len(stack) /\ Len(stack) \in DOMAIN stack
  BY EmptySeq, LenProperties DEF TypeInv
<1>2. IsFrame(Top)
  BY <1>1 DEF StackInv, Top
<1>3. Top \in FrameSet /\ Top.at \in 1..Len(Top.node)
  BY <1>2, NodeFiles DEF IsFrame, FrameSet
<1>4. This \in Entry
  BY <1>2, <1>3, NodeFiles DEF This, IsFrame
<1> QED
  BY <1>1, <1>2, <1>3, <1>4 DEF This, SubOf

LEMMA BlocksFacts ==
  ASSUME TypeInv
  PROVE  AreBlocks(VCNToBlock) /\ IsFiniteSet(DOMAIN VCNToBlock)
<1>1. CASE blocks = 0 /\ VCNToBlock = <<>>
  <2>1. DOMAIN VCNToBlock = {}
    BY <1>1
  <2> QED
    BY <2>1, FS_EmptySet DEF AreBlocks
<1>2. CASE blocks \in DOMAIN dir.trees /\ VCNToBlock = dir.trees[blocks].blocks
  BY <1>2, TreeFacts DEF TypeInv, IsDirectory
<1> QED
  BY <1>1, <1>2 DEF TypeInv

LEMMA PoppedFacts ==
  ASSUME NEW S, NEW s \in Seq(S), s # <<>>
  PROVE  /\ Front(s) \in Seq(S) /\ Len(Front(s)) = Len(s) - 1
         /\ Len(s) \in Nat \ {0}
         /\ \A k \in 1..(Len(s) - 1) : Front(s)[k] = s[k]
<1>1. Len(s) \in Nat \ {0}
  BY EmptySeq, LenProperties
<1>2. \A k \in 1..(Len(s) - 1) : s[k] \in S
  <2>1. \A k \in 1..(Len(s) - 1) : k \in 1..Len(s)
    BY <1>1
  <2> QED
    BY <2>1, ElementOfSeq
<1> DEFINE m == Len(s) - 1
<1>3. m \in Nat /\ 1 \in Int /\ m \in Int
  BY <1>1
<1>4. /\ SubSeq(s, 1, m) \in Seq(S)
      /\ Len(SubSeq(s, 1, m)) = IF 1 <= m THEN m - 1 + 1 ELSE 0
      /\ \A i \in 1..(m - 1 + 1) : SubSeq(s, 1, m)[i] = s[1 + i - 1]
  <2> HIDE DEF m
  <2> QED BY <1>2, <1>3, SubSeqProperties DEF m
<1>5. Front(s) = SubSeq(s, 1, m)
  BY DEF Front
<1>6. Len(Front(s)) = m
  <2>1. Len(Front(s)) = IF 1 <= m THEN m - 1 + 1 ELSE 0
    BY <1>4, <1>5
  <2> HIDE DEF m
  <2> QED BY <1>3, <2>1
<1>7. \A i \in 1..m : i \in 1..(m - 1 + 1) /\ 1 + i - 1 = i
  BY <1>3
<1> QED
  BY <1>1, <1>4, <1>5, <1>6, <1>7

LEMMA TypeStep == TypeInv /\ StackInv /\ (Reader \/ NtfsRebuilds) => TypeInv'
<1> SUFFICES ASSUME TypeInv, StackInv, Reader \/ NtfsRebuilds PROVE TypeInv'
  OBVIOUS
<1> USE DEF TypeInv, input, control, search, walk, IndexPC
<1>0. /\ Len(dir.trees) \in Nat \ {0} /\ DOMAIN dir.trees = 1..Len(dir.trees)
      /\ \A i \in DOMAIN dir.list : dir.list[i].record \in FileRecord
      /\ at + 1 \in Nat \ {0}
  BY DirectoryFacts
<1>1. CASE FindRoot
  <2>1. pc' \in IndexPC /\ failed' \in BOOLEAN /\ type' \in Stream
    BY <1>1 DEF FindRoot, Goto, Return, FailedRead, ReadData, Stream
  <2> QED
    BY <1>1, <2>1 DEF FindRoot
<1>2. CASE RootList
  <2>1. rec' \in FileRecord /\ at' \in Nat \ {0} /\ root' \in DOMAIN dir.trees
        /\ pc' \in IndexPC /\ failed' \in BOOLEAN /\ UNCHANGED <<type, input, version, walk>>
    <3>1. UNCHANGED <<input, version, walk>>
      BY <1>2 DEF RootList
    <3>2. CASE ListEnds
      BY <3>1, <3>2 DEF ListEnds, Return
    <3>3. CASE NextEntry
      BY <1>0, <3>1, <3>3 DEF NextEntry
    <3>4. CASE InList /\ SendsOn(dir.list[at]) /\ UNCHANGED type
               /\ Goto("root") /\ rec' = dir.list[at].record /\ root' = version /\ at' = 1
      BY <1>0, <3>1, <3>4 DEF InList, Goto
    <3>5. CASE FailedRead("throws") /\ UNCHANGED <<rec, root, at, type>>
      BY <3>1, <3>5 DEF FailedRead
    <3> QED
      BY <1>2, <3>2, <3>3, <3>4, <3>5 DEF RootList
  <2> QED
    BY <2>1
<1>3. CASE Large
  <2>1. pc' \in IndexPC /\ failed' \in BOOLEAN
    BY <1>3 DEF Large, Goto, Return, FailedRead, ReadData
  <2> QED
    BY <1>3, <2>1 DEF Large
<1>4. CASE AllocList
  <2>1. at' \in Nat \ {0} /\ pc' \in IndexPC /\ failed' \in BOOLEAN
        /\ UNCHANGED <<rec, type, root, input, version, walk>>
    BY <1>4, <1>0 DEF AllocList, ListEnds, NextEntry, Goto, Return, FailedRead
  <2> QED
    BY <2>1
<1>5. CASE ReadBlocks
  BY <1>5 DEF ReadBlocks, Parsed, Goto, FailedRead
<1>6. CASE NoEntries
  BY <1>6 DEF NoEntries, Return
<1>7. CASE NtfsRebuilds
  BY <1>7, <1>0 DEF NtfsRebuilds
<1>8. CASE Enter
  <2>1. IsFrame(Frame(dir.trees[root].root))
    BY DirectoryFacts, TreeFacts, RestOfFrame
  <2>2. stack' \in Seq(FrameSet)
    BY <1>8, <2>1 DEF Enter, IsFrame
  <2> QED
    BY <1>8, <2>2 DEF Enter
<1>9. CASE Descend
  <2>1. stack # <<>>
    BY <1>9 DEF Descend
  <2>2. Within(Top) \in FrameSet
    BY <2>1, TopFacts DEF Within, FrameSet
  <2>3. OnTop(Within(Top)) \in Seq(FrameSet)
    BY <2>1, <2>2, TopFacts DEF OnTop
  <2>4. \A v \in DOMAIN VCNToBlock : Frame(VCNToBlock[v]) \in FrameSet
    BY BlocksFacts, RestOfFrame DEF IsFrame, AreBlocks
  <2>5. stack' \in Seq(FrameSet) /\ pc' \in IndexPC /\ failed' \in BOOLEAN
    <3>1. CASE This.sub \in DOMAIN VCNToBlock
      <4>1. stack' = Append(OnTop(Within(Top)), Frame(VCNToBlock[This.sub]))
            /\ UNCHANGED control
        BY <1>9, <3>1 DEF Descend, Within
      <4> QED
        BY <2>3, <2>4, <3>1, <4>1, AppendProperties
    <3>2. CASE This.sub \notin DOMAIN VCNToBlock
      BY <1>9, <3>2 DEF Descend, Return
    <3> QED
      BY <3>1, <3>2
  <2> QED
    BY <1>9, <2>5 DEF Descend
<1>10. CASE Add
  <2>1. stack # <<>> /\ This \in Entry
    BY <1>10, TopFacts DEF Add
  <2>2. Behind(Top) \in FrameSet
    <3>1. Top \in FrameSet /\ Top.at + 1 \in Nat \ {0}
      BY <2>1, TopFacts DEF FrameSet
    <3> QED
      BY <3>1 DEF Behind, FrameSet
  <2>3. OnTop(Behind(Top)) \in Seq(FrameSet)
    BY <2>1, <2>2, TopFacts DEF OnTop
  <2>4. Append(out, This) \in Seq(Entry)
    BY <2>1, AppendProperties
  <2> QED
    BY <1>10, <2>3, <2>4 DEF Add, Behind
<1>11. CASE Leave
  <2>1. stack # <<>> /\ This \in Entry
    BY <1>11, TopFacts DEF Leave
  <2>2. out' \in Seq(Entry)
    BY <1>11, <2>1, AppendProperties DEF Leave
  <2>3. Front(stack) \in Seq(FrameSet)
    BY <2>1, PoppedFacts
  <2> QED
    BY <1>11, <2>2, <2>3 DEF Leave, Return
<1> QED
  BY <1>1, <1>2, <1>3, <1>4, <1>5, <1>6, <1>7, <1>8, <1>9, <1>10, <1>11
     DEF Reader, Search, Tree

LEMMA SearchStep ==
  TypeInv /\ SearchInv /\ (Reader \/ NtfsRebuilds) => SearchInv'
<1> SUFFICES ASSUME TypeInv, SearchInv, Reader \/ NtfsRebuilds PROVE SearchInv'
  OBVIOUS
<1> USE DEF input, control, search, walk
<1>0. UNCHANGED <<dir, fn>>
  BY DEF Reader, Search, Tree, FindRoot, RootList, Large, AllocList, ReadBlocks, Enter,
         Descend, Add, Leave, NoEntries, NtfsRebuilds
<1>a. /\ \A r, k, t : Has(r, k, t)' <=> Has(r, k, t)
      /\ \A r : (RootIn(r)' <=> RootIn(r)) /\ RootType(r)' = RootType(r)
      /\ SentTo' = SentTo
  BY <1>0 DEF Has, RootIn, RootType, SentTo
<1>b. \A i \in DOMAIN dir.list : dir.list[i].record \in FileRecord
  BY DirectoryFacts DEF TypeInv
<1>1. CASE FindRoot
  <2>0. UNCHANGED <<rec, at, root, blocks, stack, out>> /\ pc = "root" /\ at = 1
        /\ outcome # "ok" /\ blocks = 0 /\ stack = <<>> /\ out = <<>>
    BY <1>1 DEF FindRoot, SearchInv
  <2>1. CASE Goto("large")
    <3>1. Has(rec, "$INDEX_ROOT", type') /\ type' = RootType(rec)
      BY <1>1, <2>1 DEF FindRoot, RootType, Goto, Return, FailedRead, ReadData
    <3> QED
      BY <1>0, <1>a, <2>0, <2>1, <3>1 DEF SearchInv, Goto
  <2>2. CASE Goto("rootList")
    <3>1. ~RootIn(rec) /\ List \in dir.holds[rec]
      BY <1>1, <2>2 DEF FindRoot, RootIn, Stream, Goto, Return, FailedRead, ReadData
    <3>2. \A i \in DOMAIN dir.list : ~(i < 1)
      BY DirectoryFacts DEF TypeInv
    <3> QED
      BY <1>0, <1>a, <2>0, <2>2, <3>1, <3>2 DEF SearchInv, Goto
  <2>3. CASE pc' = "end"
    BY <1>0, <1>a, <2>0, <2>3 DEF SearchInv
  <2> QED
    BY <1>1, <2>1, <2>2, <2>3 DEF FindRoot, Goto, Return, FailedRead, ReadData
<1>2. CASE RootList
  <2>1. CASE ListEnds
    BY <1>0, <1>a, <1>2, <2>1 DEF SearchInv, RootList, ListEnds, Return
  <2>2. CASE InList /\ ~SendsOn(dir.list[at]) /\ NextEntry
    <3>1. pc = "rootList" /\ UNCHANGED <<pc, outcome, rec, root, blocks, stack, out>>
          /\ at' = at + 1
      BY <1>2, <2>2 DEF RootList, NextEntry
    <3>2. \A i \in DOMAIN dir.list : i < at + 1 => i < at \/ i = at
      BY DirectoryFacts DEF TypeInv
    <3>3. \A i \in DOMAIN dir.list : i < at' => ~SendsOn(dir.list[i])
      BY <2>2, <3>1, <3>2 DEF SearchInv
    <3>4. \A i \in DOMAIN dir'.list : i < at' => ~SendsOn(dir.list[i])'
      BY <1>0, <3>1, <3>3 DEF SendsOn
    <3> QED
      BY <1>0, <1>a, <3>1, <3>4 DEF SearchInv
  <2>3. CASE /\ InList /\ SendsOn(dir.list[at]) /\ UNCHANGED type
             /\ Goto("root") /\ rec' = dir.list[at].record /\ root' = version /\ at' = 1
    <3>1. at \in DOMAIN dir.list /\ rec' \in SentTo
      BY <2>3 DEF InList, SendsOn, SentTo
    <3> QED
      BY <1>0, <1>a, <1>2, <2>3, <3>1 DEF SearchInv, RootList, Goto
  <2>4. CASE FailedRead("throws") /\ UNCHANGED <<rec, root, at, type>>
    BY <1>0, <1>a, <1>2, <2>4 DEF SearchInv, RootList, FailedRead
  <2> QED
    BY <1>2, <2>1, <2>2, <2>3, <2>4 DEF RootList
<1>3. CASE Large
  <2>0. UNCHANGED <<rec, type, root, blocks, stack, out>> /\ pc = "large" /\ at' = 1
        /\ outcome # "ok" /\ blocks = 0 /\ stack = <<>> /\ out = <<>>
    BY <1>3 DEF Large, SearchInv
  <2>1. CASE Goto("entries")
    <3>1. ~dir.trees[root].large
      BY <1>3, <2>1 DEF Large, Goto, Return, FailedRead, ReadData
    <3> QED
      BY <1>0, <1>a, <2>0, <2>1, <3>1 DEF SearchInv, Goto
  <2>2. CASE Goto("blocks")
    <3>1. dir.trees[root].large
      BY <1>3, <2>2 DEF Large, Goto, Return, FailedRead, ReadData
    <3> QED
      BY <1>0, <1>a, <2>0, <2>2, <3>1 DEF SearchInv, Goto
  <2>3. CASE Goto("allocList")
    <3>1. /\ dir.trees[root].large /\ ~Has(rec, "$INDEX_ALLOCATION", type)
          /\ fn = "index_records"
      BY <1>3, <2>3 DEF Large, Goto, Return, FailedRead, ReadData
    <3>2. \A i \in DOMAIN dir.list : ~(i < 1)
      BY DirectoryFacts DEF TypeInv
    <3> QED
      BY <1>0, <1>a, <2>0, <2>3, <3>1, <3>2 DEF SearchInv, Goto
  <2>4. CASE pc' = "end"
    BY <1>0, <1>a, <2>0, <2>4 DEF SearchInv
  <2> QED
    BY <1>3, <2>1, <2>2, <2>3, <2>4 DEF Large, Goto, Return, FailedRead, ReadData
<1>4. CASE AllocList
  <2>0. UNCHANGED <<rec, type, root, blocks, stack, out>> /\ pc = "allocList"
        /\ outcome # "ok" /\ blocks = 0 /\ stack = <<>> /\ out = <<>>
    BY <1>4 DEF AllocList, SearchInv, ListEnds, NextEntry
  <2>1. CASE NextEntry /\ ~Allocates(dir.list[at])
    <3>1. \A i \in DOMAIN dir.list : i < at + 1 => i < at \/ i = at
      BY DirectoryFacts DEF TypeInv
    <3>2. \A i \in DOMAIN dir.list : i < at' => ~Allocates(dir.list[i])
      BY <2>0, <2>1, <3>1 DEF SearchInv, NextEntry
    <3>3. \A i \in DOMAIN dir'.list : i < at' => ~Allocates(dir.list[i])'
      BY <1>0, <2>0, <3>2 DEF Allocates
    <3> QED
      BY <1>0, <1>a, <2>0, <2>1, <3>3 DEF SearchInv, NextEntry
  <2>2. CASE pc' = "end"
    BY <1>0, <1>a, <2>0, <2>2 DEF SearchInv
  <2>3. CASE Goto("blocks")
    BY <1>0, <1>a, <2>0, <2>3 DEF SearchInv, Goto
  <2> QED
    BY <1>4, <2>1, <2>2, <2>3 DEF AllocList, ListEnds, Return, FailedRead
<1>5. CASE ReadBlocks
  <2>0. UNCHANGED <<search, stack, out>> /\ pc = "blocks" /\ outcome # "ok"
        /\ Has(rec, "$INDEX_ROOT", type)
    BY <1>5 DEF ReadBlocks, SearchInv
  <2>1. CASE Goto("entries") /\ blocks' = version
    <3>1. version # 0
      BY DirectoryFacts DEF TypeInv
    <3> QED
      BY <1>0, <1>a, <2>0, <2>1, <3>1 DEF SearchInv, Goto
  <2>2. CASE pc' = "end"
    BY <1>0, <1>a, <2>0, <2>2 DEF SearchInv
  <2> QED
    BY <1>5, <2>1, <2>2 DEF ReadBlocks, FailedRead
<1>6. CASE NoEntries
  BY <1>0, <1>a, <1>6 DEF SearchInv, NoEntries, Return
<1>7. CASE NtfsRebuilds
  BY <1>0, <1>a, <1>7 DEF SearchInv, NtfsRebuilds, SendsOn, Allocates
<1>8. CASE Tree
  <2>1. /\ UNCHANGED <<search, blocks>> /\ pc = "entries"
        /\ pc' = "entries" \/ pc' = "end"
        /\ pc' = "entries" => UNCHANGED outcome
    BY <1>8 DEF Tree, Enter, Descend, Add, Leave, Return
  <2> QED
    BY <1>0, <1>a, <2>1 DEF SearchInv
<1> QED
  BY <1>1, <1>2, <1>3, <1>4, <1>5, <1>6, <1>7, <1>8 DEF Reader, Search

(* Another frame on top, and one more.                                     *)
LEMMA ReplacedFacts ==
  ASSUME TypeInv, StackInv, stack # <<>>, NEW f \in FrameSet
  PROVE  /\ OnTop(f) \in Seq(FrameSet) /\ Len(OnTop(f)) = Len(stack)
         /\ DOMAIN OnTop(f) = 1..Len(stack) /\ OnTop(f)[Len(stack)] = f
         /\ \A k \in 1..(Len(stack) - 1) : OnTop(f)[k] = stack[k]
<1>1. /\ Len(stack) \in Nat \ {0} /\ DOMAIN stack = 1..Len(stack)
      /\ Len(stack) \in DOMAIN stack /\ stack \in Seq(FrameSet)
  BY TopFacts DEF TypeInv
<1>2. /\ OnTop(f) \in Seq(FrameSet) /\ Len(OnTop(f)) = Len(stack)
      /\ \A j \in 1..Len(stack) : OnTop(f)[j] = IF j = Len(stack) THEN f ELSE stack[j]
  <2> DEFINE L == Len(stack)
  <2>1. stack \in Seq(FrameSet) /\ L \in 1..L
    BY <1>1
  <2>2. /\ [stack EXCEPT ![L] = f] \in Seq(FrameSet)
        /\ Len([stack EXCEPT ![L] = f]) = Len(stack)
        /\ \A j \in 1..Len(stack) : [stack EXCEPT ![L] = f][j] = IF j = L THEN f ELSE stack[j]
    <3> HIDE DEF L
    <3> QED BY <2>1, ExceptSeq DEF L
  <2> QED
    BY <2>2 DEF OnTop
<1>3. DOMAIN OnTop(f) = 1..Len(stack)
  BY <1>2, LenProperties
<1>4. ASSUME NEW k \in 1..(Len(stack) - 1) PROVE OnTop(f)[k] = stack[k]
  <2>0. Len(stack) \in Nat
    BY <1>1
  <2>1. k \in 1..Len(stack) /\ k # Len(stack)
    BY <2>0
  <2> QED
    BY <1>2, <2>1
<1>5. OnTop(f)[Len(stack)] = f
  BY <1>1, <1>2
<1> QED
  BY <1>2, <1>3, <1>4, <1>5

LEMMA PushedFacts ==
  ASSUME TypeInv, StackInv, stack # <<>>, NEW f \in FrameSet, NEW g \in FrameSet,
         stack' = Append(OnTop(f), g)
  PROVE  /\ Len(stack) \in Nat \ {0} /\ Len(stack') = Len(stack) + 1
         /\ DOMAIN stack' = 1..(Len(stack) + 1)
         /\ \A k \in 1..(Len(stack) - 1) : stack'[k] = stack[k]
         /\ stack'[Len(stack)] = f /\ stack'[Len(stack) + 1] = g
<1> DEFINE s == OnTop(f)
           L == Len(stack)
<1>1. L \in Nat \ {0}
  BY TopFacts
<1>2. /\ s \in Seq(FrameSet) /\ Len(s) = L /\ s[L] = f
      /\ \A k \in 1..(L - 1) : s[k] = stack[k]
  BY ReplacedFacts
<1> HIDE DEF s
<1>3. /\ stack' \in Seq(FrameSet) /\ Len(stack') = L + 1
      /\ \A k \in 1..L : stack'[k] = s[k] /\ stack'[L + 1] = g
  BY <1>1, <1>2, AppendProperties DEF s
<1>4. DOMAIN stack' = 1..(L + 1)
  BY <1>3, LenProperties
<1>5. \A k \in 1..(L - 1) : k \in 1..L
  BY <1>1
<1> QED
  BY <1>1, <1>2, <1>3, <1>4, <1>5

(* What the deepest frame is at is below what the others are at.           *)
LEMMA SubBelow ==
  ASSUME TypeInv, StackInv, stack # <<>>, SubOf(Top) \in DOMAIN VCNToBlock,
         NEW k \in 1..Len(stack), NEW l \in (k + 1)..Len(stack)
  PROVE  SubOf(stack[l]) \in Under(VCNToBlock, Below(VCNToBlock[SubOf(stack[k])]))
<1> DEFINE b == VCNToBlock
           L == Len(stack)
<1>1. L \in Nat \ {0} /\ k \in 1..(L - 1)
  BY TopFacts
<1>2. CASE l < L
  <2>1. l \in (k + 1)..(L - 1)
    BY <1>1, <1>2
  <2> QED
    BY <1>1, <2>1 DEF StackInv
<1>3. CASE l = L
  <2>0. L - 1 \in 1..(L - 1) /\ L - 1 + 1 = L
    BY <1>1
  <2>1. Top.node = b[SubOf(stack[L - 1])]
    BY <2>0 DEF StackInv, Top
  <2>2. SubOf(Top) \in Below(Top.node)
    BY TopFacts, BlocksFacts, NodeFiles DEF Below, SubOf, AreBlocks, IsFrame
  <2>3. CASE k = L - 1
    BY <1>3, <2>1, <2>2, <2>3, UnderClosed DEF Top
  <2>4. CASE k < L - 1
    <3>1. L - 1 \in (k + 1)..(L - 1)
      BY <1>1, <2>4
    <3>2. SubOf(stack[L - 1]) \in Under(b, Below(b[SubOf(stack[k])]))
      BY <1>1, <3>1 DEF StackInv
    <3>3. Below(b[SubOf(stack[L - 1])]) \cap DOMAIN b \subseteq Under(b, Below(b[SubOf(stack[k])]))
      BY <3>2, UnderClosed
    <3> QED
      BY <1>3, <2>1, <2>2, <3>3 DEF Top
  <2> QED
    BY <1>1, <2>3, <2>4
<1> QED
  BY <1>1, <1>2, <1>3

(***************************************************************************)
(* The stack.  A frame's sub-node is below those of the frames before it.  *)
(***************************************************************************)
LEMMA StackStep ==
  TypeInv /\ SearchInv /\ StackInv /\ (Reader \/ NtfsRebuilds) => StackInv'
<1> SUFFICES ASSUME TypeInv, SearchInv, StackInv, Reader \/ NtfsRebuilds PROVE StackInv'
  OBVIOUS
<1> USE DEF input, control, search, walk
<1>1. CASE Search
  <2>1. pc \notin {"entries", "end"} /\ UNCHANGED <<stack, out>>
    BY <1>1 DEF Search, FindRoot, RootList, Large, AllocList, ReadBlocks
  <2>2. stack = <<>> /\ out = <<>>
    BY <2>1 DEF SearchInv
  <2>3. /\ DOMAIN stack' = {} /\ 1..(Len(stack') - 1) = {}
        /\ out' = <<>> /\ stack' = <<>>
    BY <2>1, <2>2
  <2> QED
    BY <2>3 DEF StackInv
<1>2. CASE NoEntries
  <2>1. UNCHANGED <<stack, out, VCNToBlock>> /\ outcome' # "ok" /\ outcome # "ok"
    BY <1>2 DEF NoEntries, Return, SearchInv
  <2> QED
    BY <2>1 DEF StackInv, Started
<1>3. CASE NtfsRebuilds
  BY <1>3 DEF NtfsRebuilds, StackInv, Started
<1>4. CASE Enter
  <2>1. IsFrame(Frame(dir.trees[root].root))
    BY DirectoryFacts, TreeFacts, RestOfFrame DEF TypeInv
  <2>2. stack' = <<Frame(dir.trees[root].root)>> /\ outcome # "ok" /\ UNCHANGED outcome
    BY <1>4 DEF Enter, SearchInv
  <2>3. /\ DOMAIN stack' = {1} /\ 1..(Len(stack') - 1) = {} /\ stack' # <<>>
        /\ stack'[1] = Frame(dir.trees[root].root)
    BY <2>2
  <2> QED
    BY <2>1, <2>2, <2>3 DEF StackInv, Started
<1>5. CASE Descend
  <2>0. stack # <<>> /\ pc = "entries" /\ outcome # "ok" /\ UNCHANGED <<VCNToBlock, out>>
    BY <1>5 DEF Descend, SearchInv
  <2>1. CASE This.sub \notin DOMAIN VCNToBlock
    BY <1>5, <2>0, <2>1 DEF Descend, Return, StackInv, Started
  <2>2. CASE This.sub \in DOMAIN VCNToBlock
    <3> DEFINE b == VCNToBlock
               L == Len(stack)
               sub == SubOf(Top)
    <3>1. /\ UNCHANGED outcome /\ sub \in DOMAIN b
          /\ stack' = Append(OnTop(Within(Top)), Frame(b[sub]))
      BY <1>5, <2>0, <2>2, TopFacts DEF Descend, Within
    <3>2. /\ L \in Nat \ {0} /\ Len(stack') = L + 1 /\ DOMAIN stack' = 1..(L + 1)
          /\ \A k \in 1..(L - 1) : stack'[k] = stack[k]
          /\ stack'[L] = Within(Top) /\ stack'[L + 1] = Frame(b[sub])
      <4>1. Within(Top) \in FrameSet
        BY <2>0, TopFacts DEF Within, FrameSet
      <4>2. Frame(b[sub]) \in FrameSet
        BY <3>1, BlocksFacts, RestOfFrame DEF AreBlocks, IsFrame
      <4> QED
        BY <2>0, <3>1, <4>1, <4>2, PushedFacts
    <3>3. /\ IsFrame(Within(Top)) /\ SubOf(Within(Top)) = sub /\ Within(Top).inside
          /\ Within(Top).node = Top.node
      BY <2>0, TopFacts DEF IsFrame, FrameSet, Within, SubOf
    <3>4. IsFrame(Frame(b[sub])) /\ Frame(b[sub]).node = b[sub]
      BY <3>1, BlocksFacts, RestOfFrame DEF AreBlocks, Frame
    <3>5. \A k \in DOMAIN stack' : IsFrame(stack'[k])
      <4>1. \A k \in 1..(L - 1) : IsFrame(stack[k])
        BY <2>0, <3>2, TopFacts DEF StackInv
      <4> QED
        BY <3>2, <3>3, <3>4, <4>1
    <3>6. \A k \in 1..L : SubOf(stack'[k]) = SubOf(stack[k]) /\ stack'[k].inside
                          /\ stack'[k].node = stack[k].node
      <4>1. \A k \in 1..(L - 1) : stack[k].inside
        BY DEF StackInv
      <4> QED
        BY <3>2, <3>3, <4>1 DEF Top, SubOf
    <3>7. /\ \A k \in 1..L : SubOf(stack[k]) \in DOMAIN b
          /\ \A k \in 1..L : stack'[k + 1].node = b[SubOf(stack[k])]
      <4>1. \A k \in 1..(L - 1) : /\ SubOf(stack[k]) \in DOMAIN b
                                  /\ stack[k + 1].node = b[SubOf(stack[k])]
        BY DEF StackInv
      <4>2. \A k \in 1..(L - 1) : k + 1 \in 1..L
        BY <3>2
      <4> QED
        BY <3>1, <3>2, <3>4, <3>6, <4>1, <4>2 DEF Top
    <3>8. ASSUME NEW k \in 1..L, NEW l \in (k + 1)..L
          PROVE  SubOf(stack[l]) \in Under(b, Below(b[SubOf(stack[k])]))
      BY <2>0, <3>1, SubBelow
    <3> QED
      BY <2>0, <3>1, <3>2, <3>5, <3>6, <3>7, <3>8 DEF StackInv, Started
  <2> QED
    BY <2>1, <2>2
<1>6. CASE Add
  <2> DEFINE b == VCNToBlock
             L == Len(stack)
  <2>1. /\ stack # <<>> /\ outcome # "ok" /\ UNCHANGED <<outcome, VCNToBlock>>
        /\ stack' = OnTop(Behind(Top)) /\ Top.at # Len(Top.node)
    BY <1>6 DEF Add, SearchInv, Behind, IsLast
  <2>3. IsFrame(Behind(Top)) /\ Behind(Top).node = Top.node
    <3>1. /\ Top \in FrameSet /\ IsNode(Top.node) /\ Top.at + 1 \in Nat \ {0}
          /\ Top.at + 1 <= Len(Top.node)
      BY <2>1, TopFacts, NodeFiles DEF IsFrame
    <3> QED
      BY <3>1 DEF IsFrame, FrameSet, Behind
  <2>2. /\ L \in Nat \ {0} /\ Len(stack') = L /\ DOMAIN stack' = 1..L
        /\ \A k \in 1..(L - 1) : stack'[k] = stack[k]
        /\ stack'[L] = Behind(Top)
    BY <2>1, <2>3, ReplacedFacts, TopFacts DEF IsFrame
  <2>4. \A k \in DOMAIN stack' : IsFrame(stack'[k])
    BY <2>1, <2>2, <2>3, TopFacts DEF StackInv
  <2>5. \A k \in 1..(L - 1) :
          /\ stack'[k] = stack[k] /\ stack'[k + 1].node = stack[k + 1].node
          /\ \A l \in (k + 1)..(L - 1) : stack'[l] = stack[l]
    BY <2>2, <2>3 DEF Top
  <2>6. stack' # <<>>
    BY <2>2
  <2> QED
    BY <2>1, <2>2, <2>4, <2>5, <2>6 DEF StackInv, Started
<1>7. CASE Leave
  <2> DEFINE L == Len(stack)
  <2>1. /\ stack # <<>> /\ outcome # "ok" /\ UNCHANGED VCNToBlock
        /\ stack' = Front(stack)
        /\ L # 1 => UNCHANGED outcome
        /\ L = 1 => outcome' = "ok"
    BY <1>7 DEF Leave, SearchInv, Return
  <2>2. /\ L \in Nat \ {0} /\ Len(stack') = L - 1 /\ stack' \in Seq(FrameSet)
        /\ \A k \in 1..(L - 1) : stack'[k] = stack[k]
    <3>1. stack \in Seq(FrameSet)
      BY DEF TypeInv
    <3> QED
      BY <2>1, <3>1, PoppedFacts
  <2>3. DOMAIN stack' = 1..(L - 1) /\ DOMAIN stack = 1..L
    BY <2>1, <2>2, LenProperties, TopFacts
  <2>4. L = 1 <=> stack' = <<>>
    BY <2>2, <2>3, EmptySeq
  <2>5. \A k \in 1..((L - 1) - 1) : k + 1 \in 1..(L - 1) /\ k \in 1..(L - 1)
    BY <2>2
  <2>6. \A k \in 1..((L - 1) - 1) : \A l \in (k + 1)..((L - 1) - 1) : l \in (k + 1)..(L - 1) /\ l \in 1..(L - 1)
    BY <2>2
  <2>7. \A k \in DOMAIN stack' : IsFrame(stack'[k])
    BY <2>2, <2>3 DEF StackInv
  <2>8. \A k \in 1..(Len(stack') - 1) :
       /\ stack'[k].inside /\ SubOf(stack'[k]) \in DOMAIN VCNToBlock
       /\ stack'[k + 1].node = VCNToBlock[SubOf(stack'[k])]
       /\ \A l \in (k + 1)..(Len(stack') - 1) :
            SubOf(stack'[l]) \in Under(VCNToBlock, Below(VCNToBlock[SubOf(stack'[k])]))
    BY <2>2, <2>5, <2>6 DEF StackInv
  <2> QED
    <3>1. outcome' = "ok" => stack' = <<>>
      BY <2>1, <2>4
    <3>2. stack' # <<>> \/ outcome' = "ok"
      BY <2>1, <2>4
    <3> QED
      BY <2>1, <2>7, <2>8, <3>1, <3>2 DEF StackInv, Started
<1> QED
  BY <1>1, <1>2, <1>3, <1>4, <1>5, <1>6, <1>7 DEF Reader, Tree

(***************************************************************************)
(* Where the search ends without an answer, the directory is not kept in   *)
(* one of the ways of Answerable.                                          *)
(***************************************************************************)
LEMMA AnswerableFacts ==
  ASSUME TypeInv, SearchInv, Answerable
  PROVE  /\ RootIn(rec) => Kept(rec)
         /\ ~RootIn(rec) => /\ List \in dir.holds[rec] /\ fn = "index_records"
                            /\ \E i \in DOMAIN dir.list : SendsOn(dir.list[i])
<1>1. RootIn(rec) => Kept(rec)
  <2>1. CASE rec = "base"
    BY <2>1 DEF Answerable
  <2>2. CASE rec # "base"
    <3>1. ~RootIn("base") /\ rec \in SentTo
      BY <2>2 DEF SearchInv
    <3>2. ~Kept("base")
      BY <3>1 DEF Kept
    <3> QED
      BY <3>1, <3>2 DEF Answerable
  <2> QED
    BY <2>1, <2>2
<1>2. ASSUME ~RootIn(rec)
      PROVE  /\ rec = "base" /\ List \in dir.holds["base"] /\ fn = "index_records"
             /\ SentTo # {}
  BY <1>2 DEF SearchInv, Answerable, Kept
<1>3. ASSUME ~RootIn(rec)
      PROVE  \E i \in DOMAIN dir.list : SendsOn(dir.list[i])
  <2>1. PICK i \in DOMAIN dir.list : dir.list[i].attribute[1] = "$INDEX_ROOT"
    BY <1>2, <1>3 DEF SentTo
  <2>2. CASE dir.list[i].record = rec
    <3>1. dir.list[i].attribute \in dir.holds[rec] /\ dir.holds[rec] \subseteq Attribute
      BY <2>2, DirectoryFacts DEF TypeInv
    <3>2. dir.list[i].attribute \in Kind \X Stream
      <4>1. List[1] # "$INDEX_ROOT" /\ Other[1] # "$INDEX_ROOT"
        BY DEF List, Other
      <4>2. dir.list[i].attribute \in Attribute
        BY <3>1
      <4> QED
        BY <2>1, <4>1, <4>2 DEF Attribute
    <3>3. PICK t \in Stream : dir.list[i].attribute = <<"$INDEX_ROOT", t>>
      BY <2>1, <3>2
    <3> QED
      BY <1>3, <3>1, <3>3 DEF RootIn, Has
  <2> QED
    BY <2>1, <2>2 DEF SendsOn
<1> QED
  BY <1>1, <1>2, <1>3

LEMMA WellKeptStep ==
  TypeInv /\ SearchInv /\ StackInv /\ OrderInv /\ WellKeptIsAnswered
    /\ (Reader \/ NtfsRebuilds) => WellKeptIsAnswered'
<1> SUFFICES ASSUME TypeInv, SearchInv, StackInv, OrderInv, Reader \/ NtfsRebuilds,
                    pc' = "end", Answerable', Quiet', ~failed', fn' # "MFTRecord::index"
             PROVE  outcome' = "ok"
  BY DEF WellKeptIsAnswered
<1> USE DEF input, control, search, walk
<1>0. UNCHANGED <<dir, fn>>
  BY DEF Reader, Search, Tree, FindRoot, RootList, Large, AllocList, ReadBlocks, Enter,
         Descend, Add, Leave, NoEntries, NtfsRebuilds
<1>a. UNCHANGED root => Answerable
  <2> SUFFICES ASSUME UNCHANGED root PROVE Answerable
    OBVIOUS
  <2>1. \A r, k, t : Has(r, k, t)' <=> Has(r, k, t)
    BY <1>0 DEF Has
  <2>2. \A r : RootIn(r)' <=> RootIn(r)
    BY <2>1 DEF RootIn
  <2>3. \A r : BlocksAt(r)' <=> BlocksAt(r)
    <3>1. \A r : Same(r)' <=> Same(r)
      BY <2>1 DEF Same
    <3>2. \A r : RootType(r)' = RootType(r)
      BY <2>1 DEF RootType
    <3>3. \A r : InAnother(r)' <=> InAnother(r)
      BY <1>0, <3>2 DEF InAnother
    <3> QED
      BY <1>0, <3>1, <3>3 DEF BlocksAt
  <2>4. \A r : Kept(r)' <=> Kept(r)
    BY <1>0, <2>2, <2>3 DEF Kept
  <2>5. SentTo' = SentTo
    BY <1>0 DEF SentTo
  <2> QED
    BY <1>0, <2>2, <2>4, <2>5 DEF Answerable
<1>b. at \in Nat /\ Len(dir.list) \in Nat /\ DOMAIN dir.list = 1..Len(dir.list)
  BY DirectoryFacts DEF TypeInv
<1>1. ~FindRoot
  <2> SUFFICES ASSUME FindRoot PROVE FALSE
    OBVIOUS
  <2>1. ~RootIn(rec) /\ List \notin dir.holds[rec] /\ UNCHANGED root
    BY DEF FindRoot, Goto, Return, ReadData, FailedRead, RootIn, Stream
  <2> QED
    BY <1>a, <2>1, AnswerableFacts
<1>2. ~RootList
  <2> SUFFICES ASSUME RootList PROVE FALSE
    OBVIOUS
  <2>1. pc = "rootList" /\ ListEnds /\ UNCHANGED root
    BY DEF RootList, ListEnds, NextEntry, Goto, FailedRead
  <2>2. ~RootIn(rec) /\ \A i \in DOMAIN dir.list : i < at => ~SendsOn(dir.list[i])
    BY <2>1 DEF SearchInv
  <2>3. PICK i \in DOMAIN dir.list : SendsOn(dir.list[i])
    BY <1>a, <2>1, <2>2, AnswerableFacts
  <2>4. fn = "index_records"
    BY <1>a, <2>1, <2>2, AnswerableFacts
  <2>5. at \in DOMAIN dir.list
    BY <1>b, <2>2, <2>3, TypeInv DEF TypeInv
  <2> QED
    BY <2>1, <2>4, <2>5 DEF ListEnds, InList
<1>3. ~Large
  <2> SUFFICES ASSUME Large PROVE FALSE
    OBVIOUS
  <2>1. /\ dir.trees[root].large /\ ~Has(rec, "$INDEX_ALLOCATION", type)
        /\ ~(fn = "index_records" /\ List \in dir.holds[rec])
        /\ pc = "large" /\ UNCHANGED root
    BY DEF Large, Goto, Return, ReadData, FailedRead
  <2>2. Has(rec, "$INDEX_ROOT", type) /\ type \in Stream
    BY <2>1 DEF SearchInv, TypeInv
  <2>3. Kept(rec)
    BY <1>a, <2>1, <2>2, AnswerableFacts DEF RootIn
  <2> QED
    BY <2>1, <2>2, <2>3 DEF Kept, BlocksAt, Same, InAnother
<1>4. ~AllocList
  <2> SUFFICES ASSUME AllocList PROVE FALSE
    OBVIOUS
  <2>1. pc = "allocList" /\ UNCHANGED root
    BY DEF AllocList, ListEnds, NextEntry
  <2>2. /\ Has(rec, "$INDEX_ROOT", type) /\ type \in Stream /\ type = RootType(rec)
        /\ dir.trees[root].large /\ fn = "index_records"
        /\ ~Has(rec, "$INDEX_ALLOCATION", type)
        /\ \A i \in DOMAIN dir.list : i < at => ~Allocates(dir.list[i])
    BY <2>1 DEF SearchInv, TypeInv
  <2>3. InAnother(rec)
    BY <1>a, <2>1, <2>2, AnswerableFacts DEF RootIn, Kept, BlocksAt, Same
  <2>4. PICK i \in DOMAIN dir.list : Allocates(dir.list[i])
    BY <2>2, <2>3 DEF InAnother, Allocates
  <2>5. at \in DOMAIN dir.list
    BY <1>b, <2>2, <2>4, TypeInv DEF TypeInv
  <2>6. InList
    BY <2>2, <2>5 DEF InList
  <2>7. /\ Allocates(dir.list[at])
        /\ ~Has(dir.list[at].record, "$INDEX_ALLOCATION", type)
    BY <2>6 DEF AllocList, ListEnds, NextEntry, FailedRead, Goto, Return
  <2> QED
    <3>1. dir.list[at].attribute \in dir.holds[dir.list[at].record]
      BY <2>5, DirectoryFacts DEF TypeInv
    <3> QED
      BY <2>7, <3>1 DEF Allocates, Has
<1>5. ~ReadBlocks
  BY DEF ReadBlocks, Goto, FailedRead
<1>6. ~NoEntries
  BY <1>0 DEF NoEntries
<1>7. ~NtfsRebuilds
  BY DEF NtfsRebuilds
<1>8. ~Enter /\ ~Add
  BY DEF Enter, Add
<1>9. ~Descend
  <2> SUFFICES ASSUME Descend PROVE FALSE
    OBVIOUS
  <2>1. stack # <<>> /\ This.sub \notin DOMAIN VCNToBlock /\ This.sub # NoNode
        /\ UNCHANGED <<blocks, root>>
    BY DEF Descend
  <2>2. Quiet /\ Started
    BY <2>1 DEF Quiet, Started
  <2>3. VCNToBlock = dir.trees[root].blocks /\ Top.node \in InUse(dir.trees[root])
    BY <2>1, <2>2, TopFacts DEF OrderInv, Top
  <2>4. Below(Top.node) \subseteq DOMAIN VCNToBlock
    BY <2>3, DirectoryFacts DEF TypeInv, IsTree
  <2>5. This.sub \in Below(Top.node)
    BY <2>1, TopFacts, NodeFiles DEF Below, This, IsFrame
  <2> QED
    BY <2>1, <2>4, <2>5
<1>10. CASE Leave
  BY <1>10 DEF Leave, Return, SearchInv
<1> QED
  BY <1>1, <1>2, <1>3, <1>4, <1>5, <1>6, <1>7, <1>8, <1>9, <1>10 DEF Reader, Search, Tree

(***************************************************************************)
(* The order.  Each step moves entries from what the frames have still to  *)
(* add to a deeper frame, or to the end of what has been added.            *)
(***************************************************************************)
LEMMA Places ==
  ASSUME NEW L \in Nat \ {0}
  PROVE  /\ L \in 1..L /\ L \in 1..(L + 1) /\ L + 1 \in 1..(L + 1)
         /\ \A k \in 1..L : k = L \/ k \in 1..(L - 1)
         /\ \A k \in 1..(L + 1) : k = L \/ k = L + 1 \/ k \in 1..(L - 1)
         /\ \A k \in 1..(L - 1) : k \in 1..L /\ k \in 1..(L + 1)
OBVIOUS

LEMMA OrderDescend ==
  ASSUME TypeInv, SearchInv, StackInv, OrderInv, Quiet, Descend,
         This.sub \in DOMAIN VCNToBlock
  PROVE  OrderInv'
<1> DEFINE b == VCNToBlock
           L == Len(stack)
           t == dir.trees[root]
           sub == SubOf(Top)
           R(k) == Rest(b, stack[k])
<1>0. /\ stack # <<>> /\ UNCHANGED <<dir, root, blocks, VCNToBlock, out>> /\ ~Top.inside
      /\ sub \in DOMAIN b /\ stack' = Append(OnTop(Within(Top)), Frame(b[sub]))
  BY TopFacts DEF Descend, Within, input, search
<1>1. /\ Quiet' /\ Started /\ b = t.blocks /\ IsTree(t)
      /\ \A k \in DOMAIN stack : stack[k].node \in InUse(t)
      /\ Entries(t) = ToSet(out) \cup Remaining
      /\ Ascending(out) /\ Precedes(ToSet(out), Remaining)
      /\ \A k, l \in DOMAIN stack : k < l => Precedes(R(l), R(k))
  BY <1>0, DirectoryFacts DEF OrderInv, Quiet, Started, TypeInv
<1>2. /\ L \in Nat \ {0} /\ DOMAIN stack = 1..L /\ DOMAIN stack' = 1..(L + 1)
      /\ \A k \in 1..(L - 1) : stack'[k] = stack[k]
      /\ stack'[L] = Within(Top) /\ stack'[L + 1] = Frame(b[sub])
  <2>1. Within(Top) \in FrameSet
    BY <1>0, TopFacts DEF Within, FrameSet
  <2>2. Frame(b[sub]) \in FrameSet
    BY <1>0, BlocksFacts, RestOfFrame DEF AreBlocks, IsFrame
  <2> QED
    BY <1>0, <2>1, <2>2, PushedFacts, TopFacts
<1>3. Top.node \in InUse(t) /\ Top = stack[L]
  BY <1>0, <1>1, TopFacts DEF Top
<1>4. /\ R(L) = Rest(b, Within(Top)) \cup Rest(b, Frame(b[sub]))
      /\ Precedes(Rest(b, Frame(b[sub])), Rest(b, Within(Top)))
  <2>1. AreBlocks(b) /\ IsFrame(Top) /\ InOrder(b, Top.node)
    BY <1>0, <1>1, <1>3, BlocksFacts, TopFacts DEF IsTree
  <2>2. FilesUnder(b, {sub}) = Rest(b, Frame(b[sub]))
    BY <1>0, <2>1, FilesOfBlock, RestOfFrame DEF AreBlocks
  <2> QED
    BY <1>0, <1>3, <2>1, <2>2, RestWithin DEF Precedes
<1>5. b[sub] \in InUse(t)
  <2>1. sub \in Below(Top.node)
    BY <1>0, TopFacts, NodeFiles DEF Below, SubOf, IsFrame, Descend
  <2>2. sub \in Under(b, Below(t.root))
    <3>1. CASE Top.node = t.root
      BY <1>0, <2>1, <3>1, UnderClosed
    <3>2. CASE \E v \in Under(b, Below(t.root)) : Top.node = b[v]
      BY <1>0, <2>1, <3>2, UnderClosed
    <3> QED
      BY <1>1, <1>3, <3>1, <3>2 DEF InUse
  <2> QED
    BY <1>1, <2>2 DEF InUse
<1>6. \A k \in DOMAIN stack' : stack'[k].node \in InUse(t)
  <2>1. Within(Top).node = Top.node /\ Frame(b[sub]).node = b[sub]
    BY <1>0, TopFacts DEF Within, Frame, FrameSet
  <2> QED
    BY <1>1, <1>2, <1>3, <1>5, <2>1
<1>7. \A k \in 1..(L - 1) : Rest(b, stack'[k]) = R(k) /\ k \in DOMAIN stack /\ k < L
  BY <1>2
<1>8. Remaining' = Remaining
  <2>1. \A x : x \in Remaining <=> \E k \in 1..L : x \in R(k)
    BY <1>2 DEF Remaining
  <2>2. \A x : x \in Remaining' <=> \E k \in 1..(L + 1) : x \in Rest(b, stack'[k])
    BY <1>0, <1>2 DEF Remaining
  <2>3. /\ Rest(b, stack'[L]) = Rest(b, Within(Top))
        /\ Rest(b, stack'[L + 1]) = Rest(b, Frame(b[sub]))
        /\ L \in 1..L /\ L \in 1..(L + 1) /\ L + 1 \in 1..(L + 1)
        /\ \A k \in 1..L : k = L \/ k \in 1..(L - 1)
        /\ \A k \in 1..(L + 1) : k = L \/ k = L + 1 \/ k \in 1..(L - 1)
        /\ \A k \in 1..(L - 1) : k \in 1..L /\ k \in 1..(L + 1)
    BY <1>2, Places
  <2> HIDE DEF R
  <2>4. ASSUME NEW x \in Remaining PROVE x \in Remaining'
    <3>1. PICK k \in 1..L : x \in R(k)
      BY <2>1
    <3> QED
      BY <1>4, <1>7, <2>2, <2>3, <3>1
  <2>5. ASSUME NEW x \in Remaining' PROVE x \in Remaining
    <3>1. PICK k \in 1..(L + 1) : x \in Rest(b, stack'[k])
      BY <2>2
    <3> QED
      BY <1>4, <1>7, <2>1, <2>3, <3>1
  <2> QED
    BY <2>4, <2>5
<1>9. ASSUME NEW k \in DOMAIN stack', NEW l \in DOMAIN stack', k < l
      PROVE  Precedes(Rest(b, stack'[l]), Rest(b, stack'[k]))
  <2>1. CASE l \in 1..(L - 1)
    <3>1. k \in 1..(L - 1)
      BY <1>2, <1>9, <2>1
    <3> QED
      BY <1>1, <1>7, <1>9, <2>1, <3>1
  <2>2. CASE l \in {L, L + 1} /\ k \in 1..(L - 1)
    <3>1. Precedes(R(L), R(k))
      BY <1>1, <1>2, <1>7, <2>2
    <3>2. Rest(b, stack'[l]) \subseteq R(L)
      BY <1>2, <1>4, <2>2
    <3> QED
      BY <1>7, <2>2, <3>1, <3>2 DEF Precedes
  <2>3. CASE l = L + 1 /\ k = L
    BY <1>2, <1>4, <2>3
  <2> QED
    BY <1>2, <1>9, <2>1, <2>2, <2>3
<1> HIDE DEF R
<1> QED
  BY <1>0, <1>1, <1>6, <1>8, <1>9 DEF OrderInv, Quiet, Started, Ascending, Precedes

LEMMA OrderAdd ==
  ASSUME TypeInv, SearchInv, StackInv, OrderInv, Quiet, Add
  PROVE  OrderInv'
<1> DEFINE b == VCNToBlock
           L == Len(stack)
           t == dir.trees[root]
           R(k) == Rest(b, stack[k])
<1>0. /\ stack # <<>> /\ UNCHANGED <<dir, root, blocks, VCNToBlock>>
      /\ out' = Append(out, This) /\ Top.at # Len(Top.node)
      /\ SubOf(Top) = NoNode \/ Top.inside
      /\ stack' = OnTop(Behind(Top))
  BY TopFacts DEF Add, Behind, IsLast, input, search
<1>1. /\ Quiet' /\ Started /\ b = t.blocks /\ IsTree(t)
      /\ \A k \in DOMAIN stack : stack[k].node \in InUse(t)
      /\ Entries(t) = ToSet(out) \cup Remaining
      /\ Ascending(out) /\ Precedes(ToSet(out), Remaining)
      /\ \A k, l \in DOMAIN stack : k < l => Precedes(R(l), R(k))
  BY <1>0, DirectoryFacts DEF OrderInv, Quiet, Started, TypeInv
<1>3. Top.node \in InUse(t) /\ Top = stack[L] /\ This = Top.node[Top.at]
  BY <1>0, <1>1, TopFacts DEF Top, This
<1>4. /\ IsFrame(Behind(Top)) /\ R(L) = Rest(b, Behind(Top)) \cup {This}
      /\ \A g \in Rest(b, Behind(Top)) : This.name < g.name
  <2>1. AreBlocks(b) /\ IsFrame(Top) /\ InOrder(b, Top.node) /\ Top.at < Len(Top.node)
    BY <1>0, <1>1, <1>3, BlocksFacts, TopFacts DEF IsTree
  <2> QED
    BY <1>0, <1>3, <2>1, RestBehind
<1>2. /\ L \in Nat \ {0} /\ DOMAIN stack = 1..L /\ DOMAIN stack' = 1..L
      /\ \A k \in 1..(L - 1) : stack'[k] = stack[k]
      /\ stack'[L] = Behind(Top)
  BY <1>0, <1>4, ReplacedFacts, TopFacts DEF IsFrame
<1>6. \A k \in DOMAIN stack' : stack'[k].node \in InUse(t)
  <2>1. Behind(Top).node = Top.node
    BY <1>0, TopFacts DEF Behind, FrameSet
  <2> QED
    BY <1>1, <1>2, <1>3, <2>1
<1>7. \A k \in 1..(L - 1) : Rest(b, stack'[k]) = R(k) /\ k \in DOMAIN stack /\ k < L
  BY <1>2
<1>8. Remaining = Remaining' \cup {This}
  <2>1. \A x : x \in Remaining <=> \E k \in 1..L : x \in R(k)
    BY <1>2 DEF Remaining
  <2>2. \A x : x \in Remaining' <=> \E k \in 1..L : x \in Rest(b, stack'[k])
    BY <1>0, <1>2 DEF Remaining
  <2>3. /\ Rest(b, stack'[L]) = Rest(b, Behind(Top)) /\ L \in 1..L
        /\ \A k \in 1..L : k = L \/ k \in 1..(L - 1)
    BY <1>2, Places
  <2> HIDE DEF R
  <2>4. ASSUME NEW x \in Remaining PROVE x \in Remaining' \cup {This}
    <3>1. PICK k \in 1..L : x \in R(k)
      BY <2>1
    <3> QED
      BY <1>4, <1>7, <2>2, <2>3, <3>1
  <2>5. ASSUME NEW x \in Remaining' PROVE x \in Remaining
    <3>1. PICK k \in 1..L : x \in Rest(b, stack'[k])
      BY <2>2
    <3> QED
      BY <1>4, <1>7, <2>1, <2>3, <3>1
  <2>6. This \in Remaining
    BY <1>4, <2>1, <2>3
  <2> QED
    BY <2>4, <2>5, <2>6
<1>9. \A g \in Remaining' : This.name < g.name
  <2> SUFFICES ASSUME NEW k \in 1..L, NEW g \in Rest(b, stack'[k]) PROVE This.name < g.name
    BY <1>0, <1>2 DEF Remaining
  <2>1. CASE k = L
    BY <1>2, <1>4, <2>1
  <2>2. CASE k \in 1..(L - 1)
    <3>1. k \in DOMAIN stack /\ L \in DOMAIN stack /\ k < L
      BY <1>2, <2>2
    <3>2. Precedes(R(L), R(k))
      BY <1>1, <3>1
    <3>3. g \in R(k) /\ This \in R(L)
      BY <1>4, <1>7, <2>2
    <3> QED
      BY <3>2, <3>3 DEF Precedes
  <2>3. k = L \/ k \in 1..(L - 1)
    BY <1>2, Places
  <2> QED
    BY <2>1, <2>2, <2>3
<1>10. /\ out' \in Seq(Entry) /\ Len(out') = Len(out) + 1 /\ Len(out) \in Nat
       /\ DOMAIN out = 1..Len(out) /\ DOMAIN out' = 1..(Len(out) + 1)
       /\ \A i \in 1..Len(out) : out'[i] = out[i]
       /\ out'[Len(out) + 1] = This
  <2>1. out \in Seq(Entry) /\ This \in Entry
    BY <1>0, TopFacts DEF TypeInv
  <2>2. out' \in Seq(Entry)
    BY <1>0, <2>1, AppendProperties
  <2> QED
    BY <1>0, <2>1, <2>2, AppendProperties, LenProperties
<1>11. ToSet(out') = ToSet(out) \cup {This}
  <2>1. DOMAIN out' = DOMAIN out \cup {Len(out) + 1}
    BY <1>10
  <2> QED
    BY <1>10, <2>1 DEF ToSet
<1>12. This \in Remaining
  BY <1>8
<1>13. Ascending(out')
  <2> SUFFICES ASSUME NEW i \in DOMAIN out', NEW j \in DOMAIN out', i < j
               PROVE  out'[i].name < out'[j].name
    BY DEF Ascending
  <2>1. i \in DOMAIN out /\ out'[i] = out[i]
    BY <1>10
  <2>2. CASE j \in DOMAIN out
    BY <1>1, <1>10, <2>1, <2>2 DEF Ascending
  <2>3. CASE j = Len(out) + 1
    <3>1. out[i] \in ToSet(out)
      BY <2>1 DEF ToSet
    <3> QED
      BY <1>1, <1>10, <1>12, <2>1, <2>3, <3>1 DEF Precedes
  <2> QED
    BY <1>10, <2>2, <2>3
<1>14. Precedes(ToSet(out'), Remaining')
  BY <1>1, <1>8, <1>9, <1>11 DEF Precedes
<1>15. ASSUME NEW k \in DOMAIN stack', NEW l \in DOMAIN stack', k < l
       PROVE  Precedes(Rest(b, stack'[l]), Rest(b, stack'[k]))
  <2>1. k \in 1..(L - 1) /\ l \in DOMAIN stack /\ k \in DOMAIN stack
    BY <1>2, <1>15
  <2>2. Rest(b, stack'[l]) \subseteq R(l) /\ Rest(b, stack'[k]) = R(k)
    BY <1>2, <1>4, <1>7, <2>1
  <2> QED
    BY <1>1, <1>15, <2>1, <2>2 DEF Precedes
<1> HIDE DEF R
<1> QED
  BY <1>0, <1>1, <1>6, <1>8, <1>11, <1>13, <1>14, <1>15 DEF OrderInv

LEMMA OrderLeave ==
  ASSUME TypeInv, SearchInv, StackInv, OrderInv, Quiet, Leave
  PROVE  OrderInv'
<1> DEFINE b == VCNToBlock
           L == Len(stack)
           t == dir.trees[root]
           R(k) == Rest(b, stack[k])
<1>0. /\ stack # <<>> /\ UNCHANGED <<dir, root, blocks, VCNToBlock>>
      /\ Top.at = Len(Top.node)
      /\ SubOf(Top) = NoNode \/ Top.inside
      /\ stack' = Front(stack)
      /\ out' = IF This.record # 0 THEN Append(out, This) ELSE out
  BY TopFacts DEF Leave, IsLast, input, search
<1>1. /\ Quiet' /\ Started /\ b = t.blocks
      /\ \A k \in DOMAIN stack : stack[k].node \in InUse(t)
      /\ Entries(t) = ToSet(out) \cup Remaining
      /\ Ascending(out) /\ Precedes(ToSet(out), Remaining)
      /\ \A k, l \in DOMAIN stack : k < l => Precedes(R(l), R(k))
  BY <1>0 DEF OrderInv, Quiet, Started
<1>2. R(L) = {} /\ out' = out
  <2>1. AreBlocks(b) /\ IsFrame(Top) /\ Top = stack[L]
    BY <1>0, BlocksFacts, TopFacts DEF Top
  <2>2. Rest(b, Top) = {}
    BY <1>0, <2>1, RestLeave
  <2>3. This.record = 0
    BY <1>0, <2>1, NodeFiles, TopFacts DEF IsFrame, IsNode, This
  <2> QED
    BY <1>0, <2>1, <2>2, <2>3
<1>3. /\ L \in Nat \ {0} /\ DOMAIN stack = 1..L /\ DOMAIN stack' = 1..(L - 1)
      /\ \A k \in 1..(L - 1) : stack'[k] = stack[k]
  <2>1. stack \in Seq(FrameSet)
    BY DEF TypeInv
  <2>2. /\ stack' \in Seq(FrameSet) /\ Len(stack') = L - 1 /\ L \in Nat \ {0}
        /\ \A k \in 1..(L - 1) : stack'[k] = stack[k]
    BY <1>0, <2>1, PoppedFacts
  <2> QED
    BY <1>0, <2>2, LenProperties, TopFacts
<1>4. \A k \in DOMAIN stack' : k \in DOMAIN stack /\ stack'[k] = stack[k]
  BY <1>3, Places
<1>5. Remaining' = Remaining
  <2>1. \A x : x \in Remaining <=> \E k \in 1..L : x \in R(k)
    BY <1>3 DEF Remaining
  <2>2. \A x : x \in Remaining' <=> \E k \in 1..(L - 1) : x \in Rest(b, stack'[k])
    BY <1>0, <1>3 DEF Remaining
  <2>3. /\ \A k \in 1..L : k = L \/ k \in 1..(L - 1)
        /\ \A k \in 1..(L - 1) : k \in 1..L
        /\ \A k \in 1..(L - 1) : Rest(b, stack'[k]) = R(k)
    BY <1>3, Places
  <2> HIDE DEF R
  <2>4. ASSUME NEW x \in Remaining PROVE x \in Remaining'
    BY <1>2, <2>1, <2>2, <2>3
  <2>5. ASSUME NEW x \in Remaining' PROVE x \in Remaining
    BY <2>1, <2>2, <2>3
  <2> QED
    BY <2>4, <2>5
<1>6. \A k, l \in DOMAIN stack' : k < l => Precedes(Rest(b, stack'[l]), Rest(b, stack'[k]))
  BY <1>1, <1>4
<1> HIDE DEF R
<1> QED
  BY <1>0, <1>1, <1>2, <1>4, <1>5, <1>6 DEF OrderInv, Precedes, Ascending

LEMMA OrderEnter ==
  ASSUME TypeInv, SearchInv, StackInv, Quiet, Enter
  PROVE  OrderInv'
<1> DEFINE b == VCNToBlock
           t == dir.trees[root]
<1>0. /\ stack = <<>> /\ UNCHANGED <<dir, root, blocks, VCNToBlock, out>>
      /\ pc = "entries" /\ stack' = <<Frame(t.root)>>
  BY DEF Enter, input, search
<1>1. IsTree(t) /\ out = <<>>
  BY <1>0, DirectoryFacts DEF TypeInv, StackInv, Started, SearchInv
<1>2. b = t.blocks
  <2>1. CASE blocks = 0 /\ b = <<>>
    BY <1>0, <1>1, <2>1 DEF SearchInv, IsTree
  <2>2. CASE blocks \in DOMAIN dir.trees /\ b = dir.trees[blocks].blocks
    <3>1. blocks # 0
      BY <2>2, DirectoryFacts DEF TypeInv
    <3> QED
      BY <2>2, <3>1 DEF Quiet
  <2> QED
    BY <2>1, <2>2 DEF TypeInv
<1>3. Rest(b, Frame(t.root)) = Entries(t)
  BY <1>1, <1>2, TreeFacts, RestOfFrame DEF Entries
<1>4. DOMAIN stack' = {1} /\ stack'[1] = Frame(t.root) /\ Frame(t.root).node = t.root
  BY <1>0 DEF Frame
<1>5. Remaining' = Entries(t)
  BY <1>0, <1>3, <1>4 DEF Remaining
<1>6. ToSet(out') = {} /\ Ascending(out')
  BY <1>0, <1>1 DEF ToSet, Ascending
<1>7. \A k, l \in DOMAIN stack' : ~(k < l)
  BY <1>4
<1>8. \A k \in DOMAIN stack' : stack'[k].node \in InUse(t)
  BY <1>4 DEF InUse
<1> QED
  BY <1>0, <1>2, <1>5, <1>6, <1>7, <1>8 DEF OrderInv, Precedes

LEMMA OrderStep ==
  TypeInv /\ SearchInv /\ StackInv /\ OrderInv /\ (Reader \/ NtfsRebuilds) => OrderInv'
<1> SUFFICES ASSUME TypeInv, SearchInv, StackInv, OrderInv, Reader \/ NtfsRebuilds
             PROVE  OrderInv'
  OBVIOUS
<1> USE DEF input, control, search, walk
<1>1. CASE UNCHANGED <<dir, root, walk>> /\ (outcome' = "ok" => outcome = "ok")
  BY <1>1 DEF OrderInv, Quiet, Started, Remaining, Ascending, Precedes
<1>2. CASE Search
  <2>1. stack' = <<>> /\ outcome' # "ok"
    BY <1>2 DEF Search, FindRoot, RootList, Large, AllocList, ReadBlocks, ListEnds,
                NextEntry, Goto, Return, FailedRead, ReadData, SearchInv
  <2> QED
    BY <2>1 DEF OrderInv, Started
<1>3. CASE NoEntries
  BY <1>1, <1>3 DEF NoEntries, Return
<1>4. CASE NtfsRebuilds
  BY <1>1, <1>4 DEF NtfsRebuilds
<1>5. CASE Descend /\ This.sub \notin DOMAIN VCNToBlock
  BY <1>1, <1>5 DEF Descend, Return
<1>6. CASE Tree /\ ~Quiet
  BY <1>6 DEF Tree, Enter, Descend, Add, Leave, Quiet, OrderInv
<1> QED
  BY <1>2, <1>3, <1>4, <1>5, <1>6, OrderEnter, OrderDescend, OrderAdd, OrderLeave
     DEF Reader, Tree

-----------------------------------------------------------------------------
LEMMA NamesStep ==
  TypeInv /\ StackInv /\ NamesInv /\ (Reader \/ NtfsRebuilds) => NamesInv'
<1> SUFFICES ASSUME TypeInv, StackInv, NamesInv, Reader \/ NtfsRebuilds PROVE NamesInv'
  OBVIOUS
<1> USE DEF input, control, search, walk
<1>0. UNCHANGED dir
  BY DEF Reader, Search, Tree, FindRoot, RootList, Large, AllocList, ReadBlocks, Enter,
         Descend, Add, Leave, NoEntries, NtfsRebuilds
<1>1. CASE UNCHANGED <<stack, out>>
  BY <1>0, <1>1 DEF NamesInv, NothingInvented
<1>2. CASE Enter
  <2>1. /\ stack' = <<Frame(dir.trees[root].root)>> /\ UNCHANGED out
        /\ root \in DOMAIN dir.trees
    BY <1>2 DEF Enter, TypeInv
  <2>2. dir.trees[root].root \in NodesOf(dir)
    BY <2>1 DEF NodesOf, Nodes
  <2>3. DOMAIN stack' = {1} /\ stack'[1].node = dir.trees[root].root
    BY <2>1 DEF Frame
  <2> QED
    BY <1>0, <2>1, <2>2, <2>3 DEF NamesInv, NothingInvented
<1>3. CASE Descend /\ This.sub \in DOMAIN VCNToBlock
  <2> DEFINE sub == SubOf(Top)
             node == VCNToBlock[sub]
  <2>1. /\ stack # <<>> /\ UNCHANGED out /\ sub \in DOMAIN VCNToBlock
        /\ stack' = Append(OnTop(Within(Top)), Frame(node))
    BY <1>3, TopFacts DEF Descend, Within
  <2>2. node \in NodesOf(dir)
    <3>1. DOMAIN VCNToBlock # {}
      BY <2>1
    <3>2. blocks \in DOMAIN dir.trees /\ VCNToBlock = dir.trees[blocks].blocks
      BY <3>1 DEF TypeInv
    <3> QED
      BY <2>1, <3>2 DEF NodesOf, Nodes
  <2>3. Within(Top) \in FrameSet /\ Within(Top).node = Top.node
    BY <2>1, TopFacts DEF Within, FrameSet
  <2>4. Frame(node) \in FrameSet /\ Frame(node).node = node
    BY <2>1, BlocksFacts, RestOfFrame DEF AreBlocks, IsFrame, Frame
  <2> HIDE DEF node
  <2>5. \A k \in DOMAIN stack' : stack'[k].node \in NodesOf(dir)
    <3>1. /\ DOMAIN stack' = 1..(Len(stack) + 1) /\ Len(stack) \in Nat \ {0}
          /\ \A k \in 1..(Len(stack) - 1) : stack'[k] = stack[k]
          /\ stack'[Len(stack)] = Within(Top) /\ stack'[Len(stack) + 1] = Frame(node)
      BY <2>1, <2>3, <2>4, PushedFacts
    <3>2. \A k \in 1..Len(stack) : stack[k].node \in NodesOf(dir)
      BY <2>1, TopFacts DEF NamesInv
    <3>3. Top.node \in NodesOf(dir)
      BY <3>1, <3>2, Places DEF Top
    <3> QED
      BY <2>2, <2>3, <2>4, <3>1, <3>2, <3>3, Places
  <2> QED
    BY <1>0, <2>1, <2>5 DEF NamesInv, NothingInvented
<1>4. CASE Descend /\ This.sub \notin DOMAIN VCNToBlock
  BY <1>1, <1>4 DEF Descend
<1>5. ASSUME Add \/ Leave, This.record # 0
      PROVE  This \in EverIn(dir)
  <2>1. stack # <<>>
    BY <1>5 DEF Add, Leave
  <2>2. Top.node \in NodesOf(dir) /\ Top.at \in DOMAIN Top.node
    BY <2>1, TopFacts, NodeFiles DEF NamesInv, Top, IsFrame
  <2>3. This \in Files(Top.node)
    BY <1>5, <2>2 DEF This, Files, ToSet
  <2> QED
    BY <2>2, <2>3 DEF EverIn, NodesOf
<1>6. ASSUME NEW e \in Entry
      PROVE  ToSet(Append(out, e)) = ToSet(out) \cup {e}
  <2>1. /\ Append(out, e) \in Seq(Entry) /\ Len(Append(out, e)) = Len(out) + 1
        /\ Len(out) \in Nat
        /\ \A i \in 1..Len(out) : Append(out, e)[i] = out[i]
        /\ Append(out, e)[Len(out) + 1] = e /\ DOMAIN out = 1..Len(out)
    BY AppendProperties, LenProperties DEF TypeInv
  <2>2. DOMAIN Append(out, e) = DOMAIN out \cup {Len(out) + 1}
    BY <2>1, LenProperties
  <2> QED
    BY <2>1, <2>2 DEF ToSet
<1>7. CASE Add
  <2>1. /\ stack # <<>> /\ Top.at # Len(Top.node) /\ out' = Append(out, This)
        /\ stack' = OnTop(Behind(Top))
    BY <1>7 DEF Add, IsLast, Behind
  <2>2. This.record # 0 /\ This \in Entry
    BY <2>1, TopFacts, NodeFiles DEF IsFrame, IsNode, This
  <2>3. Behind(Top) \in FrameSet /\ Behind(Top).node = Top.node
    <3>1. Top \in FrameSet /\ Top.at + 1 \in Nat \ {0}
      BY <2>1, TopFacts DEF FrameSet
    <3> QED
      BY <3>1 DEF Behind, FrameSet
  <2>4. \A k \in DOMAIN stack' : stack'[k].node \in NodesOf(dir)
    <3>1. /\ DOMAIN stack' = 1..Len(stack) /\ Len(stack) \in Nat \ {0}
          /\ \A k \in 1..(Len(stack) - 1) : stack'[k] = stack[k]
          /\ stack'[Len(stack)] = Behind(Top)
      BY <2>1, <2>3, ReplacedFacts, TopFacts
    <3>2. \A k \in 1..Len(stack) : stack[k].node \in NodesOf(dir)
      BY <2>1, TopFacts DEF NamesInv
    <3> QED
      BY <2>3, <3>1, <3>2, Places DEF Top
  <2> QED
    BY <1>0, <1>5, <1>6, <1>7, <2>1, <2>2, <2>4 DEF NamesInv, NothingInvented
<1>8. CASE Leave
  <2>1. /\ stack # <<>> /\ stack' = Front(stack) /\ This \in Entry
        /\ out' = IF This.record # 0 THEN Append(out, This) ELSE out
    BY <1>8, TopFacts DEF Leave
  <2>2. \A k \in DOMAIN stack' : stack'[k] = stack[k] /\ k \in DOMAIN stack
    <3>1. stack \in Seq(FrameSet)
      BY DEF TypeInv
    <3>2. /\ stack' \in Seq(FrameSet) /\ Len(stack') = Len(stack) - 1
          /\ Len(stack) \in Nat \ {0}
          /\ \A k \in 1..(Len(stack) - 1) : stack'[k] = stack[k]
      BY <2>1, <3>1, PoppedFacts
    <3> QED
      BY <2>1, <3>2, LenProperties, TopFacts, Places
  <2>3. ToSet(out') \subseteq EverIn(dir)
    BY <1>5, <1>6, <1>8, <2>1 DEF NamesInv, NothingInvented
  <2> QED
    BY <1>0, <2>2, <2>3 DEF NamesInv, NothingInvented
<1>9. CASE Search \/ NoEntries \/ NtfsRebuilds
  BY <1>1, <1>9 DEF Search, FindRoot, RootList, Large, AllocList, ReadBlocks, NoEntries,
                    NtfsRebuilds
<1> QED
  BY <1>2, <1>3, <1>4, <1>7, <1>8, <1>9 DEF Reader, Tree

LEMMA IndexStep == IndexInv /\ (Reader \/ NtfsRebuilds) => IndexInv'
BY TypeStep, SearchStep, StackStep, OrderStep, NamesStep, WellKeptStep DEF IndexInv

(* How a call starts, on any version of the directory.                     *)
Starts ==
  /\ IsDirectory(dir) /\ fn \in Function
  /\ version \in DOMAIN dir.trees /\ root \in DOMAIN dir.trees
  /\ pc = "root" /\ outcome = "none" /\ failed = FALSE
  /\ rec = "base" /\ type = "$I30" /\ at = 1
  /\ VCNToBlock = <<>> /\ blocks = 0 /\ stack = <<>> /\ out = <<>>

LEMMA StartsInv == Starts => IndexInv
<1> SUFFICES ASSUME Starts PROVE IndexInv
  OBVIOUS
<1> USE DEF Starts
<1>1. TypeInv
  <2>1. stack \in Seq(FrameSet) /\ out \in Seq(Entry)
    BY EmptySeq
  <2>2. pc \in IndexPC /\ rec \in FileRecord /\ type \in Stream /\ at \in Nat \ {0}
    BY DEF IndexPC, FileRecord, Stream
  <2> QED
    BY <2>1, <2>2 DEF TypeInv
<1>2. SearchInv
  BY DEF SearchInv
<1>3. StackInv
  <2>1. DOMAIN stack = {} /\ 1..(Len(stack) - 1) = {}
    OBVIOUS
  <2> QED
    BY <2>1 DEF StackInv, Started
<1>4. OrderInv
  BY DEF OrderInv, Started
<1>5. NamesInv
  BY DEF NamesInv, NothingInvented, ToSet
<1>6. WellKeptIsAnswered
  BY DEF WellKeptIsAnswered
<1> QED
  BY <1>1, <1>2, <1>3, <1>4, <1>5, <1>6 DEF IndexInv

LEMMA IndexExact == IndexInv => QuietIndexIsExact
<1> SUFFICES ASSUME IndexInv, outcome = "ok", Quiet
             PROVE  /\ ToSet(out) = Entries(dir.trees[root])
                    /\ \A i, j \in DOMAIN out : i < j => out[i].name < out[j].name
  BY DEF QuietIndexIsExact
<1>1. stack = <<>>
  BY DEF IndexInv, StackInv
<1>2. Remaining = {}
  <2>1. DOMAIN stack = {}
    BY <1>1
  <2> QED
    BY <2>1 DEF Remaining
<1>3. Entries(dir.trees[root]) = ToSet(out) \cup Remaining /\ Ascending(out)
  BY DEF IndexInv, OrderInv, Started
<1> QED
  BY <1>2, <1>3 DEF Ascending

LEMMA IndexBounded == IndexInv => RecursionBounded
<1> SUFFICES ASSUME IndexInv PROVE RecursionBounded
  OBVIOUS
<1> USE DEF IndexInv
<1> DEFINE b == VCNToBlock
           K == 1..(Len(stack) - 1)
           f == [k \in K |-> SubOf(stack[k])]
<1>1. Len(stack) \in Nat
  BY LenProperties DEF TypeInv
<1>2. \A v \in DOMAIN b : v \notin Under(b, Below(b[v]))
  <2>1. CASE b = <<>>
    BY <2>1
  <2>2. CASE blocks \in DOMAIN dir.trees /\ b = dir.trees[blocks].blocks
    BY <2>2, DirectoryFacts DEF TypeInv, IsTree
  <2> QED
    BY <2>1, <2>2 DEF TypeInv
<1>3. f \in [K -> DOMAIN b]
  BY DEF StackInv
<1>4. ASSUME NEW k \in K, NEW l \in K, k < l PROVE f[k] # f[l]
  <2>1. l \in (k + 1)..(Len(stack) - 1)
    BY <1>1, <1>4
  <2>2. f[l] \in Under(b, Below(b[f[k]])) /\ f[k] \in DOMAIN b
    BY <2>1 DEF StackInv
  <2> QED
    BY <1>2, <2>2
<1>5. \A k, l \in K : f[k] = f[l] => k = l
  BY <1>1, <1>4
<1>6. IsFiniteSet(DOMAIN b)
  BY BlocksFacts
<1>7. Cardinality(K) = IF Len(stack) = 0 THEN 0 ELSE Len(stack) - 1
  BY <1>1, FS_Interval
<1>8. Cardinality(K) <= Cardinality(DOMAIN b)
  <2> HIDE DEF f, K
  <2>1. f \in Injection(K, DOMAIN b)
    BY <1>3, <1>5 DEF Injection, IsInjective
  <2> QED
    BY <1>6, <2>1, FS_Injection
<1>9. Cardinality(DOMAIN b) \in Nat
  BY <1>6, FS_CardinalityType
<1> QED
  BY <1>1, <1>7, <1>8, <1>9 DEF RecursionBounded

-----------------------------------------------------------------------------
LEMMA IndexUnchanged ==
  IndexInv /\ UNCHANGED <<input, version, control, search, walk>> => IndexInv'
<1> SUFFICES ASSUME IndexInv, UNCHANGED <<input, version, control, search, walk>>
             PROVE  IndexInv'
  OBVIOUS
<1> USE DEF input, control, search, walk
<1>1. /\ \A r, k, t : Has(r, k, t)' <=> Has(r, k, t)
      /\ \A r : (RootIn(r)' <=> RootIn(r)) /\ RootType(r)' = RootType(r)
      /\ SentTo' = SentTo /\ (Quiet' <=> Quiet) /\ (Started' <=> Started)
      /\ \A e : (SendsOn(e)' <=> SendsOn(e)) /\ (Allocates(e)' <=> Allocates(e))
  BY DEF Has, RootIn, RootType, SentTo, Quiet, Started, SendsOn, Allocates
<1>2. TypeInv'
  BY DEF IndexInv, TypeInv
<1>3. SearchInv'
  BY <1>1 DEF IndexInv, SearchInv
<1>4. StackInv'
  BY <1>1 DEF IndexInv, StackInv
<1>5. OrderInv'
  BY <1>1 DEF IndexInv, OrderInv, Remaining
<1>6. NamesInv'
  BY DEF IndexInv, NamesInv, NothingInvented
<1>7. WellKeptIsAnswered'
  <2>1. \A r : Kept(r)' <=> Kept(r)
    BY <1>1 DEF Kept, BlocksAt, Same, InAnother
  <2>2. Answerable' <=> Answerable
    BY <1>1, <2>1 DEF Answerable
  <2> QED
    BY <1>1, <2>2 DEF IndexInv, WellKeptIsAnswered
<1> QED
  BY <1>2, <1>3, <1>4, <1>5, <1>6, <1>7 DEF IndexInv

LEMMA IndexInduction == Spec => []IndexInv
<1>1. Init => IndexInv
  <2> SUFFICES ASSUME Init PROVE Starts
    BY StartsInv
  <2>1. IsDirectory(dir)
    BY IndexAssumption DEF Init
  <2>2. 1 \in DOMAIN dir.trees
    BY <2>1, DirectoryFacts
  <2> QED
    BY <2>1, <2>2 DEF Init, Starts
<1>2. IndexInv /\ [Next]_vars => IndexInv'
  <2> SUFFICES ASSUME IndexInv, [Next]_vars PROVE IndexInv'
    OBVIOUS
  <2>1. CASE UNCHANGED vars
    BY <2>1, IndexUnchanged DEF vars, input, control, search, walk
  <2>2. CASE Done
    BY <2>1, <2>2 DEF Done
  <2> QED
    BY <2>1, <2>2, IndexStep DEF Next
<1> QED
  BY <1>1, <1>2, PTL DEF Spec

(***************************************************************************)
(* Of every directory, whatever its tree: the entries of the tree, each    *)
(* once and in the order of their names, when its root and its blocks were *)
(* read in one version (mt_ntfs_mft_record.cpp:313-354, 440-497).          *)
(***************************************************************************)
THEOREM QuietIndexAlwaysExact == Spec => []QuietIndexIsExact
BY IndexInduction, IndexExact, PTL

(***************************************************************************)
(* Nothing but entries of files, in whatever versions root and blocks were *)
(* read (mt_ntfs_mft_record.cpp:338-353, 478-496).                         *)
(***************************************************************************)
THEOREM NothingEverInvented == Spec => []NothingInvented
<1>1. IndexInv => NothingInvented
  BY DEF IndexInv, NamesInv
<1> QED
  BY <1>1, IndexInduction, PTL

(***************************************************************************)
(* The recursion of parse_entries() and collect_record_ids() is no deeper  *)
(* than there are blocks, also when NTFS rebuilt the tree between the reads *)
(* (mt_ntfs_mft_record.cpp:463).                                           *)
(***************************************************************************)
THEOREM RecursionAlwaysBounded == Spec => []RecursionBounded
BY IndexInduction, IndexBounded, PTL

(***************************************************************************)
(* A directory kept in one of the ways of Answerable is answered, however  *)
(* long its attribute list and deep its tree                               *)
(* (mt_ntfs_mft_record.cpp:509-602).                                       *)
(***************************************************************************)
THEOREM WellKeptAlwaysAnswered == Spec => []WellKeptIsAnswered
<1>1. IndexInv => WellKeptIsAnswered
  BY DEF IndexInv
<1> QED
  BY <1>1, IndexInduction, PTL


-----------------------------------------------------------------------------
(* The first of the entries that match.                                    *)

LEMMA MatchFacts ==
  ASSUME TypeInv, NEW part
  PROVE  /\ Match(part) = 0 => \A i \in DOMAIN out : ~Same_wcsicmp(out[i], part)
         /\ Match(part) # 0 =>
              /\ Match(part) \in DOMAIN out /\ Same_wcsicmp(out[Match(part)], part)
              /\ \A i \in DOMAIN out : Same_wcsicmp(out[i], part) => Match(part) <= i
<1> DEFINE M == {i \in 1..Len(out) : Same_wcsicmp(out[i], part)}
<1>1. Match(part) = IF M # {} THEN Min(M) ELSE 0
  BY DEF Match, SelectInSeq
<1>2. DOMAIN out = 1..Len(out) /\ Len(out) \in Nat
  BY LenProperties DEF TypeInv
<1>3. CASE M # {}
  <2>1. \E m \in M : \A n \in M : m <= n
    <3>1. M \in SUBSET Nat
      OBVIOUS
    <3> HIDE DEF M
    <3> QED BY <1>3, <3>1, NatMin
  <2>2. Min(M) \in M /\ \A n \in M : Min(M) <= n
    BY <2>1 DEF Min
  <2>3. Min(M) # 0
    BY <2>2
  <2> QED
    BY <1>1, <1>2, <1>3, <2>2, <2>3
<1>4. CASE M = {}
  BY <1>1, <1>2, <1>4
<1> QED
  BY <1>3, <1>4

(* In the order of the names, it is the one that Follows speaks of.        *)
LEMMA MatchIsFirst ==
  ASSUME IndexInv, outcome = "ok", Quiet, type = "$I30", NEW part
  PROVE  LET t == dir.trees[root]
         IN /\ Match(part) = 0 => Named(t, part) = {}
            /\ Match(part) # 0 => /\ Match(part) \in DOMAIN out
                                  /\ Named(t, part) # {}
                                  /\ First(Named(t, part)) = out[Match(part)]
<1> DEFINE t == dir.trees[root]
           m == Match(part)
           S == Named(t, part)
<1>1. /\ ToSet(out) = Entries(t) /\ out \in Seq(Entry)
      /\ \A i, j \in DOMAIN out : i < j => out[i].name < out[j].name
  BY IndexExact DEF QuietIndexIsExact, IndexInv, TypeInv
<1>2. S = {out[i] : i \in {i \in DOMAIN out : Same_wcsicmp(out[i], part)}}
  BY <1>1 DEF Named, Same_wcsicmp, NameOf, ToSet
<1>3. TypeInv
  BY DEF IndexInv
<1>4. m = 0 => S = {}
  BY <1>2, <1>3, MatchFacts
<1>5. CASE m # 0
  <2>0. DOMAIN out = 1..Len(out) /\ Len(out) \in Nat
    BY <1>1, LenProperties
  <2>1. /\ m \in DOMAIN out /\ out[m] \in S
        /\ \A i \in DOMAIN out : Same_wcsicmp(out[i], part) => m <= i
    BY <1>2, <1>3, <1>5, MatchFacts
  <2>2. \A e \in S : \E i \in DOMAIN out : e = out[i] /\ m <= i
    BY <1>2, <2>1
  <2>3. ASSUME NEW e \in S, e # out[m] PROVE out[m].name < e.name
    <3>1. PICK i \in DOMAIN out : e = out[i] /\ m <= i
      BY <2>2
    <3>2. m < i
      BY <2>0, <2>1, <2>3, <3>1
    <3> QED
      BY <1>1, <2>1, <3>1, <3>2
  <2>4. \A e \in S : e.name \in Nat
    <3>1. \A i \in DOMAIN out : out[i] \in Entry
      BY <1>1, <2>0, ElementOfSeq
    <3> QED
      BY <1>2, <3>1 DEF Entry
  <2>5. \A f \in S : out[m].name <= f.name
    BY <2>1, <2>3, <2>4
  <2>6. ASSUME NEW e \in S, \A f \in S : e.name <= f.name PROVE e = out[m]
    BY <2>1, <2>3, <2>4, <2>6
  <2>7. First(S) = out[m]
    <3> HIDE DEF S
    <3>1. First(S) \in S /\ \A f \in S : First(S).name <= f.name
      BY <2>1, <2>5 DEF First
    <3> QED BY <2>6, <3>1
  <2>8. m \in DOMAIN out /\ S # {}
    BY <2>1
  <2> QED
    BY <1>5, <2>7, <2>8
<1> QED
  BY <1>4, <1>5

-----------------------------------------------------------------------------
(* The inductive invariant.  A walk is on a volume, whose records are known *)
(* by their numbers; a call alone is not.                                  *)

Walks == request.kind # "call"
Numbers == IF Walks THEN DOMAIN request.mft ELSE {}
Outcome == {"none", "ok", "err", "throws", "stray", "crash"}

WalkInv ==
  /\ IndexInv /\ outcome \in Outcome
  /\ request \in Requests
  /\ place \in {"call", "start", "index", "list", "over"}
  /\ place \in {"start", "index", "list"} => Walks
  /\ place \in {"call", "start"} => trail = <<>>
  /\ trail \in Seq(Numbers)
  /\ place \in {"index", "list"} =>
       /\ trail # <<>> /\ Refers(dir, Numbers)
       /\ Last(trail) \notin reused => dir = request.mft[Last(trail)].dir
  /\ place = "index" => Len(trail) <= Len(request.parts) + 1
  /\ place \notin {"list", "over"} => ret = <<>>
  /\ place # "over" => answer = "none"

(* What has been found of the path, and what that makes of the answer.     *)
TrailInv ==
  /\ quiet => \A k \in 1..(Len(trail) - 1) : trail[k] \notin reused => Follows(k)
  /\ answer = "record" =>
       /\ Len(trail) = Len(request.parts) + 1
       /\ Last(trail) \notin reused => held = request.mft[Last(trail)].file
  /\ quiet /\ answer = "missing" /\ Last(trail) \notin reused =>
       \E t \in Trees(Last(trail)) : Named(t, PartAt(Len(trail))) = {}

(* What is listed and what is still to be looked at are what is shown.     *)
Wanted(e) == request.mft[e.record].folder \in request.wanted
ListInv ==
  place = "list" \/ answer = "listed" =>
    /\ outcome = "ok" /\ todo \subseteq DOMAIN out /\ ret \in Seq(Entry)
    /\ answer = "listed" => todo = {}
    /\ type = "$I30" /\ Quiet /\ reused = {} =>
         /\ ToSet(ret) \cup {out[i] : i \in {i \in todo : Wanted(out[i])}}
              = Shown(Entries(dir.trees[root]))
         /\ Ascending(ret) /\ \A e \in ToSet(ret), i \in todo : e.name < out[i].name

PathInv == WalkInv /\ TrailInv /\ ListInv

LEMMA RequestFacts ==
  ASSUME WalkInv, Walks
  PROVE  /\ request.kind \in {"path", "list"}
         /\ Numbers = DOMAIN request.mft /\ Root \in Numbers
         /\ \A n \in Numbers : /\ IsDirectory(MftRecord(n).dir)
                               /\ Refers(MftRecord(n).dir, Numbers)
         /\ Len(request.parts) \in Nat /\ DOMAIN request.parts = 1..Len(request.parts)
<1>1. IsRequest(request)
  BY PathAssumption DEF WalkInv
<1>2. /\ request.kind \in {"path", "list"} /\ Numbers = DOMAIN request.mft
      /\ Root \in Numbers /\ request.parts \in Seq(Nat)
      /\ \A n \in Numbers : IsRecord(request.mft[n]) /\ Refers(request.mft[n].dir, Numbers)
      /\ IsRecord(request.spare) /\ Refers(request.spare.dir, Numbers)
  BY <1>1 DEF IsRequest, Walks, Numbers
<1>3. \A n \in Numbers : /\ IsDirectory(MftRecord(n).dir)
                         /\ Refers(MftRecord(n).dir, Numbers)
  BY <1>2 DEF MftRecord, IsRecord
<1> QED
  BY <1>2, <1>3, LenProperties

LEMMA AppendFacts ==
  ASSUME NEW S, NEW s \in Seq(S), NEW e \in S
  PROVE  /\ Append(s, e) \in Seq(S) /\ Append(s, e) # <<>>
         /\ Len(Append(s, e)) = Len(s) + 1 /\ Len(s) \in Nat
         /\ DOMAIN s = 1..Len(s) /\ DOMAIN Append(s, e) = 1..(Len(s) + 1)
         /\ \A i \in 1..Len(s) : Append(s, e)[i] = s[i]
         /\ Append(s, e)[Len(s) + 1] = e /\ Last(Append(s, e)) = e
         /\ ToSet(Append(s, e)) = ToSet(s) \cup {e}
<1> DEFINE a == Append(s, e)
<1>1. /\ a \in Seq(S) /\ a # <<>> /\ Len(a) = Len(s) + 1 /\ Len(s) \in Nat
      /\ \A i \in 1..Len(s) : a[i] = s[i]
      /\ a[Len(s) + 1] = e /\ DOMAIN s = 1..Len(s)
  BY AppendProperties, LenProperties
<1> HIDE DEF a
<1>2. DOMAIN a = 1..(Len(s) + 1)
  BY <1>1, LenProperties
<1>3. DOMAIN a = DOMAIN s \cup {Len(s) + 1}
  BY <1>1, <1>2
<1>4. ToSet(a) = ToSet(s) \cup {e}
  BY <1>1, <1>3 DEF ToSet
<1>5. Last(a) = e
  BY <1>1 DEF Last
<1> QED
  BY <1>1, <1>2, <1>4, <1>5 DEF a

(* A record is read: the next directory is asked, or it is the answer.     *)
LEMMA AskStarts == ASSUME NEW d, IsDirectory(d), fn \in Function, Ask(d) PROVE Starts'
BY DEF Ask, Starts

LEMMA StartsInvNext == Starts' => IndexInv'
BY StartsInv, PTL

(***************************************************************************)
(* A record is read.                                                       *)
(***************************************************************************)
LEMMA ReachStep ==
  ASSUME WalkInv, Walks, NEW n \in Numbers, Reach(n), place \in {"start", "index"},
         Len(trail) <= Len(request.parts), UNCHANGED <<request, reused, ret>>,
         quiet' => \A k \in 1..(Len(trail') - 1) : trail'[k] \notin reused => Follows(k)'
  PROVE  PathInv'
<1>0. /\ UNCHANGED <<Walks, Numbers, fn>> /\ place # "over" /\ answer = "none"
      /\ trail' = Append(trail, n) /\ held' = MftRecord(n).file
      /\ trail \in Seq(Numbers) /\ ret = <<>>
  BY DEF Walks, Numbers, WalkInv, Reach, Ask, vars, input
<1>1. /\ trail' \in Seq(Numbers) /\ trail' # <<>> /\ Len(trail') = Len(trail) + 1
      /\ Last(trail') = n /\ Len(trail) \in Nat
  BY <1>0, AppendFacts
<1>2. /\ Len(request.parts) \in Nat /\ DOMAIN request.parts = 1..Len(request.parts)
      /\ IsDirectory(MftRecord(n).dir) /\ Refers(MftRecord(n).dir, Numbers)
      /\ request.kind \in {"path", "list"} /\ Numbers = DOMAIN request.mft
  BY RequestFacts
<1>3. n \notin reused => MftRecord(n) = request.mft[n]
  BY DEF MftRecord
<1>4. CASE Over("record") /\ ~IsPart(Len(trail')) /\ UNCHANGED vars
  <2>1. Len(trail') = Len(request.parts) + 1
    BY <1>1, <1>2, <1>4 DEF IsPart
  <2>2. IndexInv' /\ outcome' \in Outcome
    BY <1>4, IndexUnchanged DEF vars, input, control, search, walk, WalkInv
  <2>3. place' = "over" /\ answer' = "record"
    BY <1>4 DEF Over
  <2>4. WalkInv'
    BY <1>0, <1>1, <2>2, <2>3 DEF WalkInv
  <2>5. TrailInv'
    BY <1>0, <1>1, <1>3, <2>1, <2>3 DEF TrailInv
  <2>6. ListInv'
    BY <2>3 DEF ListInv
  <2> QED
    BY <2>4, <2>5, <2>6 DEF PathInv
<1>5. CASE place' = "index" /\ Ask(MftRecord(n).dir) /\ UNCHANGED answer
  <2>1. fn \in Function
    BY DEF WalkInv, IndexInv, TypeInv
  <2>2. IndexInv'
    BY <1>2, <1>5, <2>1, AskStarts, StartsInvNext
  <2>3. dir' = MftRecord(n).dir /\ outcome' \in Outcome
    BY <1>5 DEF Ask, Outcome
  <2>4. WalkInv'
    BY <1>0, <1>1, <1>2, <1>3, <1>5, <2>2, <2>3 DEF WalkInv
  <2>5. TrailInv'
    BY <1>0, <1>5 DEF TrailInv
  <2>6. ListInv'
    BY <1>0, <1>5 DEF ListInv
  <2> QED
    BY <2>4, <2>5, <2>6 DEF PathInv
<1> QED
  BY <1>4, <1>5 DEF Reach

(* The walk stays where it is, or is over, with the directory as it was.   *)
LEMMA StayFacts ==
  ASSUME PathInv, UNCHANGED <<vars, reused, request, trail>>
  PROVE  IndexInv' /\ outcome' \in Outcome /\ UNCHANGED <<Walks, Numbers, dir>>
BY IndexUnchanged DEF vars, input, control, search, walk, PathInv, WalkInv, Walks, Numbers

LEMMA OverStep ==
  ASSUME PathInv, UNCHANGED <<vars, reused, request, trail, held>>, NEW a, Over(a),
         a \notin {"record", "missing", "listed"}, quiet' => quiet
  PROVE  PathInv'
<1>0. place' = "over" /\ answer' = a
  BY DEF Over
<1>1. WalkInv'
  BY <1>0, StayFacts DEF PathInv, WalkInv
<1>2. TrailInv'
  <2>1. \A k : Follows(k)' <=> Follows(k)
    BY DEF Follows, Trees, PartAt
  <2> QED
    BY <1>0, <2>1 DEF PathInv, TrailInv
<1>3. ListInv'
  BY <1>0 DEF ListInv
<1> QED
  BY <1>1, <1>2, <1>3 DEF PathInv

LEMMA FetchStep == PathInv /\ FetchRoot => PathInv'
<1> SUFFICES ASSUME PathInv, FetchRoot PROVE PathInv'
  OBVIOUS
<1>1. /\ WalkInv /\ place = "start" /\ Walks /\ trail = <<>>
      /\ UNCHANGED <<request, reused, quiet, todo, ret>>
  BY DEF FetchRoot, PathInv, WalkInv
<1>2. CASE Reach(Root)
  <2>1. Root \in Numbers /\ Len(trail) <= Len(request.parts)
    BY <1>1, RequestFacts
  <2>2. trail' = <<Root>>
    BY <1>1, <1>2 DEF Reach
  <2>3. 1..(Len(trail') - 1) = {}
    BY <2>2
  <2> QED
    BY <1>1, <1>2, <2>1, <2>3, ReachStep
<1>3. CASE Over("err") /\ UNCHANGED <<vars, trail, held>>
  BY <1>1, <1>3, OverStep
<1> QED
  BY <1>2, <1>3 DEF FetchRoot

(* The readers and NTFS leave the directory and the walk alone.            *)
LEMMA IndexingStep == PathInv /\ (Index \/ Rebuild) => PathInv'
<1> SUFFICES ASSUME PathInv, Index \/ Rebuild PROVE PathInv'
  OBVIOUS
<1>1. /\ place \in {"call", "index"} /\ UNCHANGED <<reused, path>>
      /\ Reader \/ NtfsRebuilds
  BY DEF Index, Rebuild
<1>2. UNCHANGED dir
  BY <1>1 DEF Reader, Search, Tree, FindRoot, RootList, Large, AllocList, ReadBlocks, Enter,
         Descend, Add, Leave, NoEntries, NtfsRebuilds, input
<1>3. outcome' \in Outcome
  <2>1. outcome \in Outcome
    BY DEF PathInv, WalkInv
  <2> QED
    BY <1>1, <2>1 DEF Outcome, Reader, Search, Tree, FindRoot, RootList, Large, AllocList,
       ReadBlocks, Enter, Descend, Add, Leave, NoEntries, NtfsRebuilds, ListEnds, NextEntry,
       Goto, Return, FailedRead, ReadData, control
<1>4. IndexInv'
  BY <1>1, IndexStep DEF PathInv, WalkInv
<1>5. UNCHANGED <<request, place, answer, trail, held, quiet, todo, ret, Walks, Numbers>>
  BY <1>1 DEF path, Walks, Numbers
<1>6. WalkInv'
  BY <1>1, <1>2, <1>3, <1>4, <1>5 DEF PathInv, WalkInv
<1>7. TrailInv'
  <2>1. \A k : Follows(k)' <=> Follows(k)
    BY <1>5 DEF Follows, Trees, PartAt
  <2> QED
    BY <1>1, <1>5, <2>1 DEF PathInv, WalkInv, TrailInv
<1>8. ListInv'
  BY <1>1, <1>5 DEF PathInv, WalkInv, ListInv
<1> QED
  BY <1>6, <1>7, <1>8 DEF PathInv

LEMMA SearchPartStep == PathInv /\ SearchPart => PathInv'
<1> SUFFICES ASSUME PathInv, SearchPart PROVE PathInv'
  OBVIOUS
<1> DEFINE L == Len(trail)
           t == dir.trees[root]
           m == Match(PartAt(L))
<1>1. /\ WalkInv /\ TrailInv /\ place = "index" /\ Walks /\ IsPart(L) /\ outcome = "ok"
      /\ quiet' = (quiet /\ Quiet /\ type = "$I30")
      /\ UNCHANGED <<request, reused, todo, ret>> /\ answer = "none"
  BY DEF SearchPart, Asked, PathInv, WalkInv
<1>2. /\ IndexInv /\ trail \in Seq(Numbers) /\ trail # <<>> /\ Refers(dir, Numbers)
      /\ Last(trail) \notin reused => dir = request.mft[Last(trail)].dir
  BY <1>1 DEF WalkInv
<1>3. /\ L \in Nat \ {0} /\ L <= Len(request.parts) /\ Last(trail) = trail[L]
      /\ Len(request.parts) \in Nat
  BY <1>1, <1>2, EmptySeq, RequestFacts DEF IsPart, Last
<1>4. t \in ToSet(dir.trees)
  BY <1>2 DEF IndexInv, TypeInv, ToSet
<1>5. CASE m = 0 /\ Over("missing") /\ UNCHANGED <<vars, trail, held>>
  <2>1. place' = "over" /\ answer' = "missing"
    BY <1>5 DEF Over
  <2>2. WalkInv'
    BY <1>1, <1>5, <2>1, StayFacts DEF PathInv, WalkInv
  <2>3. \A k : Follows(k)' <=> Follows(k)
    BY <1>1, <1>5 DEF Follows, Trees, PartAt
  <2>4. ASSUME quiet', Last(trail) \notin reused
        PROVE  \E u \in Trees(Last(trail)) : Named(u, PartAt(L)) = {}
    <3>1. Named(t, PartAt(L)) = {}
      BY <1>1, <1>2, <1>5, <2>4, MatchIsFirst
    <3>2. t \in Trees(Last(trail))
      BY <1>2, <1>4, <2>4 DEF Trees
    <3> QED
      BY <3>1, <3>2
  <2>5. TrailInv'
    BY <1>1, <1>5, <2>1, <2>3, <2>4 DEF TrailInv, Trees, PartAt
  <2>6. ListInv'
    BY <2>1 DEF ListInv
  <2> QED
    BY <2>2, <2>5, <2>6 DEF PathInv
<1>6. CASE m # 0 /\ Reach(out[m].record)
  <2> DEFINE n == out[m].record
  <2>1. m \in DOMAIN out
    <3>1. TypeInv
      BY <1>2 DEF IndexInv
    <3> QED
      BY <1>6, <3>1, MatchFacts
  <2>2. n \in Numbers
    <3>1. out[m] \in EverIn(dir)
      BY <1>2, <2>1 DEF IndexInv, NamesInv, NothingInvented, ToSet
    <3> QED
      BY <1>2, <3>1 DEF Refers
  <2>3. trail' = Append(trail, n)
    BY <1>6 DEF Reach
  <2>4. /\ \A k \in 1..L : trail'[k] = trail[k]
        /\ trail'[L + 1] = n /\ Len(trail') = L + 1
    BY <1>2, <2>2, <2>3, AppendFacts
  <2>5. ASSUME quiet', NEW k \in 1..(Len(trail') - 1), trail'[k] \notin reused
        PROVE  Follows(k)'
    <3>1. k \in 1..L
      BY <1>3, <2>4
    <3>2. CASE k \in 1..(L - 1)
      <4>1. Follows(k)
        BY <1>1, <1>3, <2>4, <2>5, <3>1, <3>2 DEF TrailInv
      <4>2. k + 1 \in 1..L
        BY <1>3, <3>2
      <4> QED
        BY <1>1, <2>4, <3>1, <4>1, <4>2 DEF Follows, Trees, PartAt
    <3>3. CASE k = L
      <4>1. /\ Named(t, PartAt(L)) # {} /\ First(Named(t, PartAt(L))) = out[m]
        BY <1>1, <1>2, <1>6, <2>5, MatchIsFirst
      <4>2. t \in Trees(trail[L])
        BY <1>2, <1>3, <1>4, <2>4, <2>5, <3>1, <3>3 DEF Trees
      <4>3. \E u \in Trees(trail[L]) :
              Named(u, PartAt(L)) # {} /\ First(Named(u, PartAt(L))).record = n
        BY <4>1, <4>2
      <4> HIDE DEF n
      <4> QED
        BY <1>1, <2>4, <3>1, <3>3, <4>3 DEF Follows, Trees, PartAt
    <3> QED
      BY <1>3, <3>1, <3>2, <3>3, Places
  <2> HIDE DEF n
  <2>6. Reach(n)
    BY <1>6 DEF n
  <2> QED
    BY <1>1, <1>3, <2>2, <2>5, <2>6, ReachStep
<1>7. CASE Over("throws") /\ UNCHANGED <<vars, trail, held>>
  BY <1>1, <1>7, OverStep
<1> QED
  BY <1>1, <1>5, <1>6, <1>7 DEF SearchPart

-----------------------------------------------------------------------------
(* list() *)

LEMMA BeginListStep == PathInv /\ BeginList => PathInv'
<1> SUFFICES ASSUME PathInv, BeginList PROVE PathInv'
  OBVIOUS
<1>1. /\ WalkInv /\ TrailInv /\ place = "index" /\ place' = "list" /\ outcome = "ok"
      /\ UNCHANGED <<vars, reused, request, answer, trail, held, quiet, ret>>
      /\ answer = "none" /\ IndexInv /\ ret = <<>>
  BY DEF BeginList, Asked, PathInv, WalkInv
<1>2. PICK s \in ShortEntries : todo' = DOMAIN out \ Hidden(s)
  BY DEF BeginList
<1>3. WalkInv'
  BY <1>1, StayFacts DEF WalkInv
<1>4. TrailInv'
  <2>1. \A k : Follows(k)' <=> Follows(k)
    BY <1>1 DEF Follows, Trees, PartAt
  <2> QED
    BY <1>1, <2>1 DEF TrailInv
<1>5. ToSet(ret) = {} /\ ret \in Seq(Entry) /\ Ascending(ret)
  BY <1>1, EmptySeq DEF ToSet, Ascending
<1>6. ASSUME type = "$I30", Quiet, reused = {}
      PROVE  {out[i] : i \in {i \in todo' : Wanted(out[i])}} = Shown(Entries(dir.trees[root]))
  <2>1. ToSet(out) = Entries(dir.trees[root])
    BY <1>1, <1>6, IndexExact DEF QuietIndexIsExact
  <2>2. s = {i \in DOMAIN out : out[i].name \in Short}
    BY <1>2, <1>6 DEF ShortEntries
  <2>3. ASSUME NEW i \in DOMAIN out
        PROVE  out[i] \in Shown(ToSet(out)) <=> i \in todo' /\ Wanted(out[i])
    <3>1. i \in Hidden(s) <=>
            /\ out[i].name \in Short
            /\ \E f \in ToSet(out) : f.record = out[i].record /\ f.name \notin Short
      BY <2>2, <2>3 DEF Hidden, ToSet
    <3>2. out[i] \in ToSet(out)
      BY <2>3 DEF ToSet
    <3> QED
      BY <1>2, <2>3, <3>1, <3>2 DEF Shown, Wanted
  <2>4. Shown(ToSet(out)) \subseteq {out[i] : i \in DOMAIN out}
    BY DEF Shown, ToSet
  <2>5. todo' \subseteq DOMAIN out
    BY <1>2
  <2> QED
    BY <2>1, <2>3, <2>4, <2>5
<1>7. ListInv'
  <2>1. UNCHANGED <<outcome, type, out, reused, request, ret, dir, root>> /\ (Quiet' <=> Quiet)
    BY <1>1 DEF vars, input, control, search, walk, Quiet
  <2>2. todo' \subseteq DOMAIN out
    BY <1>2
  <2>3. \A e : Wanted(e)' <=> Wanted(e)
    BY <2>1 DEF Wanted
  <2>4. \A E : Shown(E)' = Shown(E)
    BY <2>1 DEF Shown
  <2>5. Entries(dir.trees[root])' = Entries(dir.trees[root]) /\ (Ascending(ret)' <=> Ascending(ret))
    BY <2>1 DEF Ascending
  <2>6. type = "$I30" /\ Quiet /\ reused = {} =>
          ToSet(ret)' \cup {out[i] : i \in {i \in todo' : Wanted(out[i])'}}
            = Shown(Entries(dir.trees[root]))'
    BY <1>5, <1>6, <2>1, <2>3, <2>4, <2>5
  <2> QED
    BY <1>1, <1>5, <2>1, <2>2, <2>5, <2>6 DEF ListInv
<1> QED
  BY <1>3, <1>4, <1>7 DEF PathInv

LEMMA ListEntryStep == PathInv /\ ListEntry => PathInv'
<1> SUFFICES ASSUME PathInv, ListEntry PROVE PathInv'
  OBVIOUS
<1>1. /\ WalkInv /\ TrailInv /\ ListInv /\ place = "list" /\ answer = "none" /\ outcome = "ok"
      /\ UNCHANGED <<vars, reused, request, trail, held, quiet>>
      /\ todo \subseteq DOMAIN out /\ ret \in Seq(Entry) /\ IndexInv
  BY DEF ListEntry, PathInv, WalkInv, ListInv
<1>2. PICK i \in todo :
        /\ \A j \in todo : i <= j
        /\ \/ /\ todo' = todo \ {i}
              /\ ret' = IF MftRecord(out[i].record).folder \in request.wanted
                        THEN Append(ret, out[i]) ELSE ret
              /\ UNCHANGED <<place, answer>>
           \/ Over("err") /\ UNCHANGED <<todo, ret>>
  BY DEF ListEntry
<1>3. CASE Over("err")
  BY <1>1, <1>3, OverStep
<1>4. CASE /\ todo' = todo \ {i}
           /\ ret' = IF MftRecord(out[i].record).folder \in request.wanted
                     THEN Append(ret, out[i]) ELSE ret
           /\ UNCHANGED <<place, answer>>
  <2>1. UNCHANGED <<outcome, type, out, dir, root>> /\ (Quiet' <=> Quiet)
    BY <1>1 DEF vars, input, control, search, walk, Quiet
  <2>2. WalkInv'
    BY <1>1, <1>4, StayFacts DEF WalkInv
  <2>3. TrailInv'
    <3>1. \A k : Follows(k)' <=> Follows(k)
      BY <1>1 DEF Follows, Trees, PartAt
    <3> QED
      BY <1>1, <1>4, <3>1 DEF TrailInv
  <2>4. out[i] \in Entry /\ i \in DOMAIN out /\ DOMAIN out \subseteq Nat
    <3>1. out \in Seq(Entry)
      BY <1>1 DEF IndexInv, TypeInv
    <3> QED
      BY <1>1, <3>1, LenProperties, ElementOfSeq
  <2>5. /\ Append(ret, out[i]) \in Seq(Entry) /\ Len(ret) \in Nat
        /\ DOMAIN ret = 1..Len(ret) /\ DOMAIN Append(ret, out[i]) = 1..(Len(ret) + 1)
        /\ \A k \in 1..Len(ret) : Append(ret, out[i])[k] = ret[k]
        /\ Append(ret, out[i])[Len(ret) + 1] = out[i]
        /\ ToSet(Append(ret, out[i])) = ToSet(ret) \cup {out[i]}
    BY <1>1, <2>4, AppendFacts
  <2>6. ret' \in Seq(Entry) /\ todo' \subseteq DOMAIN out
    BY <1>1, <1>4, <2>5
  <2>7. ASSUME type = "$I30", Quiet, reused = {}
        PROVE  /\ ToSet(ret') \cup {out[j] : j \in {j \in todo' : Wanted(out[j])}}
                    = Shown(Entries(dir.trees[root]))
               /\ Ascending(ret')
               /\ \A e \in ToSet(ret'), j \in todo' : e.name < out[j].name
    <3>1. /\ ToSet(ret) \cup {out[j] : j \in {j \in todo : Wanted(out[j])}}
               = Shown(Entries(dir.trees[root]))
          /\ Ascending(ret) /\ \A e \in ToSet(ret), j \in todo : e.name < out[j].name
          /\ \A j, k \in DOMAIN out : j < k => out[j].name < out[k].name
      BY <1>1, <2>7, IndexExact DEF ListInv, QuietIndexIsExact
    <3>2. MftRecord(out[i].record).folder \in request.wanted <=> Wanted(out[i])
      BY <2>7 DEF MftRecord, Wanted
    <3>3. {out[j] : j \in {j \in todo : Wanted(out[j])}}
            = {out[j] : j \in {j \in todo' : Wanted(out[j])}}
                \cup {out[j] : j \in {j \in {i} : Wanted(out[j])}}
      BY <1>4
    <3>4. CASE Wanted(out[i])
      <4>1. ret' = Append(ret, out[i])
        BY <1>4, <3>2, <3>4
      <4>2. ToSet(ret') \cup {out[j] : j \in {j \in todo' : Wanted(out[j])}}
              = Shown(Entries(dir.trees[root]))
        BY <2>5, <3>1, <3>3, <3>4, <4>1
      <4>3. Ascending(ret')
        <5> SUFFICES ASSUME NEW j \in DOMAIN ret', NEW k \in DOMAIN ret', j < k
                     PROVE  ret'[j].name < ret'[k].name
          BY DEF Ascending
        <5>1. j \in 1..Len(ret) /\ ret'[j] = ret[j]
          BY <2>5, <4>1
        <5>2. CASE k \in 1..Len(ret)
          BY <2>5, <3>1, <4>1, <5>1, <5>2 DEF Ascending
        <5>3. CASE k = Len(ret) + 1
          <6>1. ret[j] \in ToSet(ret)
            BY <2>5, <5>1 DEF ToSet
          <6> QED
            BY <2>5, <3>1, <4>1, <5>1, <5>3, <6>1
        <5> QED
          BY <2>5, <4>1, <5>2, <5>3
      <4>4. ASSUME NEW j \in todo' PROVE out[i].name < out[j].name
        <5>1. j \in todo /\ j # i /\ i <= j /\ j \in DOMAIN out
          BY <1>1, <1>2, <1>4, <4>4
        <5>2. i < j
          BY <2>4, <5>1
        <5> QED
          BY <2>4, <3>1, <5>1, <5>2
      <4> QED
        BY <1>4, <2>5, <3>1, <4>1, <4>2, <4>3, <4>4
    <3>5. CASE ~Wanted(out[i])
      <4>1. ret' = ret
        BY <1>4, <3>2, <3>5
      <4>2. ToSet(ret') \cup {out[j] : j \in {j \in todo' : Wanted(out[j])}}
              = Shown(Entries(dir.trees[root]))
        BY <3>1, <3>3, <3>5, <4>1
      <4> QED
        BY <1>4, <3>1, <4>1, <4>2
    <3> QED
      BY <3>4, <3>5
  <2>8. /\ \A e : Wanted(e)' <=> Wanted(e)
        /\ Shown(Entries(dir.trees[root]))' = Shown(Entries(dir.trees[root]))
        /\ Ascending(ret)' <=> Ascending(ret')
    BY <1>1, <2>1 DEF Wanted, Shown, Ascending
  <2>9. ListInv'
    BY <1>1, <1>4, <2>1, <2>6, <2>7, <2>8 DEF ListInv
  <2> QED
    BY <2>2, <2>3, <2>9 DEF PathInv
<1> QED
  BY <1>2, <1>3, <1>4

LEMMA EndListStep == PathInv /\ EndList => PathInv'
<1> SUFFICES ASSUME PathInv, EndList PROVE PathInv'
  OBVIOUS
<1>1. /\ WalkInv /\ TrailInv /\ ListInv /\ place = "list" /\ answer = "none"
      /\ place' = "over" /\ answer' = "listed" /\ todo = {}
      /\ UNCHANGED <<vars, reused, request, trail, held, quiet, todo, ret>>
  BY DEF EndList, Over, PathInv, WalkInv
<1>2. WalkInv'
  BY <1>1, StayFacts DEF WalkInv
<1>3. TrailInv'
  <2>1. \A k : Follows(k)' <=> Follows(k)
    BY <1>1 DEF Follows, Trees, PartAt
  <2> QED
    BY <1>1, <2>1 DEF TrailInv
<1>4. ListInv'
  <2>1. /\ UNCHANGED <<outcome, type, out, dir, root>> /\ (Quiet' <=> Quiet)
        /\ \A e : Wanted(e)' <=> Wanted(e)
        /\ Shown(Entries(dir.trees[root]))' = Shown(Entries(dir.trees[root]))
        /\ Ascending(ret)' <=> Ascending(ret)
    BY <1>1 DEF vars, input, control, search, walk, Quiet, Wanted, Shown, Ascending
  <2> QED
    BY <1>1, <2>1 DEF ListInv
<1> QED
  BY <1>2, <1>3, <1>4 DEF PathInv

LEMMA ReusesStep == PathInv /\ NtfsReuses => PathInv'
<1> SUFFICES ASSUME PathInv, NtfsReuses PROVE PathInv'
  OBVIOUS
<1>1. /\ WalkInv /\ TrailInv /\ ListInv /\ place # "over" /\ answer = "none"
      /\ reused = {} /\ reused' # {} /\ UNCHANGED <<vars, path>>
  BY DEF NtfsReuses, Asked, PathInv, WalkInv
<1>2. IndexInv' /\ UNCHANGED <<outcome, dir, out>>
  BY <1>1, IndexUnchanged DEF vars, input, control, search, walk, WalkInv
<1>3. UNCHANGED <<request, place, answer, trail, held, quiet, todo, ret, Walks, Numbers>>
  BY <1>1 DEF path, Walks, Numbers
<1>4. WalkInv'
  BY <1>1, <1>2, <1>3 DEF WalkInv
<1>5. TrailInv'
  <2>1. \A k : Follows(k)' <=> Follows(k)
    BY <1>3 DEF Follows, Trees, PartAt
  <2> QED
    BY <1>1, <1>3, <2>1 DEF TrailInv
<1>6. ListInv'
  BY <1>1, <1>2, <1>3 DEF ListInv
<1> QED
  BY <1>4, <1>5, <1>6 DEF PathInv

-----------------------------------------------------------------------------
LEMMA PathUnchanged == PathInv /\ UNCHANGED pathVars => PathInv'
<1> SUFFICES ASSUME PathInv, UNCHANGED pathVars PROVE PathInv'
  OBVIOUS
<1>1. UNCHANGED <<vars, reused, request, place, answer, trail, held, quiet, todo, ret>>
  BY DEF pathVars, path
<1>2. WalkInv'
  BY <1>1, StayFacts DEF PathInv, WalkInv
<1>3. TrailInv'
  <2>1. \A k : Follows(k)' <=> Follows(k)
    BY <1>1 DEF Follows, Trees, PartAt
  <2> QED
    BY <1>1, <2>1 DEF PathInv, TrailInv, Trees, PartAt
<1>4. ListInv'
  <2>1. /\ UNCHANGED <<outcome, type, out, dir, root>> /\ (Quiet' <=> Quiet)
        /\ \A e : Wanted(e)' <=> Wanted(e)
        /\ Shown(Entries(dir.trees[root]))' = Shown(Entries(dir.trees[root]))
        /\ Ascending(ret)' <=> Ascending(ret)
    BY <1>1 DEF vars, input, control, search, walk, Quiet, Wanted, Shown, Ascending
  <2> QED
    BY <1>1, <2>1 DEF PathInv, ListInv
<1> QED
  BY <1>2, <1>3, <1>4 DEF PathInv

LEMMA PathInduction == PathSpec => []PathInv
<1>1. PathInit => PathInv
  <2> SUFFICES ASSUME PathInit PROVE PathInv
    OBVIOUS
  <2>1. IsDirectory(dir) /\ 1 \in DOMAIN dir.trees
    <3>1. dir \in Directories
      BY DEF PathInit, Init
    <3> QED
      BY <3>1, IndexAssumption, DirectoryFacts
  <2>2. Starts
    BY <2>1 DEF PathInit, Init, Starts
  <2>3. /\ IndexInv /\ outcome = "none" /\ trail = <<>> /\ answer = "none" /\ ret = <<>>
        /\ request \in Requests /\ place = IF request.kind = "call" THEN "call" ELSE "start"
    BY <2>2, StartsInv DEF PathInit, Starts
  <2>4. WalkInv
    <3>1. trail \in Seq(Numbers)
      BY <2>3, EmptySeq
    <3> QED
      BY <2>3, <3>1 DEF WalkInv, Walks, Outcome
  <2>5. TrailInv
    <3>1. 1..(Len(trail) - 1) = {}
      BY <2>3
    <3> QED
      BY <2>3, <3>1 DEF TrailInv
  <2>6. ListInv
    BY <2>3 DEF ListInv
  <2> QED
    BY <2>4, <2>5, <2>6 DEF PathInv
<1>2. PathInv /\ [PathNext]_pathVars => PathInv'
  <2> SUFFICES ASSUME PathInv, [PathNext]_pathVars PROVE PathInv'
    OBVIOUS
  <2>1. CASE CallReturns \/ IndexFails
    <3>1. /\ UNCHANGED <<vars, reused, request, trail, held, quiet>> /\ Over(outcome)
          /\ outcome \in Outcome
      BY <2>1 DEF CallReturns, IndexFails, PathInv, WalkInv
    <3> QED
      BY <3>1, OverStep DEF Outcome
  <2>2. CASE UNCHANGED pathVars
    BY <2>2, PathUnchanged
  <2> QED
    BY <2>1, <2>2, FetchStep, IndexingStep, SearchPartStep, BeginListStep, ListEntryStep,
       EndListStep, ReusesStep DEF PathNext, Walker, RecordFromPath, Listing, PathDone
<1> QED
  BY <1>1, <1>2, PTL DEF PathSpec

(***************************************************************************)
(* Along every path the records are those the directories name, also when  *)
(* other directories are rebuilt or records reused on the way              *)
(* (mt_ntfs_mft_walker.cpp:117-145).                                       *)
(***************************************************************************)
THEOREM PathAlwaysExact == PathSpec => []PathIsExact
<1>1. PathInv => PathIsExact
  BY DEF PathInv, TrailInv, PathIsExact
<1> QED
  BY <1>1, PathInduction, PTL

(***************************************************************************)
(* list() gives the files of the kinds asked for, with the short names     *)
(* left out that have a long one beside them, in the order of the names    *)
(* (mt_ntfs_mft_walker.cpp:207-236).                                       *)
(***************************************************************************)
THEOREM ListAlwaysExact == PathSpec => []ListIsExact
<1>1. PathInv => ListIsExact
  BY DEF PathInv, ListInv, ListIsExact, Ascending
<1> QED
  BY <1>1, PathInduction, PTL

(***************************************************************************)
(* And what holds of a single call of index() holds of each on the way.    *)
(***************************************************************************)
THEOREM IndexOnTheWay ==
  PathSpec => /\ []QuietIndexIsExact /\ []NothingInvented
              /\ []RecursionBounded /\ []WellKeptIsAnswered
<1>1. PathInv => /\ QuietIndexIsExact /\ NothingInvented
                 /\ RecursionBounded /\ WellKeptIsAnswered
  BY IndexExact, IndexBounded DEF PathInv, WalkInv, IndexInv, NamesInv
<1> QED
  BY <1>1, PathInduction, PTL

=============================================================================
