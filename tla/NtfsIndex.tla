----------------------------- MODULE NtfsIndex ------------------------------
(***************************************************************************)
(* mt_ntfs_mft_record::index_records() and index(), and MFTRecord::index():*)
(* the entries of one directory.  The root of its B-tree is an attribute   *)
(* of the record, the other nodes are blocks of another one; in a          *)
(* directory with an attribute list either may be in an extension record.  *)
(* The volume is in use: NTFS may rebuild the tree between the reads.      *)
(* index_records() hands back a set of record numbers and index() a vector *)
(* of entries; both are modelled by the entries in the order in which they *)
(* are added.                                                              *)
(***************************************************************************)
EXTENDS Integers, Sequences, FiniteSets, SequencesExt

CONSTANTS
  Directories,       \* the directories asked: see IsDirectory
  HeaderSize         \* sizeof(MFT_RECORD_ATTRIBUTE_HEADER)

Function == {"index_records", "index", "MFTRecord::index"}
FileRecord == {"base", "ext1", "ext2"}
Kind == {"$INDEX_ROOT", "$INDEX_ALLOCATION"}
Stream == {"$I30", "$R"}
List == <<"$ATTRIBUTE_LIST", "">>
Other == <<"$STANDARD_INFORMATION", "">>
Attribute == (Kind \X Stream) \cup {List, Other}

(* A node is a sequence of entries, each behind its sub-node (a VCN) if it *)
(* has one.  The last carries no name, and the record number 0.            *)
NoNode == 0
Entry == [name : Nat, record : Nat, sub : Nat]
Files(node) == {e \in ToSet(node) : e.record # 0}
Below(node) == {node[i].sub : i \in DOMAIN node} \ {NoNode}

(* Of the blocks b of a tree, those that are reached from some of them:    *)
(* they are in every set that is closed under taking sub-nodes.            *)
Under(b, vcns) ==
  {v \in DOMAIN b : \A V \in SUBSET DOMAIN b :
     /\ vcns \cap DOMAIN b \subseteq V
     /\ \A u \in V : Below(b[u]) \cap DOMAIN b \subseteq V
     => v \in V}
FilesUnder(b, vcns) == UNION {Files(b[v]) : v \in Under(b, vcns)}
Entries(t) == Files(t.root) \cup FilesUnder(t.blocks, Below(t.root))

(* The nodes of a tree that are no free blocks. *)
InUse(t) == {t.root} \cup {t.blocks[v] : v \in Under(t.blocks, Below(t.root))}

(* The entries of all blocks that have their magic, in all versions.       *)
Nodes(t) == {t.root} \cup {t.blocks[v] : v \in DOMAIN t.blocks}
EverIn(d) == UNION {UNION {Files(n) : n \in Nodes(d.trees[i])} : i \in DOMAIN d.trees}

(* A node of a search tree: what is below an entry comes before it, and    *)
(* the entry before whatever follows it in the node.                       *)
InOrder(b, node) ==
  \A i \in DOMAIN node :
    /\ i < Len(node) => \A e \in FilesUnder(b, {node[i].sub}) : e.name < node[i].name
    /\ \A j \in (i + 1)..Len(node) :
         /\ j < Len(node) => node[i].name < node[j].name
         /\ \A e \in FilesUnder(b, {node[j].sub}) : node[i].name < e.name

IsNode(n) ==
  /\ n \in Seq(Entry) /\ n # <<>>
  /\ \A i \in DOMAIN n : n[i].record = 0 <=> i = Len(n)

(* Below no block is the block itself, also where blocks are free: these   *)
(* hold what they held when they were in use.  Those in use are complete   *)
(* and in order.                                                           *)
IsTree(t) ==
  /\ IsNode(t.root) /\ t.large \in BOOLEAN
  /\ IsFiniteSet(DOMAIN t.blocks) /\ DOMAIN t.blocks \subseteq Nat \ {NoNode}
  /\ ~t.large => t.blocks = <<>>
  /\ \A v \in DOMAIN t.blocks :
       IsNode(t.blocks[v]) /\ v \notin Under(t.blocks, Below(t.blocks[v]))
  /\ \A n \in InUse(t) : Below(n) \subseteq DOMAIN t.blocks /\ InOrder(t.blocks, n)

(* holds: the attributes of each record; list: the attribute list; whole:  *)
(* $INDEX_ALLOCATION is one attribute of one data run, hence one read;     *)
(* trees: the tree as it is, and as NTFS then remakes it.                  *)
IsDirectory(d) ==
  /\ d.holds \in [FileRecord -> SUBSET Attribute]
  /\ d.list \in Seq([attribute : Attribute, record : FileRecord, size : Nat \ {0}])
  /\ \A i \in DOMAIN d.list : d.list[i].attribute \in d.holds[d.list[i].record]
  /\ d.whole \in BOOLEAN
  /\ Len(d.trees) \in Nat \ {0} /\ DOMAIN d.trees = 1..Len(d.trees)
  /\ \A i \in DOMAIN d.trees : IsTree(d.trees[i])

ASSUME IndexAssumption ==
  HeaderSize \in Nat /\ \A d \in Directories : IsDirectory(d)

VARIABLES
  dir, fn,           \* what is asked, and the function called
  version,           \* the tree that is on the disk
  pc, outcome,
  failed,            \* did a read fail?
  rec, type, at,     \* the record searched, the index's name, place in the list
  root,              \* the version of the root
  VCNToBlock, blocks,  \* the blocks, and their version
  stack,             \* the calls of collect_record_ids() or parse_entries()
  out                \* the entries added so far

input == <<dir, fn>>
control == <<pc, outcome, failed>>
search == <<rec, type, at, root>>
walk == <<VCNToBlock, blocks, stack, out>>
vars == <<input, version, control, search, walk>>

Init ==
  /\ dir \in Directories /\ fn \in Function
  /\ version = 1 /\ root = 1 /\ blocks = 0
  /\ pc = "root" /\ outcome = "none" /\ failed = FALSE
  /\ rec = "base" /\ type = "$I30" /\ at = 1
  /\ VCNToBlock = <<>> /\ stack = <<>> /\ out = <<>>

Has(r, kind, t) == <<kind, t>> \in dir.holds[r]
Goto(p) == pc' = p /\ UNCHANGED <<outcome, failed>>
Return(o) == pc' = "end" /\ outcome' = o /\ UNCHANGED failed
FailedRead(o) == pc' = "end" /\ outcome' = o /\ failed' = TRUE

(* attribute_data() that cannot read shrinks a buffer that is null.        *)
ReadData(p) == Goto(p) \/ FailedRead("crash")

-----------------------------------------------------------------------------
(* The search for the attributes *)

FindRoot ==
  /\ pc = "root"
  /\ \/ Has(rec, "$INDEX_ROOT", "$I30") /\ type' = "$I30" /\ Goto("large")
     \/ /\ ~Has(rec, "$INDEX_ROOT", "$I30") /\ type' = "$R"
        /\ IF Has(rec, "$INDEX_ROOT", "$R") THEN Goto("large")
           ELSE IF List \in dir.holds[rec] THEN ReadData("rootList")
           ELSE Return("err")
  /\ UNCHANGED <<input, version, rec, at, root, walk>>

(* index() wants room for an attribute header behind offset; for           *)
(* index_records() offset may be the size of the list, and what is read    *)
(* there looks like nothing, or like an entry for some record, or is not   *)
(* there to be read.                                                       *)
Left == FoldLeft(LAMBDA n, e : n + e.size, 0, SubSeq(dir.list, at, Len(dir.list)))
InList == at \in DOMAIN dir.list /\ (fn # "index_records" => HeaderSize <= Left)
ListEnds ==
  /\ ~InList
  /\ \/ Return("err")
     \/ fn = "index_records" /\ \E o \in {"throws", "stray", "crash"} : Return(o)
  /\ UNCHANGED search

(* Bug: an entry that is passed over leaves the offset where it is. *)
NextEntry_Stays == UNCHANGED <<at, control, rec, type, root>>
NextEntry == at' = at + 1 /\ UNCHANGED <<control, rec, type, root>>

(* Whatever the name of the index: the function is called on that record.  *)
SendsOn(e) == e.attribute[1] = "$INDEX_ROOT" /\ e.record # rec
RootList ==
  /\ pc = "rootList"
  /\ \/ ListEnds
     \/ InList /\ ~SendsOn(dir.list[at]) /\ NextEntry
     \/ /\ InList /\ SendsOn(dir.list[at])
        /\ \/ /\ Goto("root")
              /\ rec' = dir.list[at].record /\ root' = version /\ at' = 1
           \/ FailedRead("throws") /\ UNCHANGED <<rec, root, at>>
        /\ UNCHANGED type
  /\ UNCHANGED <<input, version, walk>>

Large ==
  /\ pc = "large"
  /\ IF ~dir.trees[root].large THEN Goto("entries")
     ELSE IF Has(rec, "$INDEX_ALLOCATION", type) THEN Goto("blocks")
     ELSE IF fn = "index_records" /\ List \in dir.holds[rec] THEN ReadData("allocList")
     ELSE Return("err")
  /\ at' = 1
  /\ UNCHANGED <<input, version, rec, type, root, walk>>

Allocates(e) == e.attribute = <<"$INDEX_ALLOCATION", type>> /\ e.record # rec
AllocList ==
  /\ pc = "allocList"
  /\ \/ ListEnds
     \/ InList /\ ~Allocates(dir.list[at]) /\ NextEntry
     \/ /\ InList /\ Allocates(dir.list[at])
        /\ \/ FailedRead("err")
           \/ IF Has(dir.list[at].record, "$INDEX_ALLOCATION", type)
              THEN Goto("blocks") ELSE Return("err")
        /\ UNCHANGED search
  /\ UNCHANGED <<input, version, walk>>

(* Bug: a block that is not in use ends the list of blocks. *)
Parsed_ToFree(b) == [v \in {v \in DOMAIN b : 1..v \subseteq DOMAIN b} |-> b[v]]

(* _parse_index_block(): the blocks with the magic, by their VCNs.         *)
Parsed(b) == b

(* attribute_data() takes one piece of $INDEX_ALLOCATION to be all of it.  *)
ReadBlocks ==
  /\ pc = "blocks"
  /\ \/ /\ dir.whole /\ Goto("entries")
        /\ VCNToBlock' = Parsed(dir.trees[version].blocks)
        /\ blocks' = version
     \/ FailedRead("crash") /\ UNCHANGED <<VCNToBlock, blocks>>
  /\ UNCHANGED <<input, version, search, stack, out>>

-----------------------------------------------------------------------------
(* The tree *)

Frame(node) == [node |-> node, at |-> 1, inside |-> FALSE]
Top == stack[Len(stack)]
This == Top.node[Top.at]
OnTop(f) == [stack EXCEPT ![Len(stack)] = f]
IsLast == Top.at = Len(Top.node)

Enter ==
  /\ pc = "entries" /\ fn # "MFTRecord::index" /\ stack = <<>>
  /\ stack' = <<Frame(dir.trees[root].root)>>
  /\ UNCHANGED <<input, version, control, search, VCNToBlock, blocks, out>>

(* Bug: the call is made with the node it is made from. *)
Descend_Again ==
  /\ pc = "entries" /\ stack # <<>> /\ This.sub # NoNode /\ ~Top.inside
  /\ IF This.sub \in DOMAIN VCNToBlock
     THEN /\ stack' = Append(OnTop([Top EXCEPT !.inside = TRUE]),
                             Frame(Top.node))
          /\ UNCHANGED control
     ELSE Return("err") /\ UNCHANGED stack
  /\ UNCHANGED <<input, version, search, VCNToBlock, blocks, out>>

Descend ==
  /\ pc = "entries" /\ stack # <<>> /\ This.sub # NoNode /\ ~Top.inside
  /\ IF This.sub \in DOMAIN VCNToBlock
     THEN /\ stack' = Append(OnTop([Top EXCEPT !.inside = TRUE]),
                             Frame(VCNToBlock[This.sub]))
          /\ UNCHANGED control
     ELSE Return("err") /\ UNCHANGED stack
  /\ UNCHANGED <<input, version, search, VCNToBlock, blocks, out>>

(* Bug: an entry is added in place of its sub-node. *)
Add_WithoutSub ==
  /\ pc = "entries" /\ stack # <<>> /\ ~IsLast
  /\ out' = Append(out, This)
  /\ stack' = OnTop([Top EXCEPT !.at = @ + 1, !.inside = FALSE])
  /\ UNCHANGED <<input, version, control, search, VCNToBlock, blocks>>

Add ==
  /\ pc = "entries" /\ stack # <<>> /\ ~IsLast
  /\ This.sub = NoNode \/ Top.inside
  /\ out' = Append(out, This)
  /\ stack' = OnTop([Top EXCEPT !.at = @ + 1, !.inside = FALSE])
  /\ UNCHANGED <<input, version, control, search, VCNToBlock, blocks>>

(* Bug: the last entry is taken for one like the others. *)
Leave_Added ==
  /\ pc = "entries" /\ stack # <<>> /\ IsLast
  /\ This.sub = NoNode \/ Top.inside
  /\ out' = Append(out, This)
  /\ stack' = Front(stack)
  /\ IF Len(stack) = 1 THEN Return("ok") ELSE UNCHANGED control
  /\ UNCHANGED <<input, version, search, VCNToBlock, blocks>>

(* The last entry is one only when it refers to a file.                    *)
Leave ==
  /\ pc = "entries" /\ stack # <<>> /\ IsLast
  /\ This.sub = NoNode \/ Top.inside
  /\ out' = IF This.record # 0 THEN Append(out, This) ELSE out
  /\ stack' = Front(stack)
  /\ IF Len(stack) = 1 THEN Return("ok") ELSE UNCHANGED control
  /\ UNCHANGED <<input, version, search, VCNToBlock, blocks>>

(* NTFS splits or merges the nodes of the directory.                       *)
NtfsRebuilds ==
  /\ pc # "end" /\ version < Len(dir.trees)
  /\ version' = version + 1
  /\ UNCHANGED <<input, control, search, walk>>

(* In MFTRecord::index() the call of parse_entries() is commented out, and *)
(* the vector that is never filled is an error.                            *)
NoEntries ==
  /\ pc = "entries" /\ fn = "MFTRecord::index"
  /\ Return("err")
  /\ UNCHANGED <<input, version, search, walk>>

Search == FindRoot \/ RootList \/ Large \/ AllocList \/ ReadBlocks
Tree == Enter \/ Descend \/ Add \/ Leave
Reader == Search \/ Tree \/ NoEntries
Done == pc = "end" /\ UNCHANGED vars

Next == Reader \/ NtfsRebuilds \/ Done

Spec == Init /\ [][Next]_vars
-----------------------------------------------------------------------------
Quiet == blocks \in {0, root}

(***************************************************************************)
(* A tree that is not rebuilt between the read of its root and that of its *)
(* blocks is handed back whole: each of its entries once, those of free    *)
(* blocks not, in the order of their names, which is what the search of    *)
(* record_from_path() goes by (mt_ntfs_mft_record.cpp:313-354, 440-497).   *)
(***************************************************************************)
QuietIndexIsExact ==
  outcome = "ok" /\ Quiet =>
    /\ ToSet(out) = Entries(dir.trees[root])
    /\ \A i, j \in DOMAIN out : i < j => out[i].name < out[j].name

(***************************************************************************)
(* Where the root is of one version of the tree and the blocks of another, *)
(* entries may be missing, doubled or out of order, but each is the entry  *)
(* of a file in some version: a last entry, which is not one of a file, is *)
(* never handed back (mt_ntfs_mft_record.cpp:338-353, 478-496).            *)
(***************************************************************************)
NothingInvented == ToSet(out) \subseteq EverIn(dir)

(***************************************************************************)
(* The recursion is never deeper than there are blocks, also when the root *)
(* is of one version of the tree and the blocks are of another: nothing in *)
(* the code bounds it (mt_ntfs_mft_record.cpp:463).                        *)
(***************************************************************************)
RecursionBounded == Len(stack) <= 1 + Cardinality(DOMAIN VCNToBlock)

(***************************************************************************)
(* A directory NTFS keeps in one of these ways is answered, unless a read  *)
(* fails or the tree is rebuilt: everything in one record, this one or the *)
(* first the list gives for the root, or, for index_records() only, the    *)
(* root here and the blocks in another record (mt_ntfs_mft_record.cpp:     *)
(* 509-602); never with the root in one extension record and the blocks in *)
(* another, nor with blocks in pieces, nor, for index(), when the root's   *)
(* entry is among the last of the list.                                    *)
(***************************************************************************)
RootIn(r) == \E t \in Stream : Has(r, "$INDEX_ROOT", t)
Same(r) == \A t \in Stream :
             Has(r, "$INDEX_ROOT", t) => Has(r, "$INDEX_ALLOCATION", t)
RootType(r) == IF Has(r, "$INDEX_ROOT", "$I30") THEN "$I30" ELSE "$R"
InAnother(r) == \E i \in DOMAIN dir.list :
                  /\ fn = "index_records" /\ List \in dir.holds[r]
                  /\ dir.list[i].attribute = <<"$INDEX_ALLOCATION", RootType(r)>>
                  /\ dir.list[i].record # r
BlocksAt(r) == dir.whole /\ (Same(r) \/ InAnother(r))
Kept(r) == RootIn(r) /\ (dir.trees[root].large => BlocksAt(r))
SentTo == {dir.list[i].record :
             i \in {i \in DOMAIN dir.list : dir.list[i].attribute[1] = "$INDEX_ROOT"}}
Answerable ==
  \/ Kept("base")
  \/ /\ ~RootIn("base") /\ List \in dir.holds["base"]
     /\ fn = "index_records" /\ \A r \in SentTo : Kept(r)
     /\ SentTo # {}
WellKeptIsAnswered ==
  pc = "end" /\ Answerable /\ Quiet /\ ~failed /\ fn # "MFTRecord::index" =>
    outcome = "ok"
=============================================================================
