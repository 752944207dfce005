------------------------------ MODULE NtfsFile ------------------------------
(***************************************************************************)
(* The $DATA attributes of a file, in one record or spread over several,   *)
(* what the code gets to see of them, and what the file really contains.   *)
(* An extent is what NTFS stores of some clusters: "data" as they are,     *)
(* "packed" compressed by LZNT1, "hole" not at all.                        *)
(*                                                                         *)
(* A volume gives each record its $DATA attributes, its attribute list     *)
(* (the entries for $DATA, in order; none if empty), how many of these     *)
(* have room for an attribute header from there to the end of the list     *)
(* (seen), and the algorithm of its reparse point for files compressed as  *)
(* a whole (WOF), if it has one.                                           *)
(***************************************************************************)
EXTENDS Integers, Sequences, FiniteSets, SequencesExt

CONSTANTS
  Cluster,           \* the units of a cluster
  Unit               \* the clusters of a compression unit (16)

ASSUME FileAssumption == Cluster \in Nat \ {0} /\ Unit \in Nat \ {0, 1}

Base == 0            \* the record the stream is asked of
Unnamed == ""        \* the stream of a file that has no name of its own
Zero == 0            \* the contents of a hole
Garbage == -1

Zeros(n) == [i \in 1..n |-> Zero]

-----------------------------------------------------------------------------
(* What is there. *)
(* A unit of the disk holds its position; what is stored packed at cluster *)
(* l is given names of its own.                                            *)
Unpacked(l) == [i \in 1..(Unit * Cluster) |-> 1000 * l + i]

ExtentContent(e, last) ==
  CASE e.kind = "data"   -> [i \in 1..(e.len * Cluster) |-> e.at * Cluster + i - 1]
    [] e.kind = "packed" -> Unpacked(e.at)
    [] e.kind = "hole"   -> Zeros((IF last.kind = "packed"
                                   THEN e.len + last.len - Unit ELSE e.len)
                                  * Cluster)

NoExtent == [kind |-> "none", at |-> 0, len |-> 0]

(* The contents of an attribute, to the end of its last cluster. *)
Allocated(a) ==
  IF a.form = "resident" THEN a.value
  ELSE FlattenSeq([j \in DOMAIN a.extents |->
         ExtentContent(a.extents[j],
                       IF j = 1 THEN NoExtent ELSE a.extents[j - 1])])

HasStream(rec, name) == \E j \in DOMAIN rec.data : rec.data[j].name = name

(* attribute_header($DATA, name): the first of that name in the record. *)
Find(rec, name) ==
  rec.data[CHOOSE j \in DOMAIN rec.data :
             /\ rec.data[j].name = name
             /\ \A i \in 1..(j - 1) : rec.data[i].name # name]

(* The entries of a list for a stream, and those at the indices I in order *)
(* (SelectSeq without its recursion).                                      *)
Named(list, name) == {j \in DOMAIN list : list[j].name = name}
Nth(I, j) == CHOOSE i \in I : Cardinality({h \in I : h <= i}) = j
Picked(list, I) == [j \in 1..Cardinality(I) |-> list[Nth(I, j)]]

(* The attributes that make up a stream: the one in the record, or those   *)
(* its attribute list names, in order.                                     *)
Pieces(v, name) ==
  IF v[Base].list = <<>>
  THEN IF HasStream(v[Base], name) THEN <<Find(v[Base], name)>> ELSE <<>>
  ELSE LET named == Picked(v[Base].list, Named(v[Base].list, name))
       IN  [j \in DOMAIN named |-> Find(v[named[j].rec], name)]

(* datasize(attr, real_size) *)
SizeOf(a, virtual) == IF a.form = "resident" THEN Len(a.value)
                      ELSE IF virtual THEN a.alloc ELSE a.size

Joined(ps) == FlattenSeq([j \in DOMAIN ps |-> Allocated(ps[j])])
Contents(v, name, virtual) ==
  LET ps == Pieces(v, name)
  IN  IF ps = <<>> THEN <<>> ELSE SubSeq(Joined(ps), 1, SizeOf(ps[1], virtual))

-----------------------------------------------------------------------------
(* A volume NTFS would write. *)
Extent == [kind : {"data", "packed", "hole"}, at : Nat, len : Nat \ {0},
           before : Nat]   \* the clusters of the attribute before it

(* No cluster is in two extents. *)
Apart(e, f) == e.at + e.len <= f.at \/ f.at + f.len <= e.at

IsAttribute(a) ==
  /\ a.name \in STRING /\ a.form \in {"resident", "runs"} /\ a.packed \in BOOLEAN
  /\ a.form = "resident" => a.value \in Seq(Int) /\ a.extents = <<>>
  /\ a.form = "runs" =>
       /\ a.extents \in Seq(Extent) /\ a.size \in Nat /\ a.alloc \in Nat
       /\ \A j \in DOMAIN a.extents :
            a.extents[j].before = IF j = 1 THEN 0
                                  ELSE a.extents[j - 1].before + a.extents[j - 1].len
       /\ \A j \in DOMAIN a.extents : a.extents[j].kind = "packed" => a.packed
       /\ \A i, j \in DOMAIN a.extents :
            i # j /\ "hole" \notin {a.extents[i].kind, a.extents[j].kind} =>
              Apart(a.extents[i], a.extents[j])

(* The units that an attribute has room for. *)
End(a) == IF a.extents = <<>> THEN 0
          ELSE LET e == a.extents[Len(a.extents)] IN (e.before + e.len) * Cluster

(* The stream of a file compressed as a whole, of one unit at most. *)
IsWof(v, a) ==
  /\ a.window \in Nat /\ a.chunks \in Seq(Nat) /\ a.extents # <<>>
  /\ HasStream(v[Base], Unnamed)
  /\ LET whole == Find(v[Base], Unnamed)
     IN  /\ whole.form = "runs" /\ whole.size <= Unit * Cluster
         /\ a.window * (Len(a.chunks) - 1) <= whole.size

(* The pieces of a stream: the first has its sizes, and they have room for *)
(* all of it; a resident one is alone.                                     *)
IsStream(ps) ==
  /\ ps[1].form = "runs" => /\ ps[1].size <= ps[1].alloc
                            /\ ps[1].alloc = Len(Joined(ps))
  /\ \A j \in DOMAIN ps : ps[j].form = "resident" => Len(ps) = 1

(* The attribute list names each attribute, by its record; the base record *)
(* comes first, because what begins a stream stays there if it can.        *)
IsVolume(v) ==
  /\ Base \in DOMAIN v /\ DOMAIN v \in SUBSET Nat
  /\ v[Base].list \in Seq([name : STRING, rec : DOMAIN v])
  /\ v[Base].seen \in 0..Len(v[Base].list)
  /\ \A j \in DOMAIN v[Base].list : HasStream(v[v[Base].list[j].rec], v[Base].list[j].name)
  /\ \A n \in DOMAIN v :
       /\ v[n].data \in Seq(ToSet(v[n].data))
       /\ \A a \in ToSet(v[n].data) :
            /\ IsAttribute(a)
            /\ a.name = "wof" /\ a.form = "runs" => IsWof(v, a)
            /\ v[Base].list # <<>> =>
                 \E j \in Named(v[Base].list, a.name) : v[Base].list[j].rec = n
            /\ IsStream(Pieces(v, a.name))
            /\ a.form = "runs" /\ Pieces(v, a.name) = <<a>> => a.size <= End(a)
  /\ \A i, j \in DOMAIN v[Base].list :
       /\ v[Base].list[i].name = v[Base].list[j].name
       /\ v[Base].list[j].rec = Base
       /\ i < j
       => v[Base].list[i].rec = Base

-----------------------------------------------------------------------------
(* What the code sees. *)
(* read_dataruns(): a hole has the offset of the run before it, because    *)
(* its encoding has no offset to add.                                      *)
Decoded(a) ==
  LET Placed(j) == {i \in 1..j : a.extents[i].kind # "hole"}
  IN  [j \in DOMAIN a.extents |->
         [offset |-> IF Placed(j) = {} THEN 0 ELSE a.extents[Max(Placed(j))].at,
          length |-> a.extents[j].len]]

(* RtlDecompressBuffer on the clusters of a run: NTFS's own units come     *)
(* out whole; what is not packed is refused or comes out as anything.      *)
Decompress(a, units) ==
  LET hit == {j \in DOMAIN a.extents :
                /\ a.extents[j].kind = "packed"
                /\ a.extents[j].at * Cluster = units[1]
                /\ a.extents[j].len * Cluster = Len(units)}
  IN  IF hit # {}
      THEN {[ok |-> TRUE, data |-> Unpacked(a.extents[CHOOSE j \in hit : TRUE].at)]}
      ELSE {[ok |-> FALSE, data |-> <<>>],
            [ok |-> TRUE, data |-> [i \in 1..Len(units) |-> Garbage]]}

-----------------------------------------------------------------------------
(* The layouts that the code is right about; cluster 0, which is $Boot's,  *)
(* looks like a hole to it.  Plain streams: no hole but at the start, of   *)
(* whole blocks, if there may be holes.  Compressed ones: every unit is    *)
(* packed and followed by its padding, or stored as it is in a run longer  *)
(* than a unit; no unit is a hole.                                         *)
PlainLayout(a, block, holes) ==
  \A j \in DOMAIN a.extents :
    IF a.extents[j].kind = "hole"
    THEN j = 1 /\ holes /\ a.extents[j].len * Cluster % block = 0
    ELSE a.extents[j].at # 0

PackedLayout(a) ==
  \A j \in DOMAIN a.extents :
    LET e == a.extents[j]
    IN  CASE e.kind = "packed" -> /\ e.at # 0 /\ e.len < Unit /\ j < Len(a.extents)
                                  /\ a.extents[j + 1].kind = "hole"
                                  /\ a.extents[j + 1].len = Unit - e.len
          [] e.kind = "data"   -> e.at # 0 /\ e.len > Unit
          [] e.kind = "hole"   -> j > 1 /\ a.extents[j - 1].kind = "packed"
=============================================================================
