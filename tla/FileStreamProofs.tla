-------------------------- MODULE FileStreamProofs --------------------------
(***************************************************************************)
(* For every set of volumes, of consumers and of requests: the position of *)
(* the reader, how long a stream gets, why a buffer would be dropped, and  *)
(* that what is handed out is the file (FileRead).                         *)
(***************************************************************************)
EXTENDS FileStream, DataLemmas

-----------------------------------------------------------------------------
(* The inductive invariant, of the reader and of each stream.              *)
MftInv ==
  /\ mft = "absent" => reader \in Constructed
  /\ mft = "runs" => Coherent(reader)
  /\ mft # "runs" => active = None /\ \A c \in Client : k[c].pc = "idle"

(* Where a stream is agrees with the attribute it is in. *)
PlaceInv(v, s) ==
  /\ s.r # 0
  /\ v[Base].list = <<>> => s.rec = Base /\ s.entries = <<>>
  /\ s.pc \in {"run", "hole", "blocks"} => s.attr.form = "runs"
  /\ s.pc = "resident" => s.attr.form = "resident"
  /\ s.pc \in {"hole", "blocks"} => s.r \in DOMAIN s.attr.extents
  /\ s.pc \in {"attr", "wof"} =>
       /\ s.attr # NoAttr
       /\ s.mode = "data" \/ (s.attr.name = "wof" /\ s.attr.form = "runs")
  /\ s.pc = "attr" /\ s.attr.form = "runs" => s.readSize <= s.attr.size
  /\ s.pc = "wof" => s.mode # "data"

(* What was handed out and what is left are no more than the file. *)
LengthInv(v, s) ==
  s.check /\ s.mode = "process" =>
    /\ Pieces(v, s.name) # <<>>
    /\ SizeOf(Pieces(v, s.name)[1], FALSE) \in Nat
    /\ Len(s.out) + s.left <= SizeOf(Pieces(v, s.name)[1], FALSE)

(* While nothing has failed a buffer is as full as the runs behind it. *)
ShortRuns(a) == \A j \in DOMAIN a.extents : a.extents[j].len * Cluster < Word
Filled(a, r) == IF r \in DOMAIN a.extents THEN a.extents[r].before * Cluster
                ELSE End(a)
BufferInv(v, s) ==
  ~s.lost =>
    /\ s.pc # "idle" /\ (s.mode = "data" \/ s.name = "wof") =>
         Len(Pieces(v, s.name)) = 1
    /\ s.pc = "attr" /\ s.attr.form = "runs" =>
         /\ s.attr.size <= End(s.attr)
         /\ s.r <= Len(s.attr.extents) + 1
         /\ ShortRuns(s.attr) =>
              \/ s.readSize = s.attr.size /\ s.attr.size <= Filled(s.attr, s.r)
              \/ s.readSize = Filled(s.attr, s.r) /\ s.readSize < s.attr.size
    /\ s.pc = "crashed" => s.attr.form = "runs" /\ ~ShortRuns(s.attr)

GoodStream(v, s) ==
  s \in Stream(v) /\ PlaceInv(v, s) /\ LengthInv(v, s) /\ BufferInv(v, s)
StreamInv == TypeOK /\ MftInv /\ \A c \in Client : GoodStream(vol, k[c])
-----------------------------------------------------------------------------
(* The reader: no call breaks the copy of the position.                    *)

LEMMA UnitsAtIsSeq ==
  ASSUME NEW p \in Nat, NEW n \in Nat
  PROVE  UnitsAt(p, n) \in Seq(Int) /\ Len(UnitsAt(p, n)) = n
<1>1. UnitsAt(p, n) \in [1..n -> Int]
  BY DEF UnitsAt
<1> QED BY <1>1, SeqDef, LenProperties DEF UnitsAt

LEMMA SeekKeeps ==
  ASSUME NEW rd \in Reader, NEW p \in Nat, NEW x \in Seek(rd, p)
  PROVE  x.ok \in BOOLEAN /\ x.rd \in Reader /\ (Coherent(rd) => Coherent(x.rd))
<1> DEFINE moved == [rd EXCEPT !.position = p, !.pointer = p]
<1>1. moved \in Reader /\ moved.position = p /\ moved.pointer = p
  BY DEF Reader
<1>2. Coherent(moved)
  BY <1>1 DEF Coherent
<1>3. x \in {[ok |-> TRUE, rd |-> rd], [ok |-> FALSE, rd |-> rd],
             [ok |-> TRUE, rd |-> moved]}
  BY DEF Seek
<1> HIDE DEF moved
<1>4. CASE x = [ok |-> TRUE, rd |-> moved]
  BY <1>1, <1>2, <1>4
<1>5. CASE x = [ok |-> TRUE, rd |-> rd]
  BY <1>5
<1>6. CASE x = [ok |-> FALSE, rd |-> rd]
  BY <1>6
<1> QED BY <1>3, <1>4, <1>5, <1>6

LEMMA ReadKeeps ==
  ASSUME NEW rd \in Reader, NEW n \in Nat, NEW t \in Read(rd, n)
  PROVE  /\ t.ok \in BOOLEAN /\ t.rd \in Reader
         /\ Coherent(rd) => Coherent(t.rd)
         /\ t.ok => t.data \in Seq(Int) /\ Len(t.data) = n
<1>1. CASE t = [ok |-> FALSE, rd |-> rd, data |-> <<>>]
  BY <1>1
<1>2. CASE t = [ok |-> TRUE, data |-> UnitsAt(rd.pointer, n),
                rd |-> [rd EXCEPT !.position = @ + n, !.pointer = @ + n]]
  <2>1. rd.pointer \in Nat /\ rd.position \in Nat
    BY DEF Reader
  <2>2. UnitsAt(rd.pointer, n) \in Seq(Int) /\ Len(UnitsAt(rd.pointer, n)) = n
    BY <2>1, UnitsAtIsSeq
  <2> DEFINE moved == [rd EXCEPT !.position = @ + n, !.pointer = @ + n]
  <2>3. /\ moved \in Reader
        /\ moved.position = rd.position + n /\ moved.pointer = rd.pointer + n
    <3>0. rd = [open |-> rd.open, position |-> rd.position, pointer |-> rd.pointer]
      BY DEF Reader
    <3>1. moved = [open |-> rd.open, position |-> rd.position + n,
                   pointer |-> rd.pointer + n]
      <4> DEFINE a == rd.position + n  b == rd.pointer + n
      <4>1. moved = [rd EXCEPT !.position = a, !.pointer = b]
        OBVIOUS
      <4> HIDE DEF a, b, moved
      <4>2. moved = [open |-> rd.open, position |-> a, pointer |-> b]
        BY <4>1 DEF Reader
      <4> QED BY <4>2 DEF a, b
    <3>2. rd.open \in BOOLEAN /\ rd.position + n \in Nat /\ rd.pointer + n \in Nat
      BY <2>1 DEF Reader
    <3> HIDE DEF moved
    <3> QED BY <3>1, <3>2 DEF Reader
  <2>4. Coherent(rd) => Coherent(moved)
    BY <2>3 DEF Coherent
  <2>5. t = [ok |-> TRUE, data |-> UnitsAt(rd.pointer, n), rd |-> moved]
    BY <1>2
  <2> HIDE DEF moved
  <2> QED BY <2>2, <2>3, <2>4, <2>5
<1> QED BY <1>1, <1>2 DEF Read

LEMMA RecordKeeps ==
  ASSUME NEW rd \in Reader, NEW n \in Nat, NEW t \in RecordFromNumber(rd, n)
  PROVE  /\ t.ok \in BOOLEAN /\ t.rd \in Reader
         /\ Coherent(rd) => Coherent(t.rd)
<1>1. MftAt + n \in Nat
  BY StreamAssumption
<1>2. PICK s \in Seek(rd, MftAt + n) :
        t \in (IF s.ok THEN Read(s.rd, 1) ELSE {[ok |-> FALSE, rd |-> s.rd]})
  BY DEF RecordFromNumber
<1>3. s.ok \in BOOLEAN /\ s.rd \in Reader /\ (Coherent(rd) => Coherent(s.rd))
  BY <1>1, SeekKeeps
<1>4. CASE s.ok
  <2>1. t \in Read(s.rd, 1)
    BY <1>2, <1>4
  <2> QED BY <1>3, <2>1, ReadKeeps
<1>5. CASE ~s.ok
  <2>1. t = [ok |-> FALSE, rd |-> s.rd]
    BY <1>2, <1>5
  <2> QED BY <1>3, <2>1
<1> QED BY <1>3, <1>4, <1>5

-----------------------------------------------------------------------------
(* The volume.                                                             *)

LEMMA Typed == 
  ASSUME NEW v \in Volumes
  PROVE  /\ IsVolume(v)
         /\ \A q \in Request(v) :
              /\ q.by \in Client /\ q.mode \in {"process", "virtual", "data"}
              /\ q.name \in STRING /\ q.skip \in BOOLEAN
BY VolumesAssumption

LEMMA AttributeFacts ==
  ASSUME NEW v \in Volumes, NEW n \in DOMAIN v, NEW name, HasStream(v[n], name)
  PROVE  LET a == Find(v[n], name)
         IN  /\ a \in ToSet(v[n].data) /\ a \in Attributes(v)
             /\ a.name = name
<1> DEFINE rec == v[n]
           J == {j \in DOMAIN rec.data : rec.data[j].name = name}
           a == Find(rec, name)
<1>1. rec.data \in Seq(ToSet(rec.data))
  BY Typed DEF IsVolume
<1>2. J \in SUBSET Nat /\ J # {} /\ DOMAIN rec.data \in SUBSET Nat
      /\ DOMAIN rec.data = 1..Len(rec.data) /\ Len(rec.data) \in Nat
  BY <1>1, LenProperties DEF HasStream
<1>3. PICK m \in J : \A j \in J : m <= j
  <2> HIDE DEF J
  <2> QED BY <1>2, NatMin
<1>4. \A i \in 1..(m - 1) : rec.data[i].name # name
  <2>1. SUFFICES ASSUME NEW i \in 1..(m - 1), rec.data[i].name = name PROVE FALSE
    OBVIOUS
  <2>2. m \in 1..Len(rec.data)
    BY <1>2, <1>3
  <2>3. i \in 1..Len(rec.data) /\ ~(m <= i)
    BY <1>2, <2>2
  <2> QED BY <1>2, <1>3, <2>1, <2>3
<1>5. \E j \in DOMAIN rec.data : /\ rec.data[j].name = name
                                /\ \A i \in 1..(j - 1) : rec.data[i].name # name
  BY <1>3, <1>4
<1>6. PICK j \in DOMAIN rec.data : a = rec.data[j] /\ rec.data[j].name = name
  BY <1>5 DEF Find
<1>7. a \in ToSet(rec.data)
  BY <1>6 DEF ToSet
<1> QED BY <1>6, <1>7 DEF Attributes

LEMMA IsAttributeOf ==
  ASSUME NEW v \in Volumes, NEW a \in Attributes(v)
  PROVE  IsAttribute(a) /\ (a.name = "wof" /\ a.form = "runs" => IsWof(v, a))
<1>1. PICK n \in DOMAIN v : a \in ToSet(v[n].data)
  BY DEF Attributes
<1> QED BY <1>1, Typed DEF IsVolume

(* A hole has the offset of the last run that is none. *)
LEMMA RunFacts ==
  ASSUME NEW a, IsAttribute(a)
  PROVE  /\ DOMAIN Decoded(a) = DOMAIN a.extents
         /\ a.extents \in Seq(Extent)
         /\ Len(Decoded(a)) = Len(a.extents) /\ Len(a.extents) \in Nat
         /\ DOMAIN a.extents = 1..Len(a.extents)
         /\ \A j \in DOMAIN a.extents :
              /\ Decoded(a)[j].length = a.extents[j].len
              /\ Decoded(a)[j].offset \in Nat
              /\ a.extents[j].len \in Nat
<1> DEFINE Placed(j) == {i \in 1..j : a.extents[i].kind # "hole"}
<1>1. a.extents \in Seq(Extent)
  <2>1. CASE a.form = "resident"
    BY <2>1, EmptySeq DEF IsAttribute
  <2>2. CASE a.form = "runs"
    BY <2>2 DEF IsAttribute
  <2> QED BY <2>1, <2>2 DEF IsAttribute
<1>2. Len(a.extents) \in Nat /\ DOMAIN a.extents = 1..Len(a.extents)
  BY <1>1, LenProperties
<1>3. \A j \in DOMAIN a.extents : a.extents[j] \in Extent
  BY <1>1, <1>2, ElementOfSeq
<1>4. Decoded(a) = [j \in DOMAIN a.extents |->
         [offset |-> IF Placed(j) = {} THEN 0 ELSE a.extents[Max(Placed(j))].at,
          length |-> a.extents[j].len]]
  BY DEF Decoded
<1>5. ASSUME NEW j \in DOMAIN a.extents PROVE Decoded(a)[j].offset \in Nat
  <2>1. CASE Placed(j) = {}
    BY <2>1, <1>4
  <2>2. CASE Placed(j) # {}
    <3>1. j \in Nat /\ Placed(j) \in SUBSET (0..j)
      BY <1>2
    <3>2. Max(Placed(j)) \in Placed(j)
      <4> HIDE DEF Placed
      <4> QED BY <2>2, <3>1, MaxIsGreatest
    <3>3. Max(Placed(j)) \in DOMAIN a.extents
      <4>1. Max(Placed(j)) \in 1..j
        BY <3>2
      <4> HIDE DEF Placed
      <4> QED BY <1>2, <4>1
    <3>4. Decoded(a)[j].offset = a.extents[Max(Placed(j))].at
      BY <1>4, <2>2
    <3> QED BY <1>3, <3>3, <3>4 DEF Extent
  <2> QED BY <2>1, <2>2
<1>6. Len(Decoded(a)) = Len(a.extents)
  <2> HIDE DEF Placed
  <2> QED BY <1>2, <1>4
<1>7. \A j \in DOMAIN a.extents :
        Decoded(a)[j].length = a.extents[j].len /\ a.extents[j].len \in Nat
  BY <1>3, <1>4 DEF Extent
<1>8. DOMAIN Decoded(a) = DOMAIN a.extents
  BY <1>4
<1> QED BY <1>1, <1>2, <1>5, <1>6, <1>7, <1>8
(* The entries of a list for a stream, and the pieces they stand for. *)
LEMMA PickedFacts ==
  ASSUME NEW S, NEW list \in Seq(S), NEW I \in SUBSET DOMAIN list
  PROVE  /\ IsFiniteSet(I) /\ Cardinality(I) \in Nat
         /\ Len(Picked(list, I)) = Cardinality(I)
         /\ DOMAIN Picked(list, I) = 1..Cardinality(I)
         /\ I = {} => Picked(list, I) = <<>>
         /\ I # {} => /\ Picked(list, I) # <<>> /\ 1 \in DOMAIN Picked(list, I)
                      /\ Min(I) \in I /\ \A i \in I : Min(I) <= i
                      /\ Picked(list, I)[1] = list[Min(I)]
<1>1. DOMAIN list = 1..Len(list) /\ Len(list) \in Nat
  BY LenProperties
<1>2. IsFiniteSet(I) /\ Cardinality(I) \in Nat /\ (Cardinality(I) = 0 <=> I = {})
  <2>1. IsFiniteSet(1..Len(list))
    BY <1>1, FS_Interval
  <2>2. IsFiniteSet(I)
    BY <1>1, <2>1, FS_Subset
  <2> QED BY <2>2, FS_CardinalityType, FS_EmptySet
<1>3. /\ Len(Picked(list, I)) = Cardinality(I)
      /\ DOMAIN Picked(list, I) = 1..Cardinality(I)
  BY <1>2 DEF Picked
<1>4. ASSUME I = {} PROVE Picked(list, I) = <<>>
  BY <1>2, <1>4 DEF Picked
<1>5. ASSUME I # {}
      PROVE  /\ Picked(list, I) # <<>> /\ 1 \in DOMAIN Picked(list, I)
             /\ Min(I) \in I /\ \A i \in I : Min(I) <= i
             /\ Picked(list, I)[1] = list[Min(I)]
  <2> DEFINE m == Min(I)
             Upto(i) == {h \in I : h <= i}
  <2>1. I \in SUBSET Nat
    BY <1>1
  <2>2. m \in I /\ \A i \in I : m <= i
    BY <1>5, <2>1, MinIsLeast
  <2> HIDE DEF m
  <2>3. Upto(m) = {m}
    BY <2>1, <2>2
  <2>4. Cardinality(Upto(m)) = 1
    BY <2>3, FS_Singleton
  <2>5. ASSUME NEW i \in I, Cardinality(Upto(i)) = 1 PROVE i = m
    <3>1. IsFiniteSet(Upto(i))
      BY <1>2, FS_Subset
    <3>2. m \in Upto(i) /\ i \in Upto(i)
      BY <2>1, <2>2
    <3> HIDE DEF Upto
    <3>3. \E x : Upto(i) = {x}
      BY <2>5, <3>1, FS_Singleton
    <3> QED BY <3>2, <3>3
  <2>6. Nth(I, 1) = m
    BY <2>2, <2>4, <2>5 DEF Nth
  <2>7. 1 \in 1..Cardinality(I)
    BY <1>2, <1>5
  <2>8. Picked(list, I)[1] = list[m]
    BY <2>6, <2>7 DEF Picked
  <2>9. Picked(list, I) # <<>>
    BY <1>3, <2>7
  <2> QED BY <1>3, <2>2, <2>7, <2>8, <2>9 DEF m
<1> QED BY <1>2, <1>3, <1>4, <1>5

LEMMA ListFacts ==
  ASSUME NEW v \in Volumes
  PROVE  LET list == v[Base].list
         IN  /\ Base \in DOMAIN v /\ DOMAIN v \in SUBSET Nat
             /\ list \in Seq([name : STRING, rec : DOMAIN v])
             /\ Len(list) \in Nat /\ DOMAIN list = 1..Len(list)
             /\ \A j \in DOMAIN list : list[j].rec \in DOMAIN v /\ list[j].rec \in Nat
             /\ list # <<>> => 1 \in DOMAIN list
             /\ \A name : Named(list, name) \in SUBSET DOMAIN list
             /\ v[Base].seen \in Nat /\ v[Base].seen <= Len(list)
             /\ v[Base].seen # 0 => list # <<>>
<1> DEFINE list == v[Base].list
<1>1. Base \in DOMAIN v /\ DOMAIN v \in SUBSET Nat
      /\ list \in Seq([name : STRING, rec : DOMAIN v])
  BY Typed DEF IsVolume
<1>2. Len(list) \in Nat /\ DOMAIN list = 1..Len(list)
  BY <1>1, LenProperties
<1>3. \A j \in DOMAIN list : list[j] \in [name : STRING, rec : DOMAIN v]
  BY <1>1, <1>2, ElementOfSeq
<1>4. \A j \in DOMAIN list : list[j].rec \in DOMAIN v
  BY <1>3
<1>5. list # <<>> => 1 \in DOMAIN list
  BY <1>1, <1>2, EmptySeq
<1>6. \A name : Named(list, name) \in SUBSET DOMAIN list
  BY DEF Named
<1>7. /\ v[Base].seen \in Nat /\ v[Base].seen <= Len(list)
      /\ v[Base].seen # 0 => list # <<>>
  <2>1. v[Base].seen \in 0..Len(list)
    BY Typed DEF IsVolume
  <2> HIDE DEF list
  <2> QED BY <1>1, <1>2, <2>1, EmptySeq
<1> QED BY <1>1, <1>2, <1>4, <1>5, <1>6, <1>7

(* What the code takes for the first piece is, and what it takes for the   *)
(* only piece of a stream in one piece is.                                 *)
LEMMA PiecesFacts ==
  ASSUME NEW v \in Volumes, NEW name
  PROVE  LET ps == Pieces(v, name)
             es == Picked(v[Base].list, Named(v[Base].list, name))
         IN  /\ HasStream(v[Base], name) =>
                  ps # <<>> /\ ps[1] = Find(v[Base], name)
             /\ es # <<>> =>
                  /\ es[1].rec \in DOMAIN v
                  /\ ps # <<>> /\ ps[1] = Find(v[es[1].rec], name)
             /\ \A n \in DOMAIN v :
                  /\ HasStream(v[n], name) /\ Len(ps) = 1
                  /\ v[Base].list = <<>> => n = Base
                  => ps = <<Find(v[n], name)>>
<1> DEFINE list == v[Base].list
           I == Named(list, name)
           es == Picked(list, I)
           ps == Pieces(v, name)
<1>1. /\ Base \in DOMAIN v
      /\ list \in Seq([name : STRING, rec : DOMAIN v])
      /\ Len(list) \in Nat /\ DOMAIN list = 1..Len(list)
      /\ \A j \in DOMAIN list : list[j].rec \in DOMAIN v
      /\ I \in SUBSET DOMAIN list
  BY ListFacts
<1>2. /\ IsFiniteSet(I) /\ Cardinality(I) \in Nat
      /\ Len(es) = Cardinality(I)
      /\ DOMAIN es = 1..Cardinality(I)
      /\ I = {} => es = <<>>
      /\ I # {} => /\ es # <<>> /\ 1 \in DOMAIN es
                   /\ Min(I) \in I /\ \A i \in I : Min(I) <= i
                   /\ es[1] = list[Min(I)]
  <2> HIDE DEF I, list
  <2> QED BY <1>1, PickedFacts
<1>3. ASSUME list # <<>>
      PROVE  /\ DOMAIN ps = 1..Cardinality(I) /\ Len(ps) = Cardinality(I)
             /\ \A j \in DOMAIN ps : ps[j] = Find(v[es[j].rec], name)
  <2>1. ps = [j \in DOMAIN es |-> Find(v[es[j].rec], name)]
    BY <1>3 DEF Pieces
  <2> HIDE DEF es, ps, I
  <2> QED BY <1>2, <2>1
<1>4. ASSUME NEW n \in DOMAIN v, HasStream(v[n], name), list # <<>>
      PROVE  \E j \in I : list[j].rec = n
  <2>1. Find(v[n], name) \in ToSet(v[n].data) /\ Find(v[n], name).name = name
    BY <1>4, AttributeFacts
  <2> QED BY <1>4, <2>1, Typed DEF IsVolume
<1>5. ASSUME list = <<>>
      PROVE  ps = IF HasStream(v[Base], name) THEN <<Find(v[Base], name)>> ELSE <<>>
  BY <1>5 DEF Pieces
<1>6. ASSUME I # {}
      PROVE  list # <<>> /\ ps # <<>> /\ ps[1] = Find(v[es[1].rec], name)
             /\ es[1].rec \in DOMAIN v
  <2>1. list # <<>>
    <3>1. \E i : i \in DOMAIN list
      BY <1>1, <1>6
    <3> HIDE DEF list, I
    <3> QED BY <1>1, <3>1
  <2>2. 1 \in DOMAIN ps
    BY <1>2, <1>3, <1>6, <2>1
  <2>3. ps # <<>>
    <3> HIDE DEF ps
    <3> QED BY <2>2
  <2> QED BY <1>1, <1>2, <1>3, <1>6, <2>1, <2>2, <2>3
<1>7. ASSUME HasStream(v[Base], name)
      PROVE  ps # <<>> /\ ps[1] = Find(v[Base], name)
  <2>1. CASE list = <<>>
    <3>1. ps = <<Find(v[Base], name)>>
      BY <1>5, <1>7, <2>1
    <3> HIDE DEF ps
    <3> QED BY <3>1
  <2>2. CASE list # <<>>
    <3>1. PICK j \in I : list[j].rec = Base
      BY <1>1, <1>4, <1>7, <2>2
    <3>2. /\ Min(I) \in I /\ Min(I) <= j /\ es[1] = list[Min(I)]
      BY <1>2, <3>1
    <3>3. /\ j \in DOMAIN list /\ Min(I) \in DOMAIN list
          /\ list[Min(I)].name = list[j].name
      BY <3>1, <3>2 DEF Named
    <3>4. Min(I) = j \/ Min(I) < j
      <4> HIDE DEF I, list
      <4> QED BY <1>1, <3>2, <3>3
    <3>5. list[Min(I)].rec = Base
      <4>1. CASE Min(I) = j
        BY <3>1, <4>1
      <4>2. CASE Min(I) < j
        BY <3>1, <3>3, <4>2, Typed DEF IsVolume
      <4> QED BY <3>4, <4>1, <4>2
    <3> QED BY <1>6, <3>1, <3>2, <3>5
  <2> QED BY <2>1, <2>2
<1>8. ASSUME NEW n \in DOMAIN v, HasStream(v[n], name), Len(ps) = 1,
             list = <<>> => n = Base
      PROVE  ps = <<Find(v[n], name)>>
  <2>1. CASE list = <<>>
    BY <1>5, <1>8, <2>1
  <2>2. CASE list # <<>>
    <3>1. PICK j \in I : list[j].rec = n
      BY <1>4, <1>8, <2>2
    <3>2. Cardinality(I) = 1
      BY <1>3, <1>8, <2>2
    <3>3. PICK x : I = {x}
      <4> HIDE DEF I
      <4> QED BY <1>2, <3>2, FS_Singleton
    <3>4. Min(I) = j
      <4> HIDE DEF I
      <4> QED BY <1>2, <3>1, <3>3
    <3>5. ps[1] = Find(v[n], name)
      BY <1>2, <1>6, <3>1, <3>4
    <3>6. DOMAIN ps = 1..1 /\ DOMAIN ps = {1}
      BY <1>3, <2>2, <3>2
    <3>7. ps = [j1 \in DOMAIN ps |-> ps[j1]]
      BY <2>2 DEF Pieces
    <3>8. ps = [i \in 1..1 |-> Find(v[n], name)]
      <4> HIDE DEF ps
      <4> QED BY <3>5, <3>6, <3>7
    <3> HIDE DEF ps
    <3> QED BY <3>8
  <2> QED BY <2>1, <2>2
<1>9. ASSUME es # <<>>
      PROVE  /\ es[1].rec \in DOMAIN v
             /\ ps # <<>> /\ ps[1] = Find(v[es[1].rec], name)
  BY <1>2, <1>6, <1>9
<1>10. \A n \in DOMAIN v :
         /\ HasStream(v[n], name) /\ Len(ps) = 1
         /\ list = <<>> => n = Base
         => ps = <<Find(v[n], name)>>
  <2> HIDE DEF ps, list
  <2> QED BY <1>8
<1>11. HasStream(v[Base], name) => ps # <<>> /\ ps[1] = Find(v[Base], name)
  BY <1>7
<1>12. es # <<>> =>
        es[1].rec \in DOMAIN v /\ ps # <<>> /\ ps[1] = Find(v[es[1].rec], name)
  BY <1>9
<1> QED BY <1>10, <1>11, <1>12

(* What datasize() comes to first is the first piece. *)
LEMMA SeenFacts ==
  ASSUME NEW v \in Volumes, NEW name, Seen(v[Base], name) # <<>>
  PROVE  LET e == Seen(v[Base], name)[1]
             ps == Pieces(v, name)
         IN  /\ e.rec \in DOMAIN v
             /\ ps # <<>> /\ ps[1] = Find(v[e.rec], name)
<1> DEFINE list == v[Base].list
           n == v[Base].seen
           I == Named(list, name)
           J == I \cap 1..n
           es == Picked(list, I)
           fs == Picked(list, J)
<1>1. /\ list \in Seq([name : STRING, rec : DOMAIN v])
      /\ Len(list) \in Nat /\ DOMAIN list = 1..Len(list)
      /\ I \in SUBSET DOMAIN list /\ n \in Nat
  BY ListFacts
<1>2. fs = Seen(v[Base], name)
  BY DEF Seen
<1> HIDE DEF I, list, n
<1>3. J # {} /\ Min(J) \in J /\ fs[1] = list[Min(J)]
  BY <1>1, <1>2, PickedFacts
<1>4. I # {}
  BY <1>3
<1>5. /\ Min(I) \in I /\ \A i \in I : Min(I) <= i
      /\ es # <<>> /\ es[1] = list[Min(I)]
  BY <1>1, <1>4, PickedFacts
<1>6. Min(I) \in J
  <2>1. Min(J) \in I /\ Min(J) \in 1..n
    BY <1>3
  <2>2. Min(I) <= Min(J) /\ Min(I) \in 1..Len(list)
    BY <1>1, <1>5, <2>1
  <2>3. Min(I) \in 1..n
    <3> DEFINE x == Min(I)  y == Min(J)
    <3>1. x <= y /\ x \in 1..Len(list) /\ y \in 1..n
      BY <2>1, <2>2
    <3> HIDE DEF x, y
    <3>2. x \in 1..n
      BY <1>1, <3>1
    <3> QED BY <3>2 DEF x
  <2> QED BY <1>5, <2>3
<1>7. Min(J) <= Min(I)
  <2>1. J \in SUBSET Nat
    BY <1>1
  <2> HIDE DEF J
  <2> QED BY <1>6, <2>1, MinIsLeast
<1>8. Min(J) = Min(I)
  <2>1. Min(J) \in I /\ Min(I) <= Min(J)
    BY <1>3, <1>5
  <2>2. Min(I) \in 1..Len(list) /\ Min(J) \in 1..Len(list)
    BY <1>1, <1>5, <2>1
  <2> DEFINE x == Min(I)  y == Min(J)
  <2>3. x <= y /\ y <= x /\ x \in Int /\ y \in Int
    BY <1>1, <1>7, <2>1, <2>2
  <2> HIDE DEF x, y
  <2>4. x = y
    BY <2>3
  <2> QED BY <2>4 DEF x, y
<1>9. fs[1] = es[1]
  BY <1>3, <1>5, <1>8
<1>10. /\ es[1].rec \in DOMAIN v
       /\ Pieces(v, name) # <<>> /\ Pieces(v, name)[1] = Find(v[es[1].rec], name)
  BY <1>5, PiecesFacts DEF I, list
<1> HIDE DEF es, fs
<1> QED BY <1>2, <1>9, <1>10
-----------------------------------------------------------------------------
(* The state of a stream.                                                  *)

(* Another one moved the position. *)
LEMMA DisturbedGood ==
  ASSUME NEW v, NEW s, GoodStream(v, s)
  PROVE  GoodStream(v, Disturbed(s)) /\ Disturbed(s).pc = s.pc
<1> DEFINE t == Disturbed(s)
<1>1. s \in Stream(v) /\ PlaceInv(v, s) /\ LengthInv(v, s) /\ BufferInv(v, s)
  BY DEF GoodStream
<1>2. t \in Stream(v)
  BY <1>1 DEF Disturbed, MidRun, Stream
<1>3. /\ t.pc = s.pc /\ t.r = s.r /\ t.rec = s.rec /\ t.entries = s.entries
      /\ t.attr = s.attr /\ t.mode = s.mode /\ t.name = s.name
      /\ t.readSize = s.readSize /\ t.check = s.check /\ t.out = s.out
      /\ t.left = s.left /\ t.lost = s.lost
  BY <1>1 DEF Disturbed, Stream
<1> HIDE DEF t
<1>4. PlaceInv(v, t)
  BY <1>1, <1>3 DEF PlaceInv
<1>5. LengthInv(v, t)
  BY <1>1, <1>3 DEF LengthInv
<1>6. BufferInv(v, t)
  BY <1>1, <1>3 DEF BufferInv
<1> QED BY <1>2, <1>3, <1>4, <1>5, <1>6 DEF GoodStream, t

(* A stream that goes on hands out no more than it had left, and owes its  *)
(* buffer to nobody.                                                       *)
LEMMA Carried ==
  ASSUME NEW v, NEW s, NEW t, GoodStream(v, s), s.pc # "idle", t \in Stream(v),
         t.pc \notin {"attr", "crashed"},
         t.mode = s.mode, t.name = s.name, t.check = s.check, s.lost => t.lost,
         s.check => Len(t.out) + t.left <= Len(s.out) + s.left
  PROVE  LengthInv(v, t) /\ BufferInv(v, t)
<1>1. s \in Stream(v) /\ LengthInv(v, s) /\ BufferInv(v, s)
  BY DEF GoodStream
<1>2. LengthInv(v, t)
  <2>1. SUFFICES ASSUME t.check, t.mode = "process"
                 PROVE  /\ Pieces(v, t.name) # <<>>
                        /\ SizeOf(Pieces(v, t.name)[1], FALSE) \in Nat
                        /\ Len(t.out) + t.left <= SizeOf(Pieces(v, t.name)[1], FALSE)
    BY DEF LengthInv
  <2> DEFINE z == SizeOf(Pieces(v, t.name)[1], FALSE)
  <2>2. Pieces(v, t.name) # <<>> /\ z \in Nat /\ Len(s.out) + s.left <= z
    BY <1>1, <2>1 DEF LengthInv
  <2>3. /\ Len(s.out) \in Nat /\ s.left \in Nat
        /\ Len(t.out) \in Nat /\ t.left \in Nat
    BY <1>1, LenProperties DEF Stream
  <2>4. Len(t.out) + t.left <= Len(s.out) + s.left
    BY <2>1
  <2> HIDE DEF z
  <2>5. Len(t.out) + t.left <= z
    BY <2>2, <2>3, <2>4
  <2> QED BY <2>2, <2>5 DEF z
<1>3. BufferInv(v, t)
  BY <1>1 DEF BufferInv
<1> QED BY <1>2, <1>3

LEMMA Silent ==
  ASSUME NEW v, NEW s, NEW t, GoodStream(v, s), s.pc # "idle", t \in Stream(v),
         t.pc \notin {"attr", "crashed"},
         t.mode = s.mode, t.name = s.name, t.check = s.check, s.lost => t.lost,
         t.out = s.out, t.left = s.left
  PROVE  LengthInv(v, t) /\ BufferInv(v, t)
<1>1. Len(s.out) \in Nat /\ s.left \in Nat
  BY LenProperties DEF GoodStream, Stream
<1>2. Len(t.out) + t.left <= Len(s.out) + s.left
  BY <1>1
<1> QED BY <1>2, Carried

LEMMA YieldedFacts ==
  ASSUME NEW v, NEW u \in Stream(v), NEW data \in Seq(Int)
  PROVE  LET t == Yielded(u, data)
         IN  /\ t \in Stream(v)
             /\ t.pc = u.pc /\ t.r = u.r /\ t.rec = u.rec /\ t.entries = u.entries
             /\ t.attr = u.attr /\ t.mode = u.mode /\ t.name = u.name
             /\ t.readSize = u.readSize /\ t.check = u.check /\ t.lost = u.lost
             /\ u.check => Len(t.out) + t.left = Len(u.out) + u.left
<1> DEFINE n == IF u.check /\ Len(data) > u.left THEN u.left ELSE Len(data)
           cut == u.out \o SubSeq(data, 1, n)
           rest == IF u.check THEN u.left - n ELSE u.left
           t == Yielded(u, data)
<1>1. u.out \in Seq(Int) /\ u.left \in Nat /\ u.check \in BOOLEAN
  BY DEF Stream
<1>2. Len(data) \in Nat /\ \A i \in 1..Len(data) : data[i] \in Int
  BY LenProperties, ElementOfSeq
<1>3. n \in Nat /\ n <= Len(data) /\ (u.check => n <= u.left)
  BY <1>1, <1>2
<1> HIDE DEF n
<1>4. SubSeq(data, 1, n) \in Seq(Int) /\ Len(SubSeq(data, 1, n)) = n
  <2>1. \A i \in 1..n : data[i] \in Int
    BY <1>2, <1>3
  <2>2. n \in Int /\ 1 \in Int
    BY <1>3
  <2>3. /\ SubSeq(data, 1, n) \in Seq(Int)
        /\ Len(SubSeq(data, 1, n)) = IF 1 <= n THEN n - 1 + 1 ELSE 0
    BY <2>1, <2>2, SubSeqProperties
  <2> QED BY <1>3, <2>3
<1>5. cut \in Seq(Int) /\ Len(cut) = Len(u.out) + n
  BY <1>1, <1>4, ConcatProperties
<1>6. rest \in Nat
  BY <1>1, <1>3
<1>7. t = [u EXCEPT !.out = cut, !.left = rest]
  BY DEF Yielded, n
<1> HIDE DEF cut, rest, t
<1>8. t \in Stream(v)
  BY <1>5, <1>6, <1>7 DEF Stream
<1>9. /\ t.pc = u.pc /\ t.r = u.r /\ t.rec = u.rec /\ t.entries = u.entries
      /\ t.attr = u.attr /\ t.mode = u.mode /\ t.name = u.name
      /\ t.readSize = u.readSize /\ t.check = u.check /\ t.lost = u.lost
      /\ t.out = cut /\ t.left = rest
  BY <1>7 DEF Stream
<1>10. ASSUME u.check PROVE Len(t.out) + t.left = Len(u.out) + u.left
  <2>1. rest = u.left - n
    BY <1>10 DEF rest
  <2>2. Len(u.out) \in Nat
    BY <1>1, LenProperties
  <2>3. t.left = u.left - n /\ Len(t.out) = Len(u.out) + n
    BY <1>5, <1>9, <2>1
  <2> QED BY <1>1, <1>3, <2>2, <2>3
<1> QED BY <1>8, <1>9, <1>10 DEF t
LEMMA YieldedGood ==
  ASSUME NEW v, NEW u, GoodStream(v, u), NEW data \in Seq(Int),
         u.pc \notin {"idle", "attr", "wof", "crashed"}
  PROVE  GoodStream(v, Yielded(u, data))
<1> DEFINE t == Yielded(u, data)
<1>1. u \in Stream(v) /\ PlaceInv(v, u)
  BY DEF GoodStream
<1>2. /\ t \in Stream(v)
      /\ t.pc = u.pc /\ t.r = u.r /\ t.rec = u.rec /\ t.entries = u.entries
      /\ t.attr = u.attr /\ t.mode = u.mode /\ t.name = u.name
      /\ t.readSize = u.readSize /\ t.check = u.check /\ t.lost = u.lost
      /\ u.check => Len(t.out) + t.left = Len(u.out) + u.left
  BY <1>1, YieldedFacts
<1>3. /\ Len(t.out) \in Nat /\ t.left \in Nat /\ Len(u.out) \in Nat /\ u.left \in Nat
  BY <1>1, <1>2, LenProperties DEF Stream
<1> HIDE DEF t
<1>4. u.check => Len(t.out) + t.left <= Len(u.out) + u.left
  BY <1>2, <1>3
<1>5. PlaceInv(v, t)
  BY <1>1, <1>2 DEF PlaceInv
<1>6. LengthInv(v, t) /\ BufferInv(v, t)
  BY <1>2, <1>4, Carried
<1> QED BY <1>2, <1>5, <1>6 DEF GoodStream, t

-----------------------------------------------------------------------------
(* Numbers and buffers.                                                    *)

LEMMA Dword ==
  ASSUME NEW a \in Int, NEW b \in Int
  PROVE  MinDword(a, b) \in Nat /\ (a \in Nat => MinDword(a, b) <= a)
<1>1. Word \in Nat \ {0}
  BY StreamAssumption
<1>2. /\ a % Word \in Nat /\ b % Word \in Nat /\ (a \in Nat => a % Word <= a)
  BY <1>1, ModRange
<1> DEFINE x == a % Word  y == b % Word
<1> HIDE DEF x, y
<1>3. MinDword(a, b) = IF x <= y THEN x ELSE y
  BY <1>2, MinOfTwo DEF MinDword, x, y
<1> QED BY <1>2, <1>3 DEF x, y

LEMMA ZerosIsSeq ==
  ASSUME NEW n \in Nat
  PROVE  Zeros(n) \in Seq(Int) /\ Len(Zeros(n)) = n
<1>1. Zeros(n) \in [1..n -> Int]
  BY DEF Zeros, Zero
<1> QED BY <1>1, SeqDef DEF Zeros

LEMMA BytesFacts ==
  ASSUME NEW s, IsAttribute(s.attr), s.r \in DOMAIN s.attr.extents
  PROVE  /\ Run(s).length = s.attr.extents[s.r].len
         /\ Bytes(Run(s)) = s.attr.extents[s.r].len * Cluster
         /\ Bytes(Run(s)) \in Nat /\ Run(s).offset * Cluster \in Nat
         /\ Run(s).offset \in Nat /\ Run(s).length \in Nat
<1> DEFINE l == s.attr.extents[s.r].len  o == Run(s).offset
<1>1. Run(s).length = l /\ l \in Nat /\ o \in Nat
  BY RunFacts DEF Run, Runs
<1>2. Cluster \in Nat
  BY FileAssumption
<1> HIDE DEF l, o
<1>3. l * Cluster \in Nat /\ o * Cluster \in Nat
  BY <1>1, <1>2
<1> QED BY <1>1, <1>3 DEF Bytes, l, o

(* What is in a buffer after one more run. *)
LEMMA FilledFacts ==
  ASSUME NEW a, IsAttribute(a), a.form = "runs"
  PROVE  /\ a.size \in Nat
         /\ Filled(a, 1) = 0
         /\ \A r \in DOMAIN a.extents :
              /\ Filled(a, r) \in Nat
              /\ Filled(a, r + 1) = Filled(a, r) + a.extents[r].len * Cluster
<1> DEFINE es == a.extents
<1>1. /\ es \in Seq(Extent) /\ DOMAIN es = 1..Len(es) /\ Len(es) \in Nat
      /\ \A j \in DOMAIN es : es[j].before = IF j = 1 THEN 0
                                  ELSE es[j - 1].before + es[j - 1].len
      /\ a.size \in Nat
  BY RunFacts DEF IsAttribute
<1>2. \A j \in DOMAIN es : es[j].before \in Nat /\ es[j].len \in Nat
  <2>1. \A j \in DOMAIN es : es[j] \in Extent
    <3> HIDE DEF es
    <3> QED BY <1>1, ElementOfSeq
  <2> QED BY <2>1 DEF Extent
<1>3. Cluster \in Nat
  BY FileAssumption
<1>4. Filled(a, 1) = 0
  <2>1. CASE 1 \in DOMAIN es
    <3>1. es[1].before = 0
      BY <1>1, <2>1
    <3> QED BY <1>3, <2>1, <3>1 DEF Filled
  <2>2. CASE 1 \notin DOMAIN es
    <3>1. Len(es) = 0
      <4> HIDE DEF es
      <4> QED BY <1>1, <2>2
    <3>2. es = <<>>
      <4> HIDE DEF es
      <4> QED BY <1>1, <3>1, EmptySeq
    <3> QED BY <2>2, <3>2 DEF Filled, End
  <2> QED BY <2>1, <2>2
<1>5. ASSUME NEW r \in DOMAIN es
      PROVE  /\ Filled(a, r) \in Nat
             /\ Filled(a, r + 1) = Filled(a, r) + es[r].len * Cluster
  <2> DEFINE b == es[r].before  l == es[r].len
  <2>1. Filled(a, r) = b * Cluster /\ b \in Nat /\ l \in Nat
    BY <1>2 DEF Filled
  <2>2. Filled(a, r + 1) = (b + l) * Cluster
    <3>1. CASE r + 1 \in DOMAIN es
      <4>1. r + 1 # 1 /\ r + 1 - 1 = r
        BY <1>1
      <4>2. es[r + 1].before = b + l
        BY <1>1, <3>1, <4>1
      <4> QED BY <3>1, <4>2 DEF Filled
    <3>2. CASE r + 1 \notin DOMAIN es
      <4>1. r = Len(es)
        <5> HIDE DEF es
        <5> QED BY <1>1, <3>2
      <4>2. es # <<>>
        <5> HIDE DEF es
        <5> QED BY <1>1, EmptySeq
      <4> QED BY <3>2, <4>1, <4>2 DEF Filled, End
    <3> QED BY <3>1, <3>2
  <2> HIDE DEF b, l
  <2>3. (b + l) * Cluster = b * Cluster + l * Cluster /\ b * Cluster \in Nat
    BY <1>3, <2>1
  <2> QED BY <2>1, <2>2, <2>3 DEF l
<1> QED BY <1>1, <1>4, <1>5

LEMMA Filling ==
  ASSUME NEW size \in Nat, NEW full \in Nat, NEW b \in Nat, NEW there \in Nat,
         there <= size
  PROVE  LET now == there + Min({size - there, b})
         IN  /\ now \in Nat /\ now <= size
             /\ \/ there = size /\ size <= full
                \/ there = full /\ there < size
                => \/ now = size /\ size <= full + b
                   \/ now = full + b /\ now < size
<1>1. Min({size - there, b}) = IF size - there <= b THEN size - there ELSE b
  BY MinOfTwo
<1> QED BY <1>1

-----------------------------------------------------------------------------
(* One step of a stream, whatever it is: the stream goes on in a state as  *)
(* good as the one before, and the position of the reader stays known.     *)
Goes(c) ==
  /\ \E s : GoodStream(vol, s) /\ (Keep(c, s) \/ Touch(c, s))
  /\ reader' \in Reader /\ Coherent(reader')

LEMMA GoesKeeps ==
  ASSUME StreamInv, NEW c \in Client, Goes(c), mft = "runs",
         UNCHANGED <<vol, mft>>, active' \in Client \cup {None}
  PROVE  StreamInv'
<1>1. PICK s : GoodStream(vol, s) /\ (Keep(c, s) \/ Touch(c, s))
  BY DEF Goes
<1>2. \A d \in Client : GoodStream(vol, k[d]) /\ GoodStream(vol, Disturbed(k[d]))
  BY DisturbedGood DEF StreamInv
<1>3. k \in [Client -> Stream(vol)]
  BY DEF StreamInv, TypeOK
<1>4. DOMAIN k' = Client /\ \A d \in Client : GoodStream(vol, k'[d])
  <2>1. CASE Keep(c, s)
    BY <1>1, <1>2, <1>3, <2>1 DEF Keep
  <2>2. CASE Touch(c, s)
    BY <1>1, <1>2, <2>2 DEF Touch
  <2> QED BY <1>1, <2>1, <2>2
<1>5. k' \in [Client -> Stream(vol)]
  <2>1. \A d \in Client : k'[d] \in Stream(vol)
    BY <1>4 DEF GoodStream
  <2>2. k' = [d \in Client |-> k'[d]]
    BY <1>1, <1>3, <1>4 DEF Keep, Touch
  <2> QED BY <2>1, <2>2
<1>6. TypeOK'
  BY <1>5 DEF StreamInv, TypeOK, Goes
<1>7. MftInv'
  BY DEF MftInv, Goes
<1>8. \A d \in Client : GoodStream(vol, k[d])'
  BY <1>4
<1> QED BY <1>6, <1>7, <1>8 DEF StreamInv
LEMMA Now ==
  ASSUME StreamInv, NEW c \in Client
  PROVE  /\ vol \in Volumes /\ reader \in Reader /\ k[c] \in Stream(vol)
         /\ GoodStream(vol, k[c]) /\ PlaceInv(vol, k[c])
         /\ LengthInv(vol, k[c]) /\ BufferInv(vol, k[c])
         /\ k \in [Client -> Stream(vol)]
         /\ mft = "runs" => Coherent(reader)
BY DEF StreamInv, TypeOK, MftInv, GoodStream

(* Most steps leave the reader alone. *)
LEMMA KeepGoes ==
  ASSUME StreamInv, NEW c \in Client, mft = "runs", NEW t, GoodStream(vol, t),
         Keep(c, t), reader' = reader
  PROVE  Goes(c)
<1>1. reader' \in Reader /\ Coherent(reader')
  BY Now
<1> QED BY <1>1 DEF Goes

LEMMA EnterGoes ==
  ASSUME StreamInv, NEW c \in Client, mft = "runs", Enter(c)
  PROVE  Goes(c)
<1> DEFINE s == k[c]
           rec == vol[s.rec]
           a == Find(rec, s.name)
<1>1. /\ vol \in Volumes /\ s \in Stream(vol) /\ GoodStream(vol, s)
      /\ PlaceInv(vol, s) /\ BufferInv(vol, s) /\ s.pc = "enter" /\ reader' = reader
  BY Now DEF Enter
<1>2. /\ s.rec \in DOMAIN vol /\ s.lost \in BOOLEAN
      /\ vol[Base].list = <<>> => s.rec = Base /\ s.entries = <<>>
  BY <1>1 DEF Stream, PlaceInv
<1>3. CASE ~HasStream(rec, s.name)
  <2> DEFINE es == IF s.rec = Base THEN rec.list ELSE s.entries
             t == [s EXCEPT !.pc = "next", !.entries = es]
  <2>1. Keep(c, t)
    BY <1>3 DEF Enter
  <2>2. es \in Seq([name : STRING, rec : DOMAIN vol])
    BY <1>1, <1>2, ListFacts DEF Stream
  <2>3. vol[Base].list = <<>> => es = <<>>
    BY <1>2
  <2> HIDE DEF es
  <2>4. /\ t \in Stream(vol) /\ t.pc = "next" /\ t.entries = es /\ t.rec = s.rec
        /\ t.mode = s.mode /\ t.name = s.name /\ t.check = s.check
        /\ t.lost = s.lost /\ t.out = s.out /\ t.left = s.left /\ t.r = s.r
    BY <1>1, <2>2 DEF Stream, StreamState
  <2> HIDE DEF t
  <2>5. PlaceInv(vol, t)
    BY <1>1, <2>3, <2>4 DEF PlaceInv
  <2>6. LengthInv(vol, t) /\ BufferInv(vol, t)
    <3> HIDE DEF s
    <3> QED BY <1>1, <2>4, Silent
  <2> QED BY <1>1, <2>1, <2>4, <2>5, <2>6, KeepGoes DEF GoodStream
<1>4. CASE HasStream(rec, s.name)
  <2> DEFINE u == [s EXCEPT !.attr = a, !.r = 1, !.i = 0, !.written = 0, !.last = 0]
             t1 == [u EXCEPT !.pc = "resident"]
             t2 == [u EXCEPT !.pc = "run"]
             t3 == [u EXCEPT !.pc = "next", !.lost = TRUE]
             t4 == [u EXCEPT !.pc = "attr", !.readSize = 0,
                             !.buf = Zeros(a.alloc % Word)]
             t5 == [u EXCEPT !.pc = "threw", !.lost = TRUE]
             t == IF a.form = "resident" THEN t1
                  ELSE IF a.extents = <<>> THEN t5
                  ELSE IF s.name # "wof" \/ a.packed THEN t2
                  ELSE IF vol[Base].wof = None THEN t3 ELSE t4
  <2>1. Keep(c, t)
    BY <1>4 DEF Enter
  <2>2. /\ a \in ToSet(rec.data) /\ a \in Attributes(vol) /\ a.name = s.name
        /\ IsAttribute(a)
    BY <1>1, <1>2, <1>4, AttributeFacts, IsAttributeOf
  <2>3. a.form \in {"resident", "runs"} /\ (a.form = "runs" => a.alloc \in Nat)
    BY <2>2 DEF IsAttribute
  <2>4. u \in Stream(vol) /\ u.attr = a /\ u.r = 1 /\ u.rec = s.rec
        /\ u.entries = s.entries /\ u.mode = s.mode /\ u.name = s.name
        /\ u.check = s.check /\ u.lost = s.lost /\ u.out = s.out /\ u.left = s.left
    BY <1>1, <2>2 DEF Stream
  <2>5. ASSUME a.form = "runs"
        PROVE  Zeros(a.alloc % Word) \in Seq(Int)
    <3>1. a.alloc % Word \in Nat
      BY <2>3, <2>5, StreamAssumption, ModRange
    <3> QED BY <3>1, ZerosIsSeq
  <2>6. a # NoAttr
    <3>1. NoAttr.form = "none"
      BY DEF NoAttr
    <3> HIDE DEF a
    <3> QED BY <2>3, <3>1
  <2> HIDE DEF u, a, rec, s
  <2>8. ASSUME NEW x \in Stream(vol), x.pc \in {"resident", "run", "next", "threw"},
               x.attr = a, x.r = 1, x.rec = s.rec, x.entries = s.entries,
               x.mode = s.mode, x.name = s.name, x.check = s.check,
               s.lost => x.lost, x.out = s.out, x.left = s.left,
               x.pc = "resident" => a.form = "resident",
               x.pc = "run" => a.form = "runs"
        PROVE  GoodStream(vol, x)
    <3>1. PlaceInv(vol, x)
      BY <1>2, <2>8 DEF PlaceInv
    <3>2. LengthInv(vol, x) /\ BufferInv(vol, x)
      BY <1>1, <2>8, Silent
    <3> QED BY <3>1, <3>2 DEF GoodStream
  <2>9. CASE a.form = "resident"
    <3>1. /\ t1 \in Stream(vol) /\ t1.pc = "resident" /\ t1.attr = a /\ t1.r = 1
          /\ t1.rec = s.rec /\ t1.entries = s.entries /\ t1.mode = s.mode
          /\ t1.name = s.name /\ t1.check = s.check /\ t1.lost = s.lost
          /\ t1.out = s.out /\ t1.left = s.left
      BY <2>4 DEF Stream, StreamState
    <3> HIDE DEF t1, t2, t3, t4, t5
    <3>2. t = t1
      BY <2>9
    <3>3. GoodStream(vol, t)
      BY <2>8, <2>9, <3>1, <3>2
    <3> HIDE DEF t
    <3> QED BY <1>1, <2>1, <3>3, KeepGoes DEF s
  <2>10. CASE a.form = "runs" /\ a.extents # <<>> /\ (s.name # "wof" \/ a.packed)
    <3>1. /\ t2 \in Stream(vol) /\ t2.pc = "run" /\ t2.attr = a /\ t2.r = 1
          /\ t2.rec = s.rec /\ t2.entries = s.entries /\ t2.mode = s.mode
          /\ t2.name = s.name /\ t2.check = s.check /\ t2.lost = s.lost
          /\ t2.out = s.out /\ t2.left = s.left
      BY <2>4 DEF Stream, StreamState
    <3> HIDE DEF t1, t2, t3, t4, t5
    <3>2. t = t2
      BY <2>10
    <3>3. GoodStream(vol, t)
      BY <2>8, <2>10, <3>1, <3>2
    <3> HIDE DEF t
    <3> QED BY <1>1, <2>1, <3>3, KeepGoes DEF s
  <2>11. CASE a.form = "runs" /\ a.extents # <<>> /\ ~(s.name # "wof" \/ a.packed) /\ vol[Base].wof = None
    <3>1. /\ t3 \in Stream(vol) /\ t3.pc = "next" /\ t3.attr = a /\ t3.r = 1
          /\ t3.rec = s.rec /\ t3.entries = s.entries /\ t3.mode = s.mode
          /\ t3.name = s.name /\ t3.check = s.check /\ t3.lost = TRUE
          /\ t3.out = s.out /\ t3.left = s.left
      BY <2>4 DEF Stream, StreamState
    <3> HIDE DEF t1, t2, t3, t4, t5
    <3>2. t = t3
      BY <2>11
    <3>3. GoodStream(vol, t)
      BY <2>8, <2>11, <3>1, <3>2
    <3> HIDE DEF t
    <3> QED BY <1>1, <2>1, <3>3, KeepGoes DEF s
  <2>12. CASE a.form = "runs" /\ a.extents # <<>> /\ ~(s.name # "wof" \/ a.packed) /\ vol[Base].wof # None
    <3>1. /\ t4 \in Stream(vol) /\ t4.pc = "attr" /\ t4.attr = a /\ t4.r = 1
          /\ t4.rec = s.rec /\ t4.entries = s.entries /\ t4.mode = s.mode
          /\ t4.name = s.name /\ t4.check = s.check /\ t4.lost = s.lost
          /\ t4.out = s.out /\ t4.left = s.left /\ t4.readSize = 0
      <4>1. Zeros(a.alloc % Word) \in Seq(Int)
        BY <2>5, <2>12
      <4> QED BY <2>4, <4>1 DEF Stream, StreamState
    <3> HIDE DEF t1, t2, t3, t4, t5
    <3>2. t = t4
      BY <2>12
    <3> HIDE DEF t
    <3>3. /\ a.size \in Nat /\ Filled(a, 1) = 0 /\ Len(a.extents) \in Nat
      BY <2>2, <2>12, FilledFacts, RunFacts
    <3>4. PlaceInv(vol, t)
      BY <1>2, <2>2, <2>6, <2>12, <3>1, <3>2, <3>3 DEF PlaceInv
    <3>5. LengthInv(vol, t)
      BY <1>1, <3>1, <3>2 DEF LengthInv, GoodStream
    <3>6. ASSUME ~s.lost PROVE Len(Pieces(vol, s.name)) = 1 /\ a.size <= End(a)
      <4>1. Len(Pieces(vol, s.name)) = 1
        BY <1>1, <2>12, <3>6 DEF BufferInv
      <4>2. Pieces(vol, s.name) = <<a>>
        BY <1>1, <1>2, <1>4, <4>1, PiecesFacts DEF a, rec
      <4>3. Pieces(vol, a.name) = <<a>>
        BY <2>2, <4>2
      <4> QED BY <1>1, <1>2, <2>2, <2>12, <4>1, <4>3, Typed DEF IsVolume, rec
    <3>7. BufferInv(vol, t)
      BY <3>1, <3>2, <3>3, <3>6 DEF BufferInv
    <3> QED BY <1>1, <2>1, <3>1, <3>2, <3>4, <3>5, <3>7, KeepGoes DEF GoodStream, s
  <2>13. CASE a.form = "runs" /\ a.extents = <<>>
    <3>1. /\ t5 \in Stream(vol) /\ t5.pc = "threw" /\ t5.attr = a /\ t5.r = 1
          /\ t5.rec = s.rec /\ t5.entries = s.entries /\ t5.mode = s.mode
          /\ t5.name = s.name /\ t5.check = s.check /\ t5.lost = TRUE
          /\ t5.out = s.out /\ t5.left = s.left
      BY <2>4 DEF Stream, StreamState
    <3> HIDE DEF t1, t2, t3, t4, t5
    <3>2. t = t5
      BY <2>13
    <3>3. GoodStream(vol, t)
      BY <2>8, <2>13, <3>1, <3>2
    <3> HIDE DEF t
    <3> QED BY <1>1, <2>1, <3>3, KeepGoes DEF s
  <2> QED BY <2>3, <2>9, <2>10, <2>11, <2>12, <2>13
<1> QED BY <1>3, <1>4
LEMMA NextPieceGoes ==
  ASSUME StreamInv, NEW c \in Client, mft = "runs", NextPiece(c)
  PROVE  Goes(c)
<1> DEFINE s == k[c]
           n == Head(s.entries).rec
           t0 == [s EXCEPT !.entries = Tail(s.entries)]
           t1 == [t0 EXCEPT !.pc = "enter", !.rec = n]
           t2 == [t0 EXCEPT !.pc = "threw", !.lost = TRUE]
<1>1. /\ vol \in Volumes /\ s \in Stream(vol) /\ GoodStream(vol, s)
      /\ PlaceInv(vol, s) /\ s.pc = "next" /\ s.entries # <<>>
      /\ reader \in Reader /\ Coherent(reader)
  BY Now DEF NextPiece
<1>2. s.entries \in Seq([name : STRING, rec : DOMAIN vol])
  BY <1>1 DEF Stream
<1>3. /\ Head(s.entries) \in [name : STRING, rec : DOMAIN vol]
      /\ Tail(s.entries) \in Seq([name : STRING, rec : DOMAIN vol])
  BY <1>1, <1>2, HeadTailProperties
<1>4. n \in DOMAIN vol /\ n \in Nat
  BY <1>1, <1>3, ListFacts
<1>5. vol[Base].list # <<>> /\ s.r # 0
  BY <1>1 DEF PlaceInv
<1>6. /\ n = Base /\ Keep(c, t0) /\ reader' = reader
      \/ \E x \in RecordFromNumber(reader, n) :
           reader' = x.rd /\ Touch(c, IF x.ok THEN t1 ELSE t2)
  BY DEF NextPiece
<1> HIDE DEF n, s
<1>7. /\ t0 \in Stream(vol) /\ t0.pc = "next" /\ t0.r = s.r /\ t0.mode = s.mode
      /\ t0.name = s.name /\ t0.check = s.check /\ t0.lost = s.lost
      /\ t0.out = s.out /\ t0.left = s.left
  BY <1>1, <1>3 DEF Stream
<1> HIDE DEF t0
<1>8. /\ t1 \in Stream(vol) /\ t1.pc = "enter" /\ t1.r = s.r /\ t1.mode = s.mode
      /\ t1.name = s.name /\ t1.check = s.check /\ t1.lost = s.lost
      /\ t1.out = s.out /\ t1.left = s.left
  BY <1>4, <1>7 DEF Stream, StreamState
<1>9. /\ t2 \in Stream(vol) /\ t2.pc = "threw" /\ t2.r = s.r /\ t2.mode = s.mode
      /\ t2.name = s.name /\ t2.check = s.check /\ t2.lost = TRUE
      /\ t2.out = s.out /\ t2.left = s.left
  BY <1>7 DEF Stream, StreamState
<1> HIDE DEF t1, t2
<1>10. GoodStream(vol, t0) /\ GoodStream(vol, t1) /\ GoodStream(vol, t2)
  <2>1. PlaceInv(vol, t0) /\ PlaceInv(vol, t1) /\ PlaceInv(vol, t2)
    BY <1>5, <1>7, <1>8, <1>9 DEF PlaceInv
  <2>2. LengthInv(vol, t0) /\ BufferInv(vol, t0)
    BY <1>1, <1>7, Silent
  <2>3. LengthInv(vol, t1) /\ BufferInv(vol, t1)
    BY <1>1, <1>8, Silent
  <2>4. LengthInv(vol, t2) /\ BufferInv(vol, t2)
    BY <1>1, <1>9, Silent
  <2> QED BY <1>7, <1>8, <1>9, <2>1, <2>2, <2>3, <2>4 DEF GoodStream
<1>11. CASE Keep(c, t0) /\ reader' = reader
  BY <1>10, <1>11, KeepGoes
<1>12. CASE \E x \in RecordFromNumber(reader, n) :
              reader' = x.rd /\ Touch(c, IF x.ok THEN t1 ELSE t2)
  <2>1. PICK x \in RecordFromNumber(reader, n) :
               reader' = x.rd /\ Touch(c, IF x.ok THEN t1 ELSE t2)
    BY <1>12
  <2>2. reader' \in Reader /\ Coherent(reader')
    BY <1>1, <1>4, <2>1, RecordKeeps
  <2>3. GoodStream(vol, IF x.ok THEN t1 ELSE t2)
    BY <1>10
  <2> QED BY <2>1, <2>2, <2>3 DEF Goes
<1> QED BY <1>6, <1>11, <1>12

LEMMA StreamEndGoes ==
  ASSUME StreamInv, NEW c \in Client, mft = "runs", StreamEnd(c)
  PROVE  Goes(c)
<1> DEFINE s == k[c]
           t == [s EXCEPT !.pc = "done"]
<1>1. /\ s \in Stream(vol) /\ GoodStream(vol, s) /\ PlaceInv(vol, s)
      /\ s.pc = "next" /\ Keep(c, t) /\ reader' = reader
  BY Now DEF StreamEnd
<1> HIDE DEF s
<1>2. /\ t \in Stream(vol) /\ t.pc = "done" /\ t.r = s.r /\ t.mode = s.mode
      /\ t.name = s.name /\ t.check = s.check /\ t.lost = s.lost
      /\ t.out = s.out /\ t.left = s.left /\ t.rec = s.rec /\ t.entries = s.entries
  BY <1>1 DEF Stream, StreamState
<1> HIDE DEF t
<1>3. PlaceInv(vol, t)
  BY <1>1, <1>2 DEF PlaceInv
<1>4. LengthInv(vol, t) /\ BufferInv(vol, t)
  BY <1>1, <1>2, Silent
<1> QED BY <1>1, <1>2, <1>3, <1>4, KeepGoes DEF GoodStream

LEMMA ResidentBlockGoes ==
  ASSUME StreamInv, NEW c \in Client, mft = "runs", ResidentBlock(c)
  PROVE  Goes(c)
<1> DEFINE s == k[c]
           n == Min({Block, Len(s.attr.value) - s.i})
           t0 == [s EXCEPT !.pc = "next"]
           u == [s EXCEPT !.i = @ + Block]
           data == SubSeq(s.attr.value, s.i + 1, s.i + n)
<1>1. /\ vol \in Volumes /\ s \in Stream(vol) /\ GoodStream(vol, s)
      /\ PlaceInv(vol, s) /\ s.pc = "resident" /\ reader' = reader
      /\ \/ n <= 0 /\ Keep(c, t0)
         \/ ~(n <= 0) /\ Keep(c, Yielded(u, data))
  BY Now DEF ResidentBlock, Yield
<1>2. s.attr.form = "resident" /\ s.attr \in Attributes(vol)
  <2>1. s.attr.form = "resident" /\ s.attr \in Attributes(vol) \cup {NoAttr}
    BY <1>1 DEF PlaceInv, Stream
  <2>2. NoAttr.form = "none"
    BY DEF NoAttr
  <2> HIDE DEF s
  <2> QED BY <2>1, <2>2
<1>3. s.attr.value \in Seq(Int)
  BY <1>1, <1>2, IsAttributeOf DEF IsAttribute
<1>4. s.i \in Nat /\ Block \in Nat /\ s.i + Block \in Nat
  BY <1>1, StreamAssumption DEF Stream
<1>5. Len(s.attr.value) \in Nat /\ \A i \in 1..Len(s.attr.value) : s.attr.value[i] \in Int
  BY <1>3, LenProperties, ElementOfSeq
<1> HIDE DEF s
<1>6. n \in Int /\ n <= Len(s.attr.value) - s.i
  <2> DEFINE l == Len(s.attr.value) - s.i
  <2>1. l \in Int
    BY <1>4, <1>5
  <2> HIDE DEF l
  <2>2. Min({Block, l}) = IF Block <= l THEN Block ELSE l
    BY <1>4, <2>1, MinOfTwo
  <2>3. n = Min({Block, l})
    BY DEF l
  <2> QED BY <1>4, <2>1, <2>2, <2>3 DEF l
<1> HIDE DEF n
<1>7. data \in Seq(Int)
  <2>1. \A i \in (s.i + 1)..(s.i + n) : s.attr.value[i] \in Int
    BY <1>4, <1>5, <1>6
  <2>2. s.i + 1 \in Int /\ s.i + n \in Int
    BY <1>4, <1>6
  <2> QED BY <2>1, <2>2, SubSeqProperties
<1> HIDE DEF data
<1>8. CASE Keep(c, t0)
  <2>1. /\ t0 \in Stream(vol) /\ t0.pc = "next" /\ t0.r = s.r /\ t0.mode = s.mode
        /\ t0.name = s.name /\ t0.check = s.check /\ t0.lost = s.lost
        /\ t0.out = s.out /\ t0.left = s.left /\ t0.rec = s.rec
        /\ t0.entries = s.entries
    BY <1>1 DEF Stream, StreamState
  <2> HIDE DEF t0
  <2>2. PlaceInv(vol, t0)
    BY <1>1, <2>1 DEF PlaceInv
  <2>3. LengthInv(vol, t0) /\ BufferInv(vol, t0)
    BY <1>1, <2>1, Silent
  <2> QED BY <1>1, <1>8, <2>1, <2>2, <2>3, KeepGoes DEF GoodStream
<1>9. CASE Keep(c, Yielded(u, data))
  <2>1. /\ u \in Stream(vol) /\ u.pc = "resident" /\ u.r = s.r /\ u.mode = s.mode
        /\ u.name = s.name /\ u.check = s.check /\ u.lost = s.lost
        /\ u.out = s.out /\ u.left = s.left /\ u.rec = s.rec
        /\ u.entries = s.entries /\ u.attr = s.attr
    BY <1>1, <1>4 DEF Stream
  <2>2. GoodStream(vol, u)
    <3> HIDE DEF u
    <3>1. PlaceInv(vol, u)
      BY <1>1, <2>1 DEF PlaceInv
    <3>2. LengthInv(vol, u) /\ BufferInv(vol, u)
      BY <1>1, <2>1, Silent
    <3> QED BY <2>1, <3>1, <3>2 DEF GoodStream
  <2>3. GoodStream(vol, Yielded(u, data))
    <3> HIDE DEF u
    <3> QED BY <1>7, <2>1, <2>2, YieldedGood
  <2> QED BY <1>1, <1>9, <2>3, KeepGoes
<1> QED BY <1>1, <1>8, <1>9
(* The loops over the runs. *)
LEMMA AttrFacts ==
  ASSUME NEW v \in Volumes, NEW s \in Stream(v), s.attr # NoAttr \/ s.attr.form # "none"
  PROVE  /\ s.attr \in Attributes(v) /\ IsAttribute(s.attr)
         /\ Len(Runs(s)) = Len(s.attr.extents) /\ Len(s.attr.extents) \in Nat
         /\ DOMAIN s.attr.extents = 1..Len(s.attr.extents)
         /\ DOMAIN Runs(s) = DOMAIN s.attr.extents
         /\ \A r \in Nat : r # 0 /\ r <= Len(Runs(s)) => r \in DOMAIN s.attr.extents
<1>1. s.attr \in Attributes(v)
  <2>1. NoAttr.form = "none"
    BY DEF NoAttr
  <2>2. s.attr \in Attributes(v) \cup {NoAttr}
    BY DEF Stream
  <2> QED BY <2>1, <2>2
<1>2. IsAttribute(s.attr)
  BY <1>1, IsAttributeOf
<1>3. /\ Len(Runs(s)) = Len(s.attr.extents) /\ Len(s.attr.extents) \in Nat
      /\ DOMAIN s.attr.extents = 1..Len(s.attr.extents)
      /\ DOMAIN Runs(s) = DOMAIN s.attr.extents
  BY <1>2, RunFacts DEF Runs
<1> QED BY <1>1, <1>2, <1>3

LEMMA AtRunFacts ==
  ASSUME StreamInv, NEW c \in Client, k[c].pc \in {"run", "hole", "blocks"}
  PROVE  LET s == k[c]
         IN  /\ s.attr.form = "runs" /\ s.attr \in Attributes(vol)
             /\ IsAttribute(s.attr) /\ s.r \in Nat \ {0}
             /\ AtRun(c) \/ s.pc # "run" => s.r \in DOMAIN s.attr.extents
<1> DEFINE s == k[c]
<1>1. /\ vol \in Volumes /\ s \in Stream(vol) /\ PlaceInv(vol, s)
      /\ s.pc \in {"run", "hole", "blocks"}
  BY Now
<1>2. s.attr.form = "runs" /\ s.r \in Nat \ {0}
      /\ (s.pc # "run" => s.r \in DOMAIN s.attr.extents)
  BY <1>1 DEF PlaceInv, Stream
<1>3. AtRun(c) => s.r <= Len(Runs(s))
  BY DEF AtRun
<1> HIDE DEF s
<1> QED BY <1>1, <1>2, <1>3, AttrFacts DEF s

(* Another run, or another place in this one, without a block. *)
LEMMA MoveOn ==
  ASSUME StreamInv, NEW c \in Client, NEW t \in Stream(vol),
         k[c].pc \in {"run", "hole", "blocks"},
         t.pc \in {"next", "run", "hole", "blocks"},
         t.r \in Nat \ {0}, t.attr = k[c].attr,
         t.pc \in {"hole", "blocks"} => t.r \in DOMAIN k[c].attr.extents,
         t.rec = k[c].rec, t.entries = k[c].entries, t.mode = k[c].mode,
         t.name = k[c].name, t.check = k[c].check, k[c].lost => t.lost,
         t.out = k[c].out, t.left = k[c].left
  PROVE  GoodStream(vol, t)
<1>1. GoodStream(vol, k[c]) /\ PlaceInv(vol, k[c]) /\ k[c].attr.form = "runs"
  BY Now, AtRunFacts
<1>2. PlaceInv(vol, t)
  BY <1>1 DEF PlaceInv
<1>3. LengthInv(vol, t) /\ BufferInv(vol, t)
  BY <1>1, Silent
<1> QED BY <1>2, <1>3 DEF GoodStream

LEMMA RunsEndGoes ==
  ASSUME StreamInv, NEW c \in Client, mft = "runs", RunsEnd(c)
  PROVE  Goes(c)
<1> DEFINE s == k[c]
           t == [s EXCEPT !.pc = "next"]
<1>1. /\ s \in Stream(vol) /\ s.pc = "run" /\ Keep(c, t) /\ reader' = reader
      /\ s.r \in Nat \ {0}
  BY Now, AtRunFacts DEF RunsEnd
<1>2. /\ t \in Stream(vol) /\ t.pc = "next" /\ t.r = s.r /\ t.mode = s.mode
      /\ t.name = s.name /\ t.check = s.check /\ t.lost = s.lost
      /\ t.out = s.out /\ t.left = s.left /\ t.rec = s.rec /\ t.entries = s.entries
      /\ t.attr = s.attr
  BY <1>1 DEF Stream, StreamState
<1> HIDE DEF t
<1>3. GoodStream(vol, t)
  BY <1>1, <1>2, MoveOn
<1> QED BY <1>1, <1>3, KeepGoes

LEMMA HoleRunGoes ==
  ASSUME StreamInv, NEW c \in Client, mft = "runs", HoleRun(c)
  PROVE  Goes(c)
<1> DEFINE s == k[c]
           r1 == s.r + 1
           t1 == [s EXCEPT !.r = r1]
           t2 == [s EXCEPT !.pc = "hole", !.i = 0]
           t == IF s.skip THEN t1 ELSE t2
<1>1. /\ s \in Stream(vol) /\ s.pc = "run" /\ Keep(c, t) /\ reader' = reader
      /\ s.r \in Nat \ {0} /\ s.r \in DOMAIN s.attr.extents
  BY Now, AtRunFacts DEF HoleRun, AtRun
<1>0. r1 \in Nat \ {0}
  BY <1>1
<1> HIDE DEF r1
<1>2. /\ t1 \in Stream(vol) /\ t1.pc = "run" /\ t1.r = r1 /\ t1.mode = s.mode
      /\ t1.name = s.name /\ t1.check = s.check /\ t1.lost = s.lost
      /\ t1.out = s.out /\ t1.left = s.left /\ t1.rec = s.rec /\ t1.entries = s.entries
      /\ t1.attr = s.attr
  BY <1>1, <1>0 DEF Stream
<1>3. /\ t2 \in Stream(vol) /\ t2.pc = "hole" /\ t2.r = s.r /\ t2.mode = s.mode
      /\ t2.name = s.name /\ t2.check = s.check /\ t2.lost = s.lost
      /\ t2.out = s.out /\ t2.left = s.left /\ t2.rec = s.rec /\ t2.entries = s.entries
      /\ t2.attr = s.attr
  BY <1>1 DEF Stream, StreamState
<1> HIDE DEF t1, t2
<1>4. GoodStream(vol, t1) /\ GoodStream(vol, t2)
  BY <1>1, <1>0, <1>2, <1>3, MoveOn
<1>5. GoodStream(vol, t)
  BY <1>4
<1> HIDE DEF t
<1> QED BY <1>1, <1>5, KeepGoes

LEMMA PaddingGoes ==
  ASSUME StreamInv, NEW c \in Client, mft = "runs", Padding(c)
  PROVE  Goes(c)
<1> DEFINE s == k[c]
           r1 == s.r + 1
           t == [s EXCEPT !.r = r1]
<1>1. /\ s \in Stream(vol) /\ s.pc = "run" /\ Keep(c, t) /\ reader' = reader
      /\ s.r \in Nat \ {0}
  BY Now, AtRunFacts DEF Padding, AtRun
<1>0. r1 \in Nat \ {0}
  BY <1>1
<1> HIDE DEF r1
<1>2. /\ t \in Stream(vol) /\ t.pc = "run" /\ t.r = r1 /\ t.mode = s.mode
      /\ t.name = s.name /\ t.check = s.check /\ t.lost = s.lost
      /\ t.out = s.out /\ t.left = s.left /\ t.rec = s.rec /\ t.entries = s.entries
      /\ t.attr = s.attr
  BY <1>1, <1>0 DEF Stream
<1> HIDE DEF t
<1>3. GoodStream(vol, t)
  BY <1>1, <1>0, <1>2, MoveOn
<1> QED BY <1>1, <1>3, KeepGoes

LEMMA HoleBlockGoes ==
  ASSUME StreamInv, NEW c \in Client, mft = "runs", HoleBlock(c)
  PROVE  Goes(c)
<1> DEFINE s == k[c]
           fixed == MinDword(s.attr.size - s.written, Block)
           r1 == s.r + 1
           i1 == s.i + Block
           w1 == s.written + fixed
           t == [s EXCEPT !.pc = "run", !.r = r1]
           u == [s EXCEPT !.i = i1, !.written = w1]
<1>1. /\ s \in Stream(vol) /\ s.pc = "hole" /\ reader' = reader
      /\ s.r \in Nat \ {0} /\ s.r \in DOMAIN s.attr.extents
      /\ s.attr.form = "runs" /\ IsAttribute(s.attr)
      /\ Keep(c, t) \/ Keep(c, Yielded(u, Zeros(fixed)))
  BY Now, AtRunFacts DEF HoleBlock, Yield
<1>2. s.attr.size \in Nat /\ s.written \in Nat /\ s.i \in Nat /\ Block \in Nat
  BY <1>1, StreamAssumption DEF IsAttribute, Stream
<1>3. fixed \in Nat
  <2> DEFINE room == s.attr.size - s.written
  <2>1. room \in Int /\ Block \in Int
    BY <1>2
  <2> HIDE DEF room
  <2>2. MinDword(room, Block) \in Nat
    BY <2>1, Dword
  <2> QED BY <2>2 DEF room
<1> HIDE DEF fixed
<1>0. r1 \in Nat \ {0} /\ i1 \in Nat /\ w1 \in Nat
  BY <1>1, <1>2, <1>3
<1> HIDE DEF r1, i1, w1
<1>4. Zeros(fixed) \in Seq(Int)
  BY <1>3, ZerosIsSeq
<1>5. /\ t \in Stream(vol) /\ t.pc = "run" /\ t.r = r1 /\ t.mode = s.mode
      /\ t.name = s.name /\ t.check = s.check /\ t.lost = s.lost
      /\ t.out = s.out /\ t.left = s.left /\ t.rec = s.rec /\ t.entries = s.entries
      /\ t.attr = s.attr
  BY <1>1, <1>0 DEF Stream, StreamState
<1>6. /\ u \in Stream(vol) /\ u.pc = "hole" /\ u.r = s.r /\ u.mode = s.mode
      /\ u.name = s.name /\ u.check = s.check /\ u.lost = s.lost
      /\ u.out = s.out /\ u.left = s.left /\ u.rec = s.rec /\ u.entries = s.entries
      /\ u.attr = s.attr
  BY <1>1, <1>0 DEF Stream
<1> HIDE DEF t, u
<1>7. GoodStream(vol, t) /\ GoodStream(vol, u)
  BY <1>1, <1>0, <1>5, <1>6, MoveOn
<1>8. GoodStream(vol, Yielded(u, Zeros(fixed)))
  BY <1>4, <1>6, <1>7, YieldedGood
<1> QED BY <1>1, <1>7, <1>8, KeepGoes

LEMMA SeekRunGoes ==
  ASSUME StreamInv, NEW c \in Client, mft = "runs", SeekRun(c)
  PROVE  Goes(c)
<1> DEFINE s == k[c]
           rbs == MinDword(Block, Bytes(Run(s)))
           p == Run(s).offset * Cluster
<1>1. /\ s \in Stream(vol) /\ s.pc = "run"
      /\ s.r \in Nat \ {0} /\ s.r \in DOMAIN s.attr.extents
      /\ s.attr.form = "runs" /\ IsAttribute(s.attr)
      /\ reader \in Reader /\ Coherent(reader)
  BY Now, AtRunFacts DEF SeekRun, AtRun
<1>2. PICK x \in Seek(reader, p) :
        /\ reader' = x.rd
        /\ Touch(c, [s EXCEPT !.pc = "blocks", !.i = 0, !.rbs = rbs,
                              !.trust = @ /\ x.ok])
  BY DEF SeekRun
<1>3. p \in Nat /\ Bytes(Run(s)) \in Int /\ Block \in Int
  BY <1>1, BytesFacts, StreamAssumption
<1>4. rbs \in Nat
  BY <1>3, Dword
<1> HIDE DEF rbs, p
<1>5. x.ok \in BOOLEAN /\ x.rd \in Reader /\ Coherent(x.rd)
  BY <1>1, <1>3, SeekKeeps
<1> DEFINE t == [s EXCEPT !.pc = "blocks", !.i = 0, !.rbs = rbs, !.trust = @ /\ x.ok]
<1>6. /\ t \in Stream(vol) /\ t.pc = "blocks" /\ t.r = s.r /\ t.mode = s.mode
      /\ t.name = s.name /\ t.check = s.check /\ t.lost = s.lost
      /\ t.out = s.out /\ t.left = s.left /\ t.rec = s.rec /\ t.entries = s.entries
      /\ t.attr = s.attr
  <2> DEFINE tr == s.trust /\ x.ok
             w == [s EXCEPT !.pc = "blocks", !.i = 0, !.rbs = rbs, !.trust = tr]
  <2>1. t = w
    OBVIOUS
  <2>2. tr \in BOOLEAN
    OBVIOUS
  <2> HIDE DEF s, t, tr
  <2>3. w \in Stream(vol)
    BY <1>1, <1>4, <2>2 DEF Stream, StreamState
  <2>4. /\ w.pc = "blocks" /\ w.r = s.r /\ w.mode = s.mode
        /\ w.name = s.name /\ w.check = s.check /\ w.lost = s.lost
        /\ w.out = s.out /\ w.left = s.left /\ w.rec = s.rec /\ w.entries = s.entries
        /\ w.attr = s.attr
    BY <1>1 DEF Stream
  <2> HIDE DEF w
  <2> QED BY <2>1, <2>3, <2>4
<1>7. Touch(c, t)
  BY <1>2
<1> HIDE DEF t
<1>8. GoodStream(vol, t)
  BY <1>1, <1>6, MoveOn
<1> QED BY <1>2, <1>5, <1>7, <1>8 DEF Goes
LEMMA BrokenFacts ==
  ASSUME NEW v, NEW u \in Stream(v)
  PROVE  LET t == Broken(u)
         IN  /\ t \in Stream(v) /\ t.pc = "next" /\ t.lost = TRUE
             /\ t.r = u.r /\ t.rec = u.rec /\ t.entries = u.entries
             /\ t.attr = u.attr /\ t.mode = u.mode /\ t.name = u.name
             /\ t.check = u.check /\ t.out = u.out /\ t.left = u.left
BY DEF Broken, Stream, StreamState

LEMMA ReadBlockGoes ==
  ASSUME StreamInv, NEW c \in Client, mft = "runs", ReadBlock(c)
  PROVE  Goes(c)
<1> DEFINE s == k[c]
           total == Bytes(Run(s))
           n == MinDword(s.rbs, total - s.i)
           over == s.i + n >= total
           i1 == s.i + n
           w1 == s.written + n
           r1 == IF over THEN s.r + 1 ELSE s.r
           pc1 == IF over THEN "run" ELSE "blocks"
           u == [s EXCEPT !.rbs = n, !.i = i1, !.written = w1, !.pc = pc1, !.r = r1]
<1>1. /\ s \in Stream(vol) /\ s.pc = "blocks"
      /\ s.r \in Nat \ {0} /\ s.r \in DOMAIN s.attr.extents
      /\ s.attr.form = "runs" /\ IsAttribute(s.attr)
      /\ reader \in Reader /\ Coherent(reader)
  BY Now, AtRunFacts DEF ReadBlock
<1>2. PICK x \in Read(reader, s.rbs) :
        /\ reader' = x.rd
        /\ IF x.ok THEN Touch(c, Yielded(u, SubSeq(x.data, 1, n)))
           ELSE Touch(c, Broken(s))
  BY DEF ReadBlock
<1>3. /\ s.rbs \in Nat /\ s.i \in Nat /\ s.written \in Nat
  BY <1>1 DEF Stream
<1>4. total \in Nat
  BY <1>1, BytesFacts
<1> HIDE DEF total
<1>5. n \in Nat /\ n <= s.rbs
  <2> DEFINE rest == total - s.i  b == s.rbs
  <2>1. rest \in Int /\ b \in Int /\ b \in Nat
    BY <1>3, <1>4
  <2> HIDE DEF rest, b
  <2>2. MinDword(b, rest) \in Nat /\ MinDword(b, rest) <= b
    BY <2>1, Dword
  <2> QED BY <2>2 DEF rest, b
<1> HIDE DEF n
<1>6. /\ i1 \in Nat /\ w1 \in Nat /\ r1 \in Nat \ {0} /\ pc1 \in {"run", "blocks"}
      /\ pc1 = "blocks" => r1 = s.r
  BY <1>1, <1>3, <1>5
<1> HIDE DEF over, i1, w1, r1, pc1
<1>7. /\ x.ok \in BOOLEAN /\ x.rd \in Reader /\ Coherent(x.rd)
      /\ x.ok => x.data \in Seq(Int) /\ Len(x.data) = s.rbs
  BY <1>1, <1>3, ReadKeeps
<1>8. /\ u \in Stream(vol) /\ u.pc = pc1 /\ u.r = r1 /\ u.mode = s.mode
      /\ u.name = s.name /\ u.check = s.check /\ u.lost = s.lost
      /\ u.out = s.out /\ u.left = s.left /\ u.rec = s.rec /\ u.entries = s.entries
      /\ u.attr = s.attr
  BY <1>1, <1>5, <1>6 DEF Stream, StreamState
<1> HIDE DEF u
<1>9. GoodStream(vol, u)
  BY <1>1, <1>6, <1>8, MoveOn
<1>10. CASE x.ok
  <2> DEFINE data == SubSeq(x.data, 1, n)
  <2>1. data \in Seq(Int)
    <3>1. \A i \in 1..n : x.data[i] \in Int
      BY <1>3, <1>5, <1>7, <1>10, ElementOfSeq
    <3>2. 1 \in Int /\ n \in Int
      BY <1>5
    <3> QED BY <3>1, <3>2, SubSeqProperties
  <2>2. Touch(c, Yielded(u, data))
    BY <1>2, <1>10
  <2> HIDE DEF data
  <2>3. GoodStream(vol, Yielded(u, data))
    BY <1>6, <1>8, <1>9, <2>1, YieldedGood
  <2> QED BY <1>2, <1>7, <2>2, <2>3 DEF Goes
<1>11. CASE ~x.ok
  <2> DEFINE t == Broken(s)
  <2>1. Touch(c, t)
    BY <1>2, <1>11
  <2>2. /\ t \in Stream(vol) /\ t.pc = "next" /\ t.lost = TRUE
        /\ t.r = s.r /\ t.rec = s.rec /\ t.entries = s.entries
        /\ t.attr = s.attr /\ t.mode = s.mode /\ t.name = s.name
        /\ t.check = s.check /\ t.out = s.out /\ t.left = s.left
    BY <1>1, BrokenFacts
  <2> HIDE DEF t
  <2>3. GoodStream(vol, t)
    BY <1>1, <2>2, MoveOn
  <2> QED BY <1>2, <1>7, <2>1, <2>3 DEF Goes
<1> QED BY <1>10, <1>11

LEMMA UnpackedIsSeq ==
  ASSUME NEW l \in Nat
  PROVE  Unpacked(l) \in Seq(Int) /\ Len(Unpacked(l)) = Unit * Cluster
         /\ Unit * Cluster \in Nat
<1> DEFINE n == Unit * Cluster
<1>1. n \in Nat
  BY FileAssumption
<1>2. Unpacked(l) = [i \in 1..n |-> 1000 * l + i]
  BY DEF Unpacked
<1> HIDE DEF n
<1>3. \A i \in 1..n : 1000 * l + i \in Int
  OBVIOUS
<1>4. Unpacked(l) \in [1..n -> Int]
  BY <1>2, <1>3
<1> QED BY <1>1, <1>2, <1>4, SeqDef DEF n

LEMMA DecompressFacts ==
  ASSUME NEW a, IsAttribute(a), NEW units \in Seq(Int), NEW d \in Decompress(a, units)
  PROVE  d.ok \in BOOLEAN /\ d.data \in Seq(Int)
<1> DEFINE hit == {j \in DOMAIN a.extents :
                     /\ a.extents[j].kind = "packed"
                     /\ a.extents[j].at * Cluster = units[1]
                     /\ a.extents[j].len * Cluster = Len(units)}
           one == CHOOSE j \in hit : TRUE
           junk == [i \in 1..Len(units) |-> Garbage]
           whole == Unpacked(a.extents[one].at)
<1>1. Len(units) \in Nat
  BY LenProperties
<1>2. junk \in Seq(Int)
  <2>1. junk \in [1..Len(units) -> Int]
    BY DEF Garbage
  <2> QED BY <1>1, <2>1, SeqDef
<1>3. \/ hit # {} /\ d = [ok |-> TRUE, data |-> whole]
      \/ d = [ok |-> FALSE, data |-> <<>>]
      \/ d = [ok |-> TRUE, data |-> junk]
  BY DEF Decompress
<1>4. ASSUME hit # {} PROVE whole \in Seq(Int)
  <2>1. one \in DOMAIN a.extents
    BY <1>4
  <2> HIDE DEF one
  <2>2. a.extents[one] \in Extent
    BY <2>1, RunFacts, ElementOfSeq
  <2>3. a.extents[one].at \in Nat
    BY <2>2 DEF Extent
  <2> QED BY <2>3, UnpackedIsSeq
<1> HIDE DEF junk, whole, hit
<1>5. CASE d = [ok |-> FALSE, data |-> <<>>]
  BY <1>5, EmptySeq
<1>6. CASE d = [ok |-> TRUE, data |-> junk]
  BY <1>2, <1>6
<1>7. CASE hit # {} /\ d = [ok |-> TRUE, data |-> whole]
  BY <1>4, <1>7
<1> QED BY <1>3, <1>5, <1>6, <1>7

LEMMA PackedRunGoes ==
  ASSUME StreamInv, NEW c \in Client, mft = "runs", PackedRun(c)
  PROVE  Goes(c)
<1> DEFINE s == k[c]
           r1 == s.r + 1
           o == Run(s).offset
           p == o * Cluster
           n == Bytes(Run(s)) % Word
<1>1. /\ s \in Stream(vol) /\ s.pc = "run"
      /\ s.r \in Nat \ {0} /\ s.r \in DOMAIN s.attr.extents
      /\ s.attr.form = "runs" /\ IsAttribute(s.attr)
      /\ reader \in Reader /\ Coherent(reader)
  BY Now, AtRunFacts DEF PackedRun, AtRun
<1>2. PICK x \in Seek(reader, p) : \E t \in Read(x.rd, n) :
        LET u == [s EXCEPT !.last = o, !.r = r1, !.trust = @ /\ x.ok]
        IN  /\ reader' = t.rd
            /\ \/ ~t.ok /\ Touch(c, Broken(u))
               \/ t.ok /\ Touch(c, Yielded(u, t.data))
               \/ /\ t.ok
                  /\ \E d \in Decompress(u.attr, t.data) :
                       IF d.ok THEN Touch(c, Yielded(u, d.data))
                       ELSE Touch(c, Broken(u))
  BY DEF PackedRun
<1> DEFINE u == [s EXCEPT !.last = o, !.r = r1, !.trust = @ /\ x.ok]
<1>3. PICK t \in Read(x.rd, n) :
        /\ reader' = t.rd
        /\ \/ ~t.ok /\ Touch(c, Broken(u))
           \/ t.ok /\ Touch(c, Yielded(u, t.data))
           \/ /\ t.ok
              /\ \E d \in Decompress(u.attr, t.data) :
                   IF d.ok THEN Touch(c, Yielded(u, d.data)) ELSE Touch(c, Broken(u))
  BY <1>2
<1>4. p \in Nat /\ n \in Nat /\ o \in Nat /\ r1 \in Nat \ {0}
  BY <1>1, BytesFacts, StreamAssumption, ModRange
<1> HIDE DEF p, n, o, r1
<1>5. x.ok \in BOOLEAN /\ x.rd \in Reader /\ Coherent(x.rd)
  BY <1>1, <1>4, SeekKeeps
<1>6. /\ t.ok \in BOOLEAN /\ t.rd \in Reader /\ Coherent(t.rd)
      /\ t.ok => t.data \in Seq(Int)
  BY <1>4, <1>5, ReadKeeps
<1>7. /\ u \in Stream(vol) /\ u.pc = "run" /\ u.r = r1 /\ u.mode = s.mode
      /\ u.name = s.name /\ u.check = s.check /\ u.lost = s.lost
      /\ u.out = s.out /\ u.left = s.left /\ u.rec = s.rec /\ u.entries = s.entries
      /\ u.attr = s.attr
  BY <1>1, <1>4, <1>5 DEF Stream
<1> HIDE DEF u
<1>8. GoodStream(vol, u)
  BY <1>1, <1>4, <1>7, MoveOn
<1>9. GoodStream(vol, Broken(u))
  <2> DEFINE w == Broken(u)
  <2>1. /\ w \in Stream(vol) /\ w.pc = "next" /\ w.lost = TRUE
        /\ w.r = u.r /\ w.rec = u.rec /\ w.entries = u.entries
        /\ w.attr = u.attr /\ w.mode = u.mode /\ w.name = u.name
        /\ w.check = u.check /\ w.out = u.out /\ w.left = u.left
    BY <1>7, BrokenFacts
  <2> HIDE DEF w
  <2>2. GoodStream(vol, w)
    BY <1>1, <1>4, <1>7, <2>1, MoveOn
  <2> QED BY <2>2 DEF w
<1>10. \A data \in Seq(Int) : GoodStream(vol, Yielded(u, data))
  BY <1>7, <1>8, YieldedGood
<1>11. CASE Touch(c, Broken(u))
  BY <1>3, <1>6, <1>9, <1>11 DEF Goes
<1>12. CASE t.ok /\ Touch(c, Yielded(u, t.data))
  BY <1>3, <1>6, <1>10, <1>12 DEF Goes
<1>13. CASE t.ok /\ \E d \in Decompress(u.attr, t.data) :
                      IF d.ok THEN Touch(c, Yielded(u, d.data)) ELSE Touch(c, Broken(u))
  <2>1. PICK d \in Decompress(u.attr, t.data) :
          IF d.ok THEN Touch(c, Yielded(u, d.data)) ELSE Touch(c, Broken(u))
    BY <1>13
  <2>2. d.data \in Seq(Int)
    BY <1>1, <1>6, <1>7, <1>13, DecompressFacts
  <2>3. CASE d.ok
    <3>1. Touch(c, Yielded(u, d.data)) /\ GoodStream(vol, Yielded(u, d.data))
      BY <1>10, <2>1, <2>2, <2>3
    <3> QED BY <1>3, <1>6, <3>1 DEF Goes
  <2>4. CASE ~d.ok
    BY <1>11, <2>1, <2>4
  <2> QED BY <2>3, <2>4
<1> QED BY <1>3, <1>11, <1>12, <1>13
-----------------------------------------------------------------------------
(* attribute_data().                                                       *)

LEMMA CopyFacts ==
  ASSUME StreamInv, NEW c \in Client, k[c].pc \in {"attr", "wof"}
  PROVE  LET s == k[c]
         IN  /\ vol \in Volumes /\ s \in Stream(vol) /\ GoodStream(vol, s)
             /\ PlaceInv(vol, s) /\ LengthInv(vol, s) /\ BufferInv(vol, s)
             /\ s.attr \in Attributes(vol) /\ IsAttribute(s.attr)
             /\ s.attr.form \in {"resident", "runs"}
             /\ s.r \in Nat \ {0} /\ s.readSize \in Nat /\ s.lost \in BOOLEAN
             /\ Len(Runs(s)) = Len(s.attr.extents) /\ Len(s.attr.extents) \in Nat
             /\ DOMAIN s.attr.extents = 1..Len(s.attr.extents)
             /\ s.r <= Len(Runs(s)) => s.r \in DOMAIN s.attr.extents
             /\ reader \in Reader
             /\ mft = "runs" => Coherent(reader)
<1> DEFINE s == k[c]
<1>1. /\ vol \in Volumes /\ s \in Stream(vol) /\ GoodStream(vol, s)
      /\ PlaceInv(vol, s) /\ LengthInv(vol, s) /\ BufferInv(vol, s)
      /\ s.pc \in {"attr", "wof"} /\ reader \in Reader
      /\ mft = "runs" => Coherent(reader)
  BY Now
<1>2. s.attr # NoAttr /\ s.r \in Nat \ {0} /\ s.readSize \in Nat /\ s.lost \in BOOLEAN
  BY <1>1 DEF PlaceInv, Stream
<1> HIDE DEF s
<1>3. /\ s.attr \in Attributes(vol) /\ IsAttribute(s.attr)
      /\ Len(Runs(s)) = Len(s.attr.extents) /\ Len(s.attr.extents) \in Nat
      /\ DOMAIN s.attr.extents = 1..Len(s.attr.extents)
      /\ s.r <= Len(Runs(s)) => s.r \in DOMAIN s.attr.extents
  BY <1>1, <1>2, AttrFacts
<1>4. s.attr.form \in {"resident", "runs"}
  BY <1>3 DEF IsAttribute
<1> QED BY <1>1, <1>2, <1>3, <1>4 DEF s

(* The buffer is filled by one more run, or by zeros. *)
LEMMA FillMore ==
  ASSUME StreamInv, NEW c \in Client, k[c].pc = "attr", k[c].attr.form = "runs",
         k[c].r <= Len(Runs(k[c])), NEW n \in Nat,
         ShortRuns(k[c].attr) => n = Bytes(Run(k[c])),
         NEW t \in Stream(vol), t.pc = "attr", t.r = k[c].r + 1,
         t.readSize = k[c].readSize + Min({RoomLeft(k[c]), n}),
         t.attr = k[c].attr, t.rec = k[c].rec, t.entries = k[c].entries,
         t.mode = k[c].mode, t.name = k[c].name, t.check = k[c].check,
         t.lost = k[c].lost, t.out = k[c].out, t.left = k[c].left
  PROVE  GoodStream(vol, t)
<1> DEFINE s == k[c]
           a == s.attr
           size == a.size
           there == s.readSize
           now == t.readSize
           full == Filled(a, s.r)
           next == Filled(a, s.r + 1)
<1>1. /\ s \in Stream(vol) /\ GoodStream(vol, s) /\ PlaceInv(vol, s)
      /\ LengthInv(vol, s) /\ BufferInv(vol, s)
      /\ IsAttribute(a) /\ s.r \in Nat \ {0} /\ there \in Nat /\ s.lost \in BOOLEAN
      /\ Len(a.extents) \in Nat /\ Len(Runs(s)) = Len(a.extents)
      /\ s.r \in DOMAIN a.extents
  BY CopyFacts
<1>2. size \in Nat /\ there <= size
  BY <1>1 DEF PlaceInv, IsAttribute
<1>3. full \in Nat /\ next = full + a.extents[s.r].len * Cluster
  BY <1>1, FilledFacts
<1>4. Bytes(Run(s)) = a.extents[s.r].len * Cluster
  BY <1>1, BytesFacts
<1>5. now = there + Min({size - there, n})
  BY DEF RoomLeft
<1> HIDE DEF size, there, now, full, next
<1>6. /\ now \in Nat /\ now <= size
      /\ \/ there = size /\ size <= full
         \/ there = full /\ there < size
         => \/ now = size /\ size <= full + n
            \/ now = full + n /\ now < size
  <2>1. size \in Nat /\ there \in Nat /\ full \in Nat /\ n \in Nat /\ there <= size
    BY <1>1, <1>2, <1>3
  <2> DEFINE x == there + Min({size - there, n})
  <2>2. /\ x \in Nat /\ x <= size
        /\ \/ there = size /\ size <= full
           \/ there = full /\ there < size
           => \/ x = size /\ size <= full + n
              \/ x = full + n /\ x < size
    BY <2>1, Filling
  <2> QED BY <1>5, <2>2
<1>7. s.r + 1 \in Nat \ {0} /\ s.r + 1 <= Len(a.extents) + 1
  BY <1>1
<1>8. PlaceInv(vol, t)
  BY <1>1, <1>6, <1>7 DEF PlaceInv, size, now
<1>9. LengthInv(vol, t)
  BY <1>1 DEF LengthInv
<1>10. ASSUME ~s.lost
       PROVE  /\ size <= End(a)
              /\ s.mode = "data" \/ s.name = "wof" => Len(Pieces(vol, s.name)) = 1
              /\ ShortRuns(a) => \/ there = size /\ size <= full
                                 \/ there = full /\ there < size
  BY <1>1, <1>10 DEF BufferInv, size, there, full
<1>11. ASSUME ~s.lost, ShortRuns(a)
       PROVE  \/ now = size /\ size <= next
              \/ now = next /\ now < size
  <2>1. n = a.extents[s.r].len * Cluster
    BY <1>4, <1>11
  <2>2. next = full + n
    BY <1>3, <2>1
  <2> QED BY <1>6, <1>10, <1>11, <2>2
<1>12. BufferInv(vol, t)
  <2>1. SUFFICES ASSUME ~t.lost
                 PROVE  /\ t.mode = "data" \/ t.name = "wof" =>
                             Len(Pieces(vol, t.name)) = 1
                        /\ t.attr.size <= End(t.attr)
                        /\ t.r <= Len(t.attr.extents) + 1
                        /\ ShortRuns(t.attr) =>
                             \/ /\ t.readSize = t.attr.size
                                /\ t.attr.size <= Filled(t.attr, t.r)
                             \/ /\ t.readSize = Filled(t.attr, t.r)
                                /\ t.readSize < t.attr.size
    BY DEF BufferInv
  <2>2. ~s.lost
    BY <2>1
  <2> QED BY <1>7, <1>10, <1>11, <2>2 DEF size, now, next
<1> QED BY <1>8, <1>9, <1>12 DEF GoodStream

LEMMA AttrHoleGoes ==
  ASSUME StreamInv, NEW c \in Client, mft = "runs", AttrHole(c)
  PROVE  Goes(c)
<1> DEFINE s == k[c]
           n == Bytes(Run(s))
           r1 == s.r + 1
           now == s.readSize + Min({RoomLeft(s), n})
           t == [s EXCEPT !.r = r1, !.readSize = now]
<1>1. /\ s.pc = "attr" /\ s.attr.form = "runs" /\ s.r <= Len(Runs(s))
      /\ Keep(c, t) /\ reader' = reader
  BY DEF AttrHole
<1>2. /\ s \in Stream(vol) /\ IsAttribute(s.attr) /\ PlaceInv(vol, s)
      /\ s.r \in Nat /\ s.r \in DOMAIN s.attr.extents /\ s.readSize \in Nat
  BY <1>1, CopyFacts
<1>3. n \in Nat /\ r1 \in Nat
  BY <1>2, BytesFacts
<1>4. now \in Nat
  <2> DEFINE size == s.attr.size  there == s.readSize
  <2>1. size \in Nat /\ there \in Nat /\ there <= size
    BY <1>1, <1>2 DEF PlaceInv, IsAttribute
  <2>2. now = there + Min({size - there, n})
    BY DEF RoomLeft
  <2> HIDE DEF size, there, now, n
  <2> QED BY <1>3, <2>1, <2>2, Filling
<1>5. Bytes(Run(s)) = n
  OBVIOUS
<1> HIDE DEF n
<1>6. now = s.readSize + Min({RoomLeft(s), n}) /\ r1 = s.r + 1
  OBVIOUS
<1> HIDE DEF now, r1
<1>7. /\ t \in Stream(vol) /\ t.pc = "attr" /\ t.r = r1 /\ t.readSize = now
      /\ t.mode = s.mode /\ t.name = s.name /\ t.check = s.check /\ t.lost = s.lost
      /\ t.out = s.out /\ t.left = s.left /\ t.rec = s.rec /\ t.entries = s.entries
      /\ t.attr = s.attr
  BY <1>1, <1>2, <1>3, <1>4 DEF Stream
<1> HIDE DEF t
<1>8. GoodStream(vol, t)
  BY <1>1, <1>3, <1>5, <1>6, <1>7, FillMore
<1> QED BY <1>1, <1>8, KeepGoes

LEMMA AttrRunGoes ==
  ASSUME StreamInv, NEW c \in Client, mft = "runs", AttrRun(c)
  PROVE  Goes(c)
<1> DEFINE s == k[c]
           n == Bytes(Run(s)) % Word
           p == Run(s).offset * Cluster
           r1 == s.r + 1
           r2 == Len(Runs(s)) + 1
           now == s.readSize + Min({RoomLeft(s), n})
           at == s.readSize % Word
           Buf(x) == [u \in DOMAIN s.buf |-> IF u \in (at + 1)..(at + n)
                                            THEN x.data[u - at] ELSE s.buf[u]]
           over == [s EXCEPT !.pc = "overrun"]
           off == [s EXCEPT !.r = r2, !.lost = TRUE]
<1>1. /\ s.pc = "attr" /\ s.attr.form = "runs" /\ s.r <= Len(Runs(s))
  BY DEF AttrRun
<1>2. PICK y \in Seek(reader, p) : \E x \in Read(y.rd, n) :
        /\ reader' = x.rd
        /\ \/ x.ok /\ Touch(c, [s EXCEPT !.r = r1, !.trust = @ /\ y.ok,
                                         !.buf = Buf(x), !.readSize = now])
           \/ Touch(c, over)
           \/ Touch(c, off)
  BY DEF AttrRun
<1>3. PICK x \in Read(y.rd, n) :
        /\ reader' = x.rd
        /\ \/ x.ok /\ Touch(c, [s EXCEPT !.r = r1, !.trust = @ /\ y.ok,
                                         !.buf = Buf(x), !.readSize = now])
           \/ Touch(c, over)
           \/ Touch(c, off)
  BY <1>2
<1>4. /\ s \in Stream(vol) /\ IsAttribute(s.attr) /\ PlaceInv(vol, s)
      /\ LengthInv(vol, s) /\ GoodStream(vol, s)
      /\ s.r \in Nat /\ s.r \in DOMAIN s.attr.extents /\ s.readSize \in Nat
      /\ reader \in Reader /\ Coherent(reader) /\ Len(Runs(s)) \in Nat
  BY <1>1, CopyFacts
<1>5. /\ p \in Nat /\ Bytes(Run(s)) \in Nat
      /\ Bytes(Run(s)) = s.attr.extents[s.r].len * Cluster
  BY <1>4, BytesFacts
<1>6. Word \in Nat \ {0}
  BY StreamAssumption
<1>7. /\ n \in Nat /\ (ShortRuns(s.attr) => n = Bytes(Run(s)))
  <2> DEFINE b == Bytes(Run(s))
  <2>1. ShortRuns(s.attr) => b < Word
    BY <1>4, <1>5 DEF ShortRuns
  <2>2. b \in Nat /\ b \in Int
    BY <1>5
  <2> HIDE DEF b
  <2>3. b % Word \in Nat /\ (b \in 0..(Word - 1) => b % Word = b)
    BY <1>6, <2>2, ModRange
  <2>4. b < Word => b \in 0..(Word - 1)
    BY <1>6, <2>2
  <2> QED BY <2>1, <2>3, <2>4 DEF b
<1>15. at \in Nat
  BY <1>4, <1>6, ModRange
<1> HIDE DEF p, n, at
<1>8. y.ok \in BOOLEAN /\ y.rd \in Reader /\ Coherent(y.rd)
  BY <1>4, <1>5, SeekKeeps
<1>9. /\ x.ok \in BOOLEAN /\ x.rd \in Reader /\ Coherent(x.rd)
      /\ x.ok => x.data \in Seq(Int) /\ Len(x.data) = n
  BY <1>7, <1>8, ReadKeeps
<1>10. now \in Nat
  <2> DEFINE size == s.attr.size  there == s.readSize
  <2>1. size \in Nat /\ there \in Nat /\ there <= size
    BY <1>1, <1>4 DEF PlaceInv, IsAttribute
  <2>2. now = there + Min({size - there, n})
    BY DEF RoomLeft
  <2> HIDE DEF size, there, now
  <2> QED BY <1>7, <2>1, <2>2, Filling
<1>11. r1 \in Nat /\ r2 \in Nat \ {0}
  BY <1>4
<1>12. now = s.readSize + Min({RoomLeft(s), n}) /\ r1 = s.r + 1
  OBVIOUS
<1> HIDE DEF now, r1, r2
<1>13. CASE x.ok /\ Touch(c, [s EXCEPT !.r = r1, !.trust = @ /\ y.ok,
                                      !.buf = Buf(x), !.readSize = now])
  <2> DEFINE b1 == Buf(x)
             t == [s EXCEPT !.r = r1, !.trust = @ /\ y.ok, !.buf = b1, !.readSize = now]
  <2>1. Touch(c, t)
    BY <1>13
  <2>2. b1 \in Seq(Int)
    <3>1. /\ s.buf \in Seq(Int) /\ Len(s.buf) \in Nat /\ DOMAIN s.buf = 1..Len(s.buf)
          /\ \A u \in DOMAIN s.buf : s.buf[u] \in Int
      <4>1. s.buf \in Seq(Int)
        BY <1>4 DEF Stream
      <4> QED BY <4>1, LenProperties, ElementOfSeq
    <3>2. \A i \in 1..n : x.data[i] \in Int
      BY <1>7, <1>9, <1>13, ElementOfSeq
    <3>3. ASSUME NEW u \in DOMAIN s.buf PROVE b1[u] \in Int
      <4>1. CASE u \in (at + 1)..(at + n)
        <5>1. u - at \in 1..n
          BY <1>15, <1>7, <4>1
        <5> QED BY <3>2, <4>1, <5>1
      <4>2. CASE u \notin (at + 1)..(at + n)
        BY <3>1, <4>2
      <4> QED BY <4>1, <4>2
    <3>4. b1 \in [1..Len(s.buf) -> Int]
      BY <3>1, <3>3
    <3> HIDE DEF b1
    <3> QED BY <3>1, <3>4, SeqDef
  <2> HIDE DEF b1
  <2>3. /\ t \in Stream(vol) /\ t.pc = "attr" /\ t.r = r1 /\ t.readSize = now
        /\ t.mode = s.mode /\ t.name = s.name /\ t.check = s.check /\ t.lost = s.lost
        /\ t.out = s.out /\ t.left = s.left /\ t.rec = s.rec /\ t.entries = s.entries
        /\ t.attr = s.attr
    BY <1>1, <1>4, <1>8, <1>10, <1>11, <2>2 DEF Stream
  <2> HIDE DEF t
  <2>4. GoodStream(vol, t)
    BY <1>1, <1>7, <1>12, <2>3, FillMore
  <2> QED BY <1>3, <1>9, <2>1, <2>4 DEF Goes
<1>14. CASE Touch(c, off)
  <2> DEFINE t == off
  <2>2. /\ t \in Stream(vol) /\ t.pc = "attr" /\ t.r = r2 /\ t.readSize = s.readSize
        /\ t.mode = s.mode /\ t.name = s.name /\ t.check = s.check /\ t.lost = TRUE
        /\ t.out = s.out /\ t.left = s.left /\ t.rec = s.rec /\ t.entries = s.entries
        /\ t.attr = s.attr
    BY <1>1, <1>4, <1>11 DEF Stream
  <2> HIDE DEF off
  <2>3. PlaceInv(vol, t)
    BY <1>1, <1>4, <1>11, <2>2 DEF PlaceInv
  <2>4. LengthInv(vol, t) /\ BufferInv(vol, t)
    BY <1>4, <2>2 DEF LengthInv, BufferInv
  <2> QED BY <1>3, <1>9, <1>14, <2>2, <2>3, <2>4 DEF Goes, GoodStream
<1>16. CASE Touch(c, over)
  <2> DEFINE t == over
  <2>2. /\ t \in Stream(vol) /\ t.pc = "overrun" /\ t.r = s.r /\ t.rec = s.rec
        /\ t.mode = s.mode /\ t.name = s.name /\ t.check = s.check /\ t.lost = s.lost
        /\ t.out = s.out /\ t.left = s.left /\ t.entries = s.entries
    BY <1>4 DEF Stream, StreamState
  <2> HIDE DEF over
  <2>3. PlaceInv(vol, t)
    BY <1>4, <2>2 DEF PlaceInv
  <2>4. LengthInv(vol, t) /\ BufferInv(vol, t)
    BY <1>1, <1>4, <2>2, Silent
  <2> QED BY <1>3, <1>9, <1>16, <2>2, <2>3, <2>4 DEF Goes, GoodStream
<1> QED BY <1>3, <1>13, <1>14, <1>16
LEMMA ShrunkIsSeq ==
  ASSUME NEW buf \in Seq(Int), NEW size \in Nat
  PROVE  Shrunk(buf, size) \in Seq(Int)
<1> DEFINE n == size % Word
<1>1. n \in Nat
  BY StreamAssumption, ModRange
<1>2. \A u \in DOMAIN buf : buf[u] \in Int
  BY LenProperties, ElementOfSeq
<1>3. Shrunk(buf, size) = [u \in 1..n |-> IF u \in DOMAIN buf THEN buf[u] ELSE Garbage]
  BY DEF Shrunk
<1> HIDE DEF n
<1>4. Shrunk(buf, size) \in [1..n -> Int]
  BY <1>2, <1>3 DEF Garbage
<1> QED BY <1>1, <1>4, SeqDef

LEMMA AttrEndGoes ==
  ASSUME StreamInv, NEW c \in Client, mft = "runs", AttrEnd(c)
  PROVE  Goes(c)
<1> DEFINE s == k[c]
           a == s.attr
           full == Shrunk(s.buf, a.size)
           cut == s.lost \/ a.size >= Word
           t1 == [s EXCEPT !.pc = "crashed"]
           t2 == [s EXCEPT !.pc = "done", !.out = s.buf]
           t3 == [s EXCEPT !.pc = "done", !.out = full, !.lost = cut]
           t4 == [s EXCEPT !.pc = "wof", !.buf = full, !.lost = cut]
<1>1. /\ s.pc = "attr" /\ reader' = reader /\ s.r > Len(Runs(s))
      /\ \/ a.form # "resident" /\ s.readSize # a.size /\ Keep(c, t1)
         \/ a.form = "resident" /\ Keep(c, t2)
         \/ a.form # "resident" /\ s.mode = "data" /\ Keep(c, t3)
         \/ a.form # "resident" /\ s.mode # "data" /\ Keep(c, t4)
  BY DEF AttrEnd
<1>2. /\ s \in Stream(vol) /\ GoodStream(vol, s) /\ PlaceInv(vol, s)
      /\ LengthInv(vol, s) /\ BufferInv(vol, s) /\ s.lost \in BOOLEAN
      /\ IsAttribute(a) /\ a.form \in {"resident", "runs"} /\ s.r \in Nat
      /\ Len(Runs(s)) = Len(a.extents) /\ Len(a.extents) \in Nat
      /\ DOMAIN a.extents = 1..Len(a.extents)
  BY <1>1, CopyFacts
<1>3. s.buf \in Seq(Int) /\ s.out \in Seq(Int)
  BY <1>2 DEF Stream
<1>4. ASSUME a.form = "runs" PROVE full \in Seq(Int) /\ cut \in BOOLEAN /\ a.size \in Nat
  <2>1. a.size \in Nat
    BY <1>2, <1>4 DEF IsAttribute
  <2> QED BY <1>3, <2>1, ShrunkIsSeq
<1>5. s.lost => cut
  OBVIOUS
<1> HIDE DEF full, cut
<1>6. CASE a.form # "resident" /\ s.readSize # a.size /\ Keep(c, t1)
  <2>1. /\ t1 \in Stream(vol) /\ t1.pc = "crashed" /\ t1.r = s.r /\ t1.rec = s.rec
        /\ t1.mode = s.mode /\ t1.name = s.name /\ t1.check = s.check
        /\ t1.lost = s.lost /\ t1.out = s.out /\ t1.left = s.left
        /\ t1.entries = s.entries /\ t1.attr = a
    BY <1>2 DEF Stream, StreamState
  <2> HIDE DEF t1
  <2>2. PlaceInv(vol, t1) /\ LengthInv(vol, t1)
    BY <1>2, <2>1 DEF PlaceInv, LengthInv
  <2>3. ASSUME ~s.lost
        PROVE  /\ s.mode = "data" \/ s.name = "wof" => Len(Pieces(vol, s.name)) = 1
               /\ ~ShortRuns(a)
    <3>1. /\ a.form = "runs" /\ a.size \in Nat
      BY <1>2, <1>4, <1>6
    <3>2. /\ s.mode = "data" \/ s.name = "wof" => Len(Pieces(vol, s.name)) = 1
          /\ a.size <= End(a) /\ s.r <= Len(a.extents) + 1
          /\ ShortRuns(a) =>
               \/ s.readSize = a.size /\ a.size <= Filled(a, s.r)
               \/ s.readSize = Filled(a, s.r) /\ s.readSize < a.size
      BY <1>1, <1>2, <2>3, <3>1 DEF BufferInv
    <3>3. s.r \notin DOMAIN a.extents
      BY <1>1, <1>2
    <3>4. Filled(a, s.r) = End(a)
      BY <3>3 DEF Filled
    <3>5. SUFFICES ASSUME ShortRuns(a) PROVE FALSE
      BY <3>2
    <3>6. s.readSize = End(a) /\ s.readSize < a.size /\ s.readSize \in Nat
      BY <1>2, <1>6, <3>2, <3>4, <3>5 DEF Stream
    <3> QED BY <3>1, <3>2, <3>6
  <2>4. BufferInv(vol, t1)
    <3>1. a.form = "runs"
      BY <1>2, <1>6
    <3> QED BY <2>1, <2>3, <3>1 DEF BufferInv
  <2> QED BY <1>1, <1>6, <2>1, <2>2, <2>4, KeepGoes DEF GoodStream
<1>7. CASE a.form = "resident" /\ Keep(c, t2)
  <2>0. s.mode = "data"
    BY <1>1, <1>2, <1>7 DEF PlaceInv
  <2>1. /\ t2 \in Stream(vol) /\ t2.pc = "done" /\ t2.r = s.r /\ t2.rec = s.rec
        /\ t2.mode = s.mode /\ t2.name = s.name /\ t2.check = s.check
        /\ t2.lost = s.lost /\ t2.entries = s.entries
    BY <1>2, <1>3 DEF Stream, StreamState
  <2> HIDE DEF t2
  <2>2. PlaceInv(vol, t2) /\ LengthInv(vol, t2)
    BY <1>2, <2>0, <2>1 DEF PlaceInv, LengthInv
  <2>3. BufferInv(vol, t2)
    BY <1>1, <1>2, <2>1 DEF BufferInv
  <2> QED BY <1>1, <1>7, <2>1, <2>2, <2>3, KeepGoes DEF GoodStream
<1>8. CASE a.form # "resident" /\ s.mode = "data" /\ Keep(c, t3)
  <2>0. full \in Seq(Int) /\ cut \in BOOLEAN
    BY <1>2, <1>4, <1>8
  <2>1. /\ t3 \in Stream(vol) /\ t3.pc = "done" /\ t3.r = s.r /\ t3.rec = s.rec
        /\ t3.mode = s.mode /\ t3.name = s.name /\ t3.check = s.check
        /\ t3.lost = cut /\ t3.entries = s.entries
    BY <1>2, <2>0 DEF Stream, StreamState
  <2> HIDE DEF t3
  <2>2. PlaceInv(vol, t3) /\ LengthInv(vol, t3)
    BY <1>2, <1>8, <2>1 DEF PlaceInv, LengthInv
  <2>3. BufferInv(vol, t3)
    BY <1>1, <1>2, <1>5, <2>1 DEF BufferInv
  <2> QED BY <1>1, <1>8, <2>1, <2>2, <2>3, KeepGoes DEF GoodStream
<1>9. CASE a.form # "resident" /\ s.mode # "data" /\ Keep(c, t4)
  <2>0. full \in Seq(Int) /\ cut \in BOOLEAN
    BY <1>2, <1>4, <1>9
  <2>1. /\ t4 \in Stream(vol) /\ t4.pc = "wof" /\ t4.r = s.r /\ t4.rec = s.rec
        /\ t4.mode = s.mode /\ t4.name = s.name /\ t4.check = s.check
        /\ t4.lost = cut /\ t4.entries = s.entries /\ t4.attr = a
        /\ t4.out = s.out /\ t4.left = s.left
    BY <1>2, <2>0 DEF Stream, StreamState
  <2> HIDE DEF t4
  <2>2. PlaceInv(vol, t4) /\ LengthInv(vol, t4)
    BY <1>1, <1>2, <1>9, <2>1 DEF PlaceInv, LengthInv
  <2>3. BufferInv(vol, t4)
    BY <1>1, <1>2, <1>5, <2>1 DEF BufferInv
  <2> QED BY <1>1, <1>9, <2>1, <2>2, <2>3, KeepGoes DEF GoodStream
<1> QED BY <1>1, <1>6, <1>7, <1>8, <1>9
(* What comes out of a file compressed as a whole. *)
LEMMA XpressIsSeq ==
  ASSUME NEW v \in Volumes, NEW a, IsAttribute(a), a.form = "runs", IsWof(v, a)
  PROVE  /\ Xpress(v, a, a.window) \in Seq(Int)
         /\ Find(v[Base], Unnamed).size \in Nat /\ Find(v[Base], Unnamed).alloc \in Nat
<1> DEFINE whole == Find(v[Base], Unnamed)
           window == a.window
           stored == {j \in DOMAIN a.chunks : a.chunks[j] >= window}
           out == Unpacked(a.extents[1].at + 1)
           good == IF TableLength(a, window) # Len(a.chunks) - 1 THEN 0
                   ELSE IF stored = {} THEN whole.size
                   ELSE window * (Min(stored) - 1)
           size == IF good = whole.size THEN good ELSE whole.alloc
           most == Unit * Cluster
<1>1. /\ window \in Nat /\ a.chunks \in Seq(Nat) /\ a.extents # <<>>
      /\ HasStream(v[Base], Unnamed) /\ whole.form = "runs" /\ whole.size <= most
      /\ window * (Len(a.chunks) - 1) <= whole.size
  BY DEF IsWof
<1>2. whole.size \in Nat /\ whole.alloc \in Nat
  <2>1. whole \in Attributes(v)
    BY <1>1, ListFacts, AttributeFacts
  <2>2. IsAttribute(whole)
    BY <2>1, IsAttributeOf
  <2> QED BY <1>1, <2>2 DEF IsAttribute
<1>3. most \in Nat
  BY FileAssumption
<1>4. \A i \in 1..most : out[i] \in Int
  <2>1. /\ a.extents \in Seq(Extent) /\ Len(a.extents) \in Nat
        /\ DOMAIN a.extents = 1..Len(a.extents)
    BY RunFacts
  <2>2. 1 \in DOMAIN a.extents
    BY <1>1, <2>1, EmptySeq
  <2>3. a.extents[1] \in Extent
    BY <2>1, <2>2, ElementOfSeq
  <2>4. a.extents[1].at + 1 \in Nat
    BY <2>3 DEF Extent
  <2>5. out \in Seq(Int) /\ Len(out) = most
    BY <2>4, UnpackedIsSeq
  <2> HIDE DEF out, most
  <2> QED BY <2>5, ElementOfSeq
<1>5. good \in Nat /\ good <= most
  <2>1. CASE TableLength(a, window) # Len(a.chunks) - 1
    BY <1>3, <2>1
  <2>2. CASE TableLength(a, window) = Len(a.chunks) - 1 /\ stored = {}
    BY <1>1, <1>2, <1>3, <2>2
  <2>3. CASE TableLength(a, window) = Len(a.chunks) - 1 /\ stored # {}
    <3> DEFINE m == Min(stored)
    <3>1. Len(a.chunks) \in Nat /\ DOMAIN a.chunks = 1..Len(a.chunks)
      BY <1>1, LenProperties
    <3>2. stored \in SUBSET Nat /\ stored \subseteq DOMAIN a.chunks
      BY <3>1
    <3>3. m \in stored
      <4> HIDE DEF stored
      <4> QED BY <2>3, <3>2, MinIsLeast
    <3> HIDE DEF m, stored
    <3>4. m \in 1..Len(a.chunks)
      BY <3>1, <3>2, <3>3
    <3> DEFINE x == m - 1  y == Len(a.chunks) - 1
    <3>5. x \in Nat /\ y \in Nat /\ x <= y
      BY <3>1, <3>4
    <3>6. window * y <= whole.size
      BY <1>1
    <3>7. good = window * x
      BY <2>3 DEF m
    <3> HIDE DEF x, y, good, whole, window, most
    <3>8. window * x \in Nat /\ window * x <= window * y /\ window * y \in Nat
      BY <1>1, <3>5, TimesGrows
    <3> DEFINE p == window * x  q == window * y
    <3>9. good = p /\ p <= q /\ q <= whole.size /\ p \in Nat /\ q \in Nat
      BY <3>6, <3>7, <3>8
    <3> HIDE DEF p, q
    <3> QED BY <1>1, <1>2, <1>3, <3>9
  <2> QED BY <2>1, <2>2, <2>3
<1>6. Xpress(v, a, window) = [i \in 1..size |-> IF i <= good THEN out[i] ELSE Zero]
  BY DEF Xpress
<1> HIDE DEF good, out, whole, most
<1>7. size \in Nat
  BY <1>2, <1>5
<1> HIDE DEF size
<1>8. \A i \in 1..size : (IF i <= good THEN out[i] ELSE Zero) \in Int
  <2>1. \A i \in 1..size : i <= good => i \in 1..most
    BY <1>3, <1>5, <1>7
  <2> QED BY <1>4, <2>1 DEF Zero
<1>9. Xpress(v, a, window) \in [1..size -> Int]
  BY <1>6, <1>8
<1>10. Xpress(v, a, window) \in Seq(Int)
  BY <1>7, <1>9, SeqDef
<1> QED BY <1>2, <1>10 DEF whole

LEMMA WofBlockGoes ==
  ASSUME StreamInv, NEW c \in Client, mft = "runs", WofBlock(c)
  PROVE  Goes(c)
<1> DEFINE s == k[c]
           a == s.attr
           u == [s EXCEPT !.pc = "next", !.lost = TRUE]
           whole == Find(vol[Base], Unnamed)
           there == s.buf = SubSeq(Allocated(a), 1, a.size)
           data == IF vol[Base].wof = "lzx" THEN Lzx(vol)
                   ELSE IF there THEN Xpress(vol, a, a.window)
                   ELSE [i \in 1..whole.size |-> Garbage]
<1>1. s.pc = "wof" /\ Keep(c, Yielded(u, data)) /\ reader' = reader
  BY DEF WofBlock, Yield
<1>2. /\ vol \in Volumes /\ s \in Stream(vol) /\ GoodStream(vol, s)
      /\ PlaceInv(vol, s)
  BY Now
<1>3. /\ a # NoAttr /\ a.name = "wof" /\ a.form = "runs" /\ a \in Attributes(vol)
  BY <1>1, <1>2 DEF PlaceInv, Stream
<1>4. IsAttribute(a) /\ IsWof(vol, a)
  <2> HIDE DEF a
  <2> QED BY <1>2, <1>3, IsAttributeOf
<1>5. /\ Xpress(vol, a, a.window) \in Seq(Int)
      /\ whole.size \in Nat /\ whole.alloc \in Nat
  <2> HIDE DEF a
  <2> QED BY <1>2, <1>3, <1>4, XpressIsSeq
<1>6. Lzx(vol) \in Seq(Int)
  BY <1>5, ZerosIsSeq DEF Lzx
<1>7. [i \in 1..whole.size |-> Garbage] \in Seq(Int)
  <2> DEFINE n == whole.size
             f == [i \in 1..n |-> Garbage]
  <2>1. n \in Nat
    BY <1>5
  <2> HIDE DEF whole, n
  <2>2. f \in [1..n -> Int]
    BY DEF Garbage
  <2> HIDE DEF f
  <2>3. f \in Seq(Int)
    BY <2>1, <2>2, SeqDef
  <2> QED BY <2>3 DEF f, n
<1>8. data \in Seq(Int)
  <2> HIDE DEF whole, there
  <2> QED BY <1>5, <1>6, <1>7
<1> HIDE DEF data
<1>9. /\ u \in Stream(vol) /\ u.pc = "next" /\ u.r = s.r /\ u.rec = s.rec
      /\ u.entries = s.entries /\ u.mode = s.mode /\ u.name = s.name
      /\ u.check = s.check /\ u.lost = TRUE /\ u.out = s.out /\ u.left = s.left
  BY <1>2 DEF Stream, StreamState
<1> HIDE DEF u
<1>10. PlaceInv(vol, u)
  BY <1>2, <1>9 DEF PlaceInv
<1>11. LengthInv(vol, u) /\ BufferInv(vol, u)
  <2> HIDE DEF s
  <2> QED BY <1>1, <1>2, <1>9, Silent
<1>12. GoodStream(vol, u)
  BY <1>9, <1>10, <1>11 DEF GoodStream
<1>13. GoodStream(vol, Yielded(u, data))
  BY <1>8, <1>9, <1>12, YieldedGood
<1> HIDE DEF s
<1> QED BY <1>1, <1>2, <1>13, KeepGoes
(* A stream begins.                                                        *)
LEMMA StartFacts ==
  ASSUME vol \in Volumes, NEW q \in Request(vol), NEW size \in Nat, NEW pc \in StreamState
  PROVE  LET s == Start(q, size, pc)
         IN  /\ s \in Stream(vol) /\ s.pc = pc /\ s.mode = q.mode /\ s.name = q.name
             /\ s.r = 1 /\ s.rec = Base /\ s.entries = <<>> /\ s.attr = NoAttr
             /\ s.readSize = 0 /\ s.left = size /\ s.check = (size # 0)
             /\ s.out = <<>> /\ s.lost \in BOOLEAN
             /\ ~s.lost /\ (s.mode = "data" \/ s.name = "wof") =>
                  Len(Pieces(vol, s.name)) = 1
<1> DEFINE trust == Served(vol, q)  lost == ~Whole(vol, q)
           check == (size # 0)
           s == Start(q, size, pc)
<1>1. /\ q.mode \in {"process", "virtual", "data"}
      /\ q.name \in STRING /\ q.skip \in BOOLEAN
  BY Typed
<1>2. Base \in DOMAIN vol
  BY ListFacts
<1>3. trust \in BOOLEAN /\ lost \in BOOLEAN /\ check \in BOOLEAN
  BY Zenon DEF Served
<1>4. ~lost /\ (q.mode = "data" \/ q.name = "wof") => Len(Pieces(vol, q.name)) = 1
  BY DEF Whole
<1>5. s = [Fresh EXCEPT !.pc = pc, !.mode = q.mode, !.name = q.name, !.skip = q.skip,
                !.left = size, !.check = check, !.trust = trust, !.lost = lost]
  BY DEF Start
<1>6. /\ <<>> \in Seq([name : STRING, rec : DOMAIN vol]) /\ <<>> \in Seq(Int)
  OBVIOUS
<1> HIDE DEF trust, lost, check, s
<1>7. s \in Stream(vol)
  <2> DEFINE w == [pc |-> pc, mode |-> q.mode, name |-> q.name, skip |-> q.skip,
                   rec |-> Base, entries |-> <<>>, attr |-> NoAttr,
                   r |-> 1, i |-> 0, rbs |-> 0, written |-> 0, last |-> 0,
                   left |-> size, check |-> check, buf |-> <<>>, readSize |-> 0,
                   out |-> <<>>, trust |-> trust, lost |-> lost]
  <2>1. s = w
    BY <1>5 DEF Fresh
  <2>2. w \in Stream(vol)
    BY <1>1, <1>2, <1>3, <1>6 DEF Stream
  <2> HIDE DEF w
  <2> QED BY <2>1, <2>2
<1>8. /\ s.pc = pc /\ s.mode = q.mode /\ s.name = q.name
      /\ s.r = 1 /\ s.rec = Base /\ s.entries = <<>> /\ s.attr = NoAttr
      /\ s.readSize = 0 /\ s.left = size /\ s.check = check
      /\ s.out = <<>> /\ s.lost = lost
  BY <1>5 DEF Fresh
<1> QED BY <1>3, <1>4, <1>7, <1>8 DEF s, check

LEMMA StartGood ==
  ASSUME vol \in Volumes, NEW q \in Request(vol), NEW size \in Nat,
         NEW pc \in {"enter", "threw", "null", "overflow"},
         size # 0 /\ q.mode = "process" =>
           Pieces(vol, q.name) # <<>> /\ SizeOf(Pieces(vol, q.name)[1], FALSE) = size
  PROVE  /\ GoodStream(vol, Start(q, size, pc))
         /\ GoodStream(vol, [Start(q, size, pc) EXCEPT !.lost = TRUE])
<1> DEFINE s == Start(q, size, pc)
           t == [s EXCEPT !.lost = TRUE]
<1>0. pc \in StreamState
  BY DEF StreamState
<1>1. /\ s \in Stream(vol) /\ s.pc = pc /\ s.mode = q.mode /\ s.name = q.name
      /\ s.r = 1 /\ s.rec = Base /\ s.entries = <<>> /\ s.attr = NoAttr
      /\ s.readSize = 0 /\ s.left = size /\ s.check = (size # 0)
      /\ s.out = <<>> /\ s.lost \in BOOLEAN
      /\ ~s.lost /\ (s.mode = "data" \/ s.name = "wof") => Len(Pieces(vol, s.name)) = 1
  BY <1>0, StartFacts
<1> HIDE DEF s
<1>2. /\ t \in Stream(vol) /\ t.pc = pc /\ t.mode = q.mode /\ t.name = q.name
      /\ t.r = 1 /\ t.rec = Base /\ t.entries = <<>> /\ t.attr = NoAttr
      /\ t.readSize = 0 /\ t.left = size /\ t.check = (size # 0)
      /\ t.out = <<>> /\ t.lost = TRUE
  BY <1>1 DEF Stream
<1> HIDE DEF t
<1>3. PlaceInv(vol, s) /\ PlaceInv(vol, t)
  BY <1>1, <1>2 DEF PlaceInv
<1>4. LengthInv(vol, s) /\ LengthInv(vol, t)
  <2>1. Len(s.out) + s.left <= size /\ Len(t.out) + t.left <= size
    BY <1>1, <1>2
  <2> QED BY <1>1, <1>2, <2>1 DEF LengthInv
<1>5. BufferInv(vol, s) /\ BufferInv(vol, t)
  BY <1>1, <1>2 DEF BufferInv
<1> QED BY <1>1, <1>2, <1>3, <1>4, <1>5 DEF GoodStream, s, t

LEMMA SizeFacts ==
  ASSUME NEW v \in Volumes, NEW n \in DOMAIN v, NEW name, HasStream(v[n], name),
         NEW virtual \in BOOLEAN
  PROVE  SizeOf(Find(v[n], name), virtual) \in Nat
<1> DEFINE a == Find(v[n], name)
<1>1. IsAttribute(a)
  <2>1. a \in Attributes(v)
    BY AttributeFacts
  <2> QED BY <2>1, IsAttributeOf
<1> HIDE DEF a
<1>2. CASE a.form = "resident"
  <2>1. Len(a.value) \in Nat
    BY <1>1, <1>2, LenProperties DEF IsAttribute
  <2> QED BY <1>2, <2>1 DEF SizeOf, a
<1>3. CASE a.form = "runs"
  BY <1>1, <1>3 DEF IsAttribute, SizeOf, a
<1> QED BY <1>1, <1>2, <1>3 DEF IsAttribute

LEMMA BeginGoes ==
  ASSUME StreamInv, NEW c \in Client, NEW q \in Request(vol), mft = "runs", Begin(c, q)
  PROVE  Goes(c)
<1> DEFINE base == vol[Base]
           named == Seen(base, q.name)
           away == named # <<>> /\ named[1].rec # Base
           virtual == q.mode = "virtual"
           Threw(s) == [s EXCEPT !.pc = "threw", !.lost = TRUE]
           none == Threw(Start(q, 0, "threw"))
<1>1. vol \in Volumes /\ reader \in Reader /\ Coherent(reader)
  BY Now
<1>2. Base \in DOMAIN vol /\ DOMAIN vol \in SUBSET Nat
  BY <1>1, ListFacts
<1>3. GoodStream(vol, none)
  <2> DEFINE s == Start(q, 0, "threw")
  <2>1. GoodStream(vol, [s EXCEPT !.lost = TRUE])
    BY <1>1, StartGood
  <2>2. "threw" \in StreamState
    BY DEF StreamState
  <2>3. s \in Stream(vol) /\ s.pc = "threw"
    BY <1>1, <2>2, StartFacts
  <2> HIDE DEF s
  <2>4. [s EXCEPT !.pc = "threw", !.lost = TRUE] = [s EXCEPT !.lost = TRUE]
    BY <2>3 DEF Stream
  <2> QED BY <2>1, <2>4 DEF s
<1>4. /\ \/ /\ HasStream(base, q.name) /\ reader' = reader
            /\ Keep(c, Start(q, SizeOf(Find(base, q.name), virtual), "enter"))
         \/ Keep(c, none) /\ reader' = reader
         \/ /\ away
            /\ \E t \in RecordFromNumber(reader, named[1].rec) :
                 /\ reader' = t.rd
                 /\ Touch(c, LET ext == vol[named[1].rec]
                             IN  IF t.ok /\ HasStream(ext, q.name)
                                 THEN Start(q, SizeOf(Find(ext, q.name), virtual),
                                            "enter")
                                 ELSE none)
  BY DEF Begin
<1> HIDE DEF none
<1>5. ASSUME NEW n \in DOMAIN vol, HasStream(vol[n], q.name),
             Pieces(vol, q.name) # <<>>,
             Pieces(vol, q.name)[1] = Find(vol[n], q.name)
      PROVE  GoodStream(vol, Start(q, SizeOf(Find(vol[n], q.name), virtual), "enter"))
  <2> DEFINE size == SizeOf(Find(vol[n], q.name), virtual)
  <2>1. size \in Nat
    BY <1>1, <1>5, SizeFacts
  <2>2. q.mode = "process" => SizeOf(Pieces(vol, q.name)[1], FALSE) = size
    BY <1>5
  <2> HIDE DEF size
  <2>3. GoodStream(vol, Start(q, size, "enter"))
    BY <1>1, <1>5, <2>1, <2>2, StartGood
  <2> QED BY <2>3 DEF size
<1>6. CASE /\ HasStream(base, q.name) /\ reader' = reader
           /\ Keep(c, Start(q, SizeOf(Find(base, q.name), virtual), "enter"))
  <2>1. Pieces(vol, q.name) # <<>> /\ Pieces(vol, q.name)[1] = Find(base, q.name)
    BY <1>1, <1>6, PiecesFacts
  <2>2. GoodStream(vol, Start(q, SizeOf(Find(base, q.name), virtual), "enter"))
    BY <1>2, <1>5, <1>6, <2>1
  <2> HIDE DEF base, virtual
  <2> QED BY <1>6, <2>2, KeepGoes
<1>7. CASE Keep(c, none) /\ reader' = reader
  BY <1>3, <1>7, KeepGoes
<1>8. CASE /\ away
           /\ \E t \in RecordFromNumber(reader, named[1].rec) :
                /\ reader' = t.rd
                /\ Touch(c, LET ext == vol[named[1].rec]
                            IN  IF t.ok /\ HasStream(ext, q.name)
                                THEN Start(q, SizeOf(Find(ext, q.name), virtual),
                                           "enter")
                                ELSE none)
  <2> DEFINE n == named[1].rec
             good == Start(q, SizeOf(Find(vol[n], q.name), virtual), "enter")
  <2>1. PICK t \in RecordFromNumber(reader, n) :
          /\ reader' = t.rd
          /\ Touch(c, IF t.ok /\ HasStream(vol[n], q.name) THEN good ELSE none)
    BY <1>8
  <2>2. /\ n \in DOMAIN vol
        /\ Pieces(vol, q.name) # <<>> /\ Pieces(vol, q.name)[1] = Find(vol[n], q.name)
    BY <1>1, <1>8, SeenFacts
  <2> HIDE DEF n, named
  <2>3. n \in Nat
    BY <1>2, <2>2
  <2>4. t.rd \in Reader /\ Coherent(t.rd)
    BY <1>1, <2>3, RecordKeeps
  <2>5. HasStream(vol[n], q.name) => GoodStream(vol, good)
    BY <1>5, <2>2
  <2> HIDE DEF good
  <2>6. \E s : GoodStream(vol, s) /\ Touch(c, s)
    BY <1>3, <2>1, <2>5
  <2> QED BY <2>1, <2>4, <2>6 DEF Goes
<1> HIDE DEF base, named, away, virtual
<1> QED BY <1>4, <1>6, <1>7, <1>8
LEMMA CopyGood ==
  ASSUME vol \in Volumes, NEW q \in Request(vol), q.mode = "data",
         NEW n \in DOMAIN vol, HasStream(vol[n], q.name),
         vol[Base].list = <<>> => n = Base
  PROVE  LET a == Find(vol[n], q.name)
         IN  GoodStream(vol, [Start(q, 0, "attr") EXCEPT !.attr = a,
               !.buf = IF a.form = "resident" THEN a.value ELSE Zeros(a.alloc % Word)])
<1> DEFINE a == Find(vol[n], q.name)
           buf == IF a.form = "resident" THEN a.value ELSE Zeros(a.alloc % Word)
           s == Start(q, 0, "attr")
           t == [s EXCEPT !.attr = a, !.buf = buf]
<1>1. /\ a \in ToSet(vol[n].data) /\ a \in Attributes(vol) /\ a.name = q.name
      /\ IsAttribute(a)
  BY AttributeFacts, IsAttributeOf
<1>2. a.form \in {"resident", "runs"}
  BY <1>1 DEF IsAttribute
<1>3. a # NoAttr
  <2>1. NoAttr.form = "none"
    BY DEF NoAttr
  <2> HIDE DEF a
  <2> QED BY <1>2, <2>1
<1>4. buf \in Seq(Int)
  <2> HIDE DEF a
  <2>1. CASE a.form = "resident"
    BY <1>1, <2>1 DEF IsAttribute
  <2>2. CASE a.form = "runs"
    <3>1. a.alloc \in Nat
      BY <1>1, <2>2 DEF IsAttribute
    <3>2. a.alloc % Word \in Nat
      BY <3>1, StreamAssumption, ModRange
    <3> QED BY <2>2, <3>2, ZerosIsSeq
  <2> QED BY <1>2, <2>1, <2>2
<1>5. "attr" \in StreamState
  BY DEF StreamState
<1>6. /\ s \in Stream(vol) /\ s.pc = "attr" /\ s.mode = "data" /\ s.name = q.name
      /\ s.r = 1 /\ s.rec = Base /\ s.entries = <<>> /\ s.readSize = 0
      /\ s.lost \in BOOLEAN
      /\ ~s.lost => Len(Pieces(vol, q.name)) = 1
  BY <1>5, StartFacts
<1> HIDE DEF s, buf
<1>7. /\ t \in Stream(vol) /\ t.pc = "attr" /\ t.mode = "data" /\ t.name = q.name
      /\ t.r = 1 /\ t.rec = Base /\ t.entries = <<>> /\ t.readSize = 0
      /\ t.lost = s.lost /\ t.attr = a
  BY <1>1, <1>4, <1>6 DEF Stream
<1> HIDE DEF t, a
<1>8. a.form = "runs" => a.size \in Nat /\ Filled(a, 1) = 0 /\ Len(a.extents) \in Nat
  BY <1>1, FilledFacts, RunFacts
<1>9. PlaceInv(vol, t)
  BY <1>3, <1>7, <1>8 DEF PlaceInv
<1>10. LengthInv(vol, t)
  BY <1>7 DEF LengthInv
<1>11. ASSUME ~s.lost, a.form = "runs" PROVE a.size <= End(a)
  <2>1. Len(Pieces(vol, q.name)) = 1
    BY <1>6, <1>11
  <2>2. Pieces(vol, q.name) = <<a>>
    BY <2>1, PiecesFacts DEF a
  <2>3. Pieces(vol, a.name) = <<a>>
    BY <1>1, <2>2
  <2> QED BY <1>1, <1>11, <2>3, Typed DEF IsVolume
<1>12. BufferInv(vol, t)
  BY <1>6, <1>7, <1>8, <1>11 DEF BufferInv
<1> QED BY <1>7, <1>9, <1>10, <1>12 DEF GoodStream, t, s, buf, a

LEMMA BeginDataGoes ==
  ASSUME StreamInv, NEW c \in Client, NEW q \in Request(vol), mft = "runs",
         BeginData(c, q)
  PROVE  Goes(c)
<1> DEFINE base == vol[Base]
           Ended(pc) == [Start(q, 0, pc) EXCEPT !.lost = TRUE]
           Copying(rec) ==
             LET a == Find(rec, q.name)
             IN  IF a.form = "runs" /\ a.extents = <<>> THEN Ended("threw")
                 ELSE [Start(q, 0, "attr") EXCEPT !.attr = a,
                         !.buf = IF a.form = "resident" THEN a.value
                                 ELSE Zeros(a.alloc % Word)]
           n == base.list[1].rec
           next(t) == IF ~t.ok THEN Ended("threw")
                      ELSE IF n = Base THEN Ended("overflow")
                      ELSE LET ext == vol[n]
                           IN IF HasStream(ext, q.name)
                              THEN Copying(ext) ELSE Ended("null")
<1>1. /\ vol \in Volumes /\ reader \in Reader /\ Coherent(reader)
      /\ Base \in DOMAIN vol /\ q.mode = "data"
  BY Now, ListFacts DEF BeginData
<1>2. \/ HasStream(base, q.name) /\ Keep(c, Copying(base)) /\ reader' = reader
      \/ Keep(c, Ended("null")) /\ reader' = reader
      \/ /\ base.seen # 0
         /\ \E t \in RecordFromNumber(reader, n) : reader' = t.rd /\ Touch(c, next(t))
  BY DEF BeginData
<1>3. ASSUME NEW pc \in {"threw", "overflow", "null"} PROVE GoodStream(vol, Ended(pc))
  BY <1>1, StartGood
<1>4. ASSUME NEW m \in DOMAIN vol, HasStream(vol[m], q.name), base.list = <<>> => m = Base
      PROVE  GoodStream(vol, Copying(vol[m]))
  BY <1>1, <1>3, <1>4, CopyGood
<1> HIDE DEF Copying, Ended
<1>5. CASE HasStream(base, q.name) /\ Keep(c, Copying(base)) /\ reader' = reader
  <2>1. GoodStream(vol, Copying(base))
    BY <1>1, <1>4, <1>5
  <2> HIDE DEF base
  <2> QED BY <1>5, <2>1, KeepGoes
<1>6. CASE Keep(c, Ended("null")) /\ reader' = reader
  BY <1>3, <1>6, KeepGoes
<1>7. CASE /\ base.seen # 0
           /\ \E t \in RecordFromNumber(reader, n) : reader' = t.rd /\ Touch(c, next(t))
  <2>1. PICK t \in RecordFromNumber(reader, n) : reader' = t.rd /\ Touch(c, next(t))
    BY <1>7
  <2>2. n \in DOMAIN vol /\ n \in Nat /\ base.list # <<>>
    BY <1>1, <1>7, ListFacts
  <2> HIDE DEF n
  <2>3. t.rd \in Reader /\ Coherent(t.rd)
    BY <1>1, <2>2, RecordKeeps
  <2>4. GoodStream(vol, next(t))
    BY <1>3, <1>4, <1>7, <2>2
  <2> HIDE DEF next
  <2> QED BY <2>1, <2>3, <2>4 DEF Goes
<1> HIDE DEF base, n, next
<1> QED BY <1>2, <1>5, <1>6, <1>7

-----------------------------------------------------------------------------
(* The whole system.                                                       *)
LEMMA StreamInit == Init => StreamInv
<1> SUFFICES ASSUME Init PROVE StreamInv
  OBVIOUS
<1>1. /\ vol \in Volumes /\ reader = Closed /\ mft = "absent" /\ active = None
      /\ k = [c \in Client |-> Fresh]
  BY DEF Init
<1>2. Base \in DOMAIN vol
  BY <1>1, ListFacts
<1>3. Closed \in Reader /\ Closed \in Constructed
  BY DEF Closed, Reader, Constructed
<1>4. Fresh \in Stream(vol)
  <2>1. <<>> \in Seq([name : STRING, rec : DOMAIN vol]) /\ <<>> \in Seq(Int)
    OBVIOUS
  <2> QED BY <1>2, <2>1 DEF Fresh, Stream, StreamState
<1>5. /\ Fresh.pc = "idle" /\ Fresh.r = 1 /\ Fresh.rec = Base /\ Fresh.entries = <<>>
      /\ Fresh.check = FALSE
  BY DEF Fresh
<1>6. PlaceInv(vol, Fresh)
  BY <1>5 DEF PlaceInv
<1>7. LengthInv(vol, Fresh) /\ BufferInv(vol, Fresh)
  BY <1>5 DEF LengthInv, BufferInv
<1>8. TypeOK
  BY <1>1, <1>3, <1>4 DEF TypeOK
<1>9. MftInv
  BY <1>1, <1>3, <1>5 DEF MftInv
<1> QED BY <1>1, <1>4, <1>6, <1>8, <1>9, <1>7 DEF StreamInv, GoodStream

LEMMA StepGoes ==
  ASSUME StreamInv, NEW c \in Client, Step(c)
  PROVE  /\ mft = "runs" /\ Goes(c) /\ UNCHANGED <<vol, mft>>
         /\ active' \in Client \cup {None}
<1>1. active = c /\ active \in Client \cup {None}
  BY DEF Step
<1>2. mft = "runs"
  <2>1. active # None
    BY <1>1, StreamAssumption
  <2> QED BY <2>1 DEF StreamInv, MftInv
<1>3. CASE Enter(c)
  BY <1>1, <1>2, <1>3, EnterGoes DEF Enter
<1>4. CASE NextPiece(c)
  BY <1>1, <1>2, <1>4, NextPieceGoes DEF NextPiece
<1>5. CASE StreamEnd(c)
  BY <1>1, <1>2, <1>5, StreamEndGoes DEF StreamEnd
<1>6. CASE ResidentBlock(c)
  BY <1>1, <1>2, <1>6, ResidentBlockGoes DEF ResidentBlock, Yield
<1>7. CASE RunsEnd(c)
  BY <1>1, <1>2, <1>7, RunsEndGoes DEF RunsEnd
<1>8. CASE HoleRun(c)
  BY <1>1, <1>2, <1>8, HoleRunGoes DEF HoleRun
<1>9. CASE HoleBlock(c)
  BY <1>1, <1>2, <1>9, HoleBlockGoes DEF HoleBlock, Yield
<1>10. CASE SeekRun(c)
  BY <1>1, <1>2, <1>10, SeekRunGoes DEF SeekRun
<1>11. CASE ReadBlock(c)
  BY <1>1, <1>2, <1>11, ReadBlockGoes DEF ReadBlock
<1>12. CASE Padding(c)
  BY <1>1, <1>2, <1>12, PaddingGoes DEF Padding
<1>13. CASE PackedRun(c)
  BY <1>1, <1>2, <1>13, PackedRunGoes DEF PackedRun
<1>14. CASE AttrHole(c)
  BY <1>1, <1>2, <1>14, AttrHoleGoes DEF AttrHole
<1>15. CASE AttrRun(c)
  BY <1>1, <1>2, <1>15, AttrRunGoes DEF AttrRun
<1>16. CASE AttrEnd(c)
  BY <1>1, <1>2, <1>16, AttrEndGoes DEF AttrEnd
<1>17. CASE WofBlock(c)
  BY <1>1, <1>2, <1>17, WofBlockGoes DEF WofBlock, Yield
<1> QED BY <1>3, <1>4, <1>5, <1>6, <1>7, <1>8, <1>9, <1>10, <1>11, <1>12, <1>13,
           <1>14, <1>15, <1>16, <1>17 DEF Step

(* Between two blocks.                                                     *)
LEMMA LookUpKeeps ==
  ASSUME StreamInv, LookUp
  PROVE  StreamInv'
<1>1. /\ mft = "runs" /\ vol \in Volumes /\ reader \in Reader /\ Coherent(reader)
      /\ UNCHANGED <<vol, mft, active>>
      /\ k' = [c \in Client |-> Disturbed(k[c])]
  BY DEF LookUp, StreamInv, TypeOK, MftInv
<1>2. PICK n \in DOMAIN vol : \E t \in RecordFromNumber(reader, n) : reader' = t.rd
  BY DEF LookUp
<1>3. n \in Nat
  BY <1>1, ListFacts
<1>4. reader' \in Reader /\ Coherent(reader')
  BY <1>1, <1>2, <1>3, RecordKeeps
<1>5. \A c \in Client : GoodStream(vol, Disturbed(k[c]))
  BY DisturbedGood DEF StreamInv
<1>6. k' \in [Client -> Stream(vol)]
  BY <1>1, <1>5 DEF GoodStream
<1>7. TypeOK'
  BY <1>1, <1>4, <1>6 DEF StreamInv, TypeOK
<1>8. MftInv'
  BY <1>1, <1>4 DEF MftInv
<1>9. \A c \in Client : GoodStream(vol, k[c])'
  BY <1>1, <1>5
<1> QED BY <1>7, <1>8, <1>9 DEF StreamInv

(* The volume is opened: the first seek is never to 0, so that it is not   *)
(* skipped, or it fails on a reader that knows its position.               *)
LEMMA OpenKeeps ==
  ASSUME StreamInv, OpenReader \/ LoadMft
  PROVE  StreamInv'
<1>1. /\ mft = "absent" /\ UNCHANGED <<vol, active, k>>
      /\ reader \in Constructed /\ reader \in Reader
  BY DEF OpenReader, LoadMft, StreamInv, TypeOK, MftInv
<1>2. /\ Constructed \subseteq Reader
      /\ \A c \in Client : GoodStream(vol, k[c])'
      /\ active' = None /\ \A c \in Client : k'[c].pc = "idle"
  BY <1>1, BootAssumption DEF StreamInv, MftInv, Constructed, Closed, Reader
<1>3. CASE OpenReader
  <2>1. reader' \in Constructed /\ mft' = "absent"
    BY <1>1, <1>3 DEF OpenReader
  <2>2. TypeOK'
    BY <1>1, <1>2, <2>1 DEF StreamInv, TypeOK
  <2>3. MftInv'
    BY <1>2, <2>1 DEF MftInv
  <2> QED BY <1>2, <2>2, <2>3 DEF StreamInv
<1>4. CASE LoadMft
  <2>1. PICK s \in Seek(reader, MftAt) : \E t \in Read(s.rd, 1) :
          reader' = t.rd /\ mft' = IF s.ok /\ t.ok THEN "runs" ELSE "empty"
    BY <1>4 DEF LoadMft
  <2>2. PICK t \in Read(s.rd, 1) :
          reader' = t.rd /\ mft' = IF s.ok /\ t.ok THEN "runs" ELSE "empty"
    BY <2>1
  <2>3. MftAt \in Nat /\ MftAt # 0
    BY StreamAssumption
  <2>4. s.rd \in Reader /\ (s.ok => Coherent(s.rd))
    <3>1. s.rd \in Reader
      BY <1>1, <2>3, SeekKeeps
    <3>2. reader.position = 0
      BY <1>1 DEF Constructed, Closed
    <3>3. ASSUME s.ok PROVE Coherent(s.rd)
      <4>1. s.rd = [reader EXCEPT !.position = MftAt, !.pointer = MftAt]
        BY <2>3, <3>2, <3>3 DEF Seek
      <4>2. s.rd.position = MftAt /\ s.rd.pointer = MftAt
        BY <1>1, <4>1 DEF Reader
      <4> QED BY <4>2 DEF Coherent
    <3> QED BY <3>1, <3>3
  <2>5. t.rd \in Reader /\ (s.ok => Coherent(t.rd))
    BY <2>4, ReadKeeps
  <2>6. TypeOK'
    BY <1>1, <2>2, <2>5 DEF StreamInv, TypeOK
  <2>7. MftInv'
    BY <1>2, <2>2, <2>5 DEF MftInv
  <2> QED BY <1>2, <2>6, <2>7 DEF StreamInv
<1> QED BY <1>3, <1>4
LEMMA StreamNext == StreamInv /\ [Next]_vars => StreamInv'
<1> SUFFICES ASSUME StreamInv, [Next]_vars PROVE StreamInv'
  OBVIOUS
<1>1. CASE OpenReader \/ LoadMft
  BY <1>1, OpenKeeps
<1>2. CASE LookUp
  BY <1>2, LookUpKeeps
<1>3. ASSUME NEW c \in Client, NEW q \in Request(vol), Begin(c, q) \/ BeginData(c, q)
      PROVE  StreamInv'
  <2>1. mft = "runs" /\ UNCHANGED <<vol, mft>> /\ active' \in Client \cup {None}
    BY <1>3 DEF Begin, BeginData
  <2>2. Goes(c)
    BY <1>3, <2>1, BeginGoes, BeginDataGoes
  <2> QED BY <2>1, <2>2, GoesKeeps
<1>4. ASSUME NEW c \in Client, Resume(c) PROVE StreamInv'
  <2>1. active' = c /\ UNCHANGED <<vol, reader, mft, k>> /\ k[c].pc # "idle"
    BY <1>4 DEF Resume
  <2>2. mft = "runs"
    BY <2>1 DEF StreamInv, TypeOK, MftInv
  <2>3. TypeOK'
    BY <2>1 DEF StreamInv, TypeOK
  <2>4. MftInv'
    BY <2>1, <2>2 DEF StreamInv, MftInv
  <2>5. \A d \in Client : GoodStream(vol, k[d])'
    BY <2>1 DEF StreamInv
  <2> QED BY <2>3, <2>4, <2>5 DEF StreamInv
<1>5. ASSUME NEW c \in Client, Step(c) PROVE StreamInv'
  BY <1>5, StepGoes, GoesKeeps
<1>6. CASE UNCHANGED vars
  <2>1. UNCHANGED <<vol, reader, mft, active, k>>
    BY <1>6 DEF vars
  <2>2. TypeOK'
    BY <2>1 DEF StreamInv, TypeOK
  <2>3. MftInv'
    BY <2>1 DEF StreamInv, MftInv
  <2>4. \A d \in Client : GoodStream(vol, k[d])'
    BY <2>1 DEF StreamInv
  <2> QED BY <2>2, <2>3, <2>4 DEF StreamInv
<1> QED BY <1>1, <1>2, <1>3, <1>4, <1>5, <1>6 DEF Next

-----------------------------------------------------------------------------
LEMMA StreamInvariant == Spec => []StreamInv
BY StreamInit, StreamNext, PTL DEF Spec

(***************************************************************************)
(* The stream states stay well formed, for any volume, consumers, requests *)
(* and block size: an index never leaves the attribute it is of, a size    *)
(* never becomes negative (_process_data_raw(), attribute_data()).         *)
(***************************************************************************)
THEOREM StreamTypeOK == Spec => []TypeOK
<1>1. StreamInv => TypeOK
  BY DEF StreamInv
<1> QED BY <1>1, StreamInvariant, PTL

(***************************************************************************)
(* Reader::_current_position is the position of the kernel from the moment *)
(* the MFT is open, whoever seeks and reads in between and whatever fails. *)
(***************************************************************************)
THEOREM PositionAlwaysCoherent == Spec => []PositionCoherent
<1>1. StreamInv => PositionCoherent
  BY DEF StreamInv, MftInv, PositionCoherent
<1> QED BY <1>1, StreamInvariant, PTL

(***************************************************************************)
(* process_data() never hands out more than datasize() of the first piece, *)
(* however many runs, pieces and repeated pieces the blocks come from.     *)
(***************************************************************************)
THEOREM NeverHandsOutTooMuch == Spec => []NeverTooLong
<1>1. ASSUME StreamInv, NEW c \in Client, k[c].check, k[c].mode = "process"
      PROVE  Len(k[c].out) <= SizeOf(Pieces(vol, k[c].name)[1], FALSE)
  <2> DEFINE s == k[c]
             z == SizeOf(Pieces(vol, s.name)[1], FALSE)
  <2>1. s \in Stream(vol) /\ LengthInv(vol, s)
    BY <1>1, Now
  <2>2. Len(s.out) \in Nat /\ s.left \in Nat
    BY <2>1, LenProperties DEF Stream
  <2>3. z \in Nat /\ Len(s.out) + s.left <= z
    BY <1>1, <2>1 DEF LengthInv
  <2> HIDE DEF z
  <2>4. Len(s.out) <= z
    BY <2>2, <2>3
  <2> QED BY <2>4 DEF z
<1>2. StreamInv => NeverTooLong
  BY <1>1 DEF NeverTooLong
<1> QED BY <1>2, StreamInvariant, PTL

(***************************************************************************)
(* attribute_data() never drops a buffer, and dies of it, without a cause: *)
(* unless a read failed or the stream goes on in another record, the runs  *)
(* fill the buffer, provided that each has less than 2^32 bytes.           *)
(***************************************************************************)
THEOREM NullBufferAlwaysHasCause == Spec => []NullBufferHasCause
<1>1. ASSUME StreamInv, NEW c \in Client, k[c].pc = "crashed", ~k[c].lost
      PROVE  \E j \in DOMAIN Runs(k[c]) : Bytes(Runs(k[c])[j]) >= Word
  <2> DEFINE a == k[c].attr
  <2>1. /\ vol \in Volumes /\ a \in Attributes(vol) \cup {NoAttr}
        /\ a.form = "runs" /\ ~ShortRuns(a)
    BY <1>1, Now DEF BufferInv, Stream
  <2>2. a \in Attributes(vol)
    <3>1. NoAttr.form = "none"
      BY DEF NoAttr
    <3> HIDE DEF a
    <3> QED BY <2>1, <3>1
  <2>3. IsAttribute(a) /\ Runs(k[c]) = Decoded(a)
    BY <2>1, <2>2, IsAttributeOf DEF Runs
  <2> HIDE DEF a
  <2>4. PICK j \in DOMAIN a.extents : ~(a.extents[j].len * Cluster < Word)
    BY <2>1 DEF ShortRuns
  <2>5. /\ j \in DOMAIN Decoded(a) /\ a.extents[j].len \in Nat
        /\ Bytes(Decoded(a)[j]) = a.extents[j].len * Cluster
    BY <2>3, RunFacts DEF Bytes
  <2> DEFINE b == a.extents[j].len * Cluster
  <2>6. b \in Nat /\ Word \in Nat /\ ~(b < Word) /\ Bytes(Decoded(a)[j]) = b
    BY <2>4, <2>5, FileAssumption, StreamAssumption
  <2> HIDE DEF b
  <2>7. Bytes(Decoded(a)[j]) >= Word
    BY <2>6
  <2> QED BY <2>3, <2>5, <2>7
<1>2. StreamInv => NullBufferHasCause
  BY <1>1 DEF NullBufferHasCause
<1> QED BY <1>2, StreamInvariant, PTL

-----------------------------------------------------------------------------
(***************************************************************************)
(* What an undisturbed stream hands out is the file.                       *)
(***************************************************************************)
(* The parts of an attribute's contents, and of a stream's, and where each *)
(* begins in the whole.                                                    *)
Before(a, j) == IF j = 1 THEN NoExtent ELSE a.extents[j - 1]
Parts(a) == [j \in DOMAIN a.extents |-> ExtentContent(a.extents[j], Before(a, j))]
PartsOf(ps) == [j \in DOMAIN ps |-> Allocated(ps[j])]
Places(x) == CHOOSE b : Begins(b, x)

(* How many of a set of numbers there are up to i. *)
UpTo(I, i) == Cardinality(I \cap 1..i)

(* The entries of the attribute list that lead to a piece. *)
Holders(v, name) ==
  {j \in DOMAIN v[Base].list : /\ v[Base].list[j].rec # Base
                               /\ HasStream(v[v[Base].list[j].rec], name)}
(* The entries a stream has taken, and the attributes it has begun. *)
Taken(v, s) == Len(v[Base].list) - Len(s.entries)
Begun(v, s) ==
  IF HasStream(v[Base], s.name) THEN IF s.pc = "enter" THEN 0 ELSE 1
  ELSE IF s.pc = "enter" /\ s.rec = Base THEN 0
  ELSE UpTo(Holders(v, s.name), IF s.pc = "enter" THEN Taken(v, s) - 1 ELSE Taken(v, s))

InAttr == {"resident", "run", "hole", "blocks", "attr", "wof"}
Running == {"enter", "next"} \cup InAttr

ListInv(v, s) ==
  s.mode # "data" /\ s.pc \in Running =>
    /\ IF HasStream(v[Base], s.name) \/ (s.pc = "enter" /\ s.rec = Base)
       THEN s.entries = <<>> /\ s.rec = Base
       ELSE LET list == v[Base].list  j == Taken(v, s)
            IN  /\ j \in 0..Len(list) /\ s.entries = SubSeq(list, j + 1, Len(list))
                /\ s.pc \in {"enter"} \cup InAttr =>
                     j \in 1..Len(list) /\ s.rec = list[j].rec /\ s.rec # Base
    /\ s.pc \in InAttr => HasStream(v[s.rec], s.name) /\ s.attr = Find(v[s.rec], s.name)

(* The stream stands where it should in the pieces of the file. *)
All(v, s) == Joined(Pieces(v, s.name))
FileSize(v, s) == SizeOf(Pieces(v, s.name)[1], s.mode = "virtual")
PieceAt(v, s) == Places(PartsOf(Pieces(v, s.name)))
ExtentAt(a) == Places(Parts(a))
InPiece(s) ==
  CASE s.pc \in {"enter", "next"} -> 0
    [] s.pc = "resident" -> s.i
    [] s.pc = "run"      -> ExtentAt(s.attr)[s.r]
    [] s.pc \in {"hole", "blocks"} -> ExtentAt(s.attr)[s.r] + s.i
InRun(rd, s) ==
  LET e == s.attr.extents[s.r]  n == e.len * Cluster
  IN  CASE s.pc = "run"  -> /\ s.r \in 1..(Len(s.attr.extents) + 1)
                            /\ s.r = 1 => s.written = 0
                            /\ s.attr.packed =>
                                 s.last = IF s.r = 1 THEN 0 ELSE Runs(s)[s.r - 1].offset
        [] s.pc = "hole" -> /\ s.r = 1 /\ e.kind = "hole" /\ s.i <= n /\ s.written = s.i
                            /\ s.i % Block = 0
        [] s.pc = "blocks" -> /\ e.kind = "data" /\ ~s.attr.packed
                              /\ s.i < n /\ s.rbs < Word
                              /\ \/ s.rbs = 0 \/ (n - s.i) % Word = 0
                                 \/ rd.pointer = e.at * Cluster + s.i
        [] OTHER -> TRUE
InPlace(v, rd, s) ==
  LET ps == Pieces(v, s.name)  m == Begun(v, s)
  IN  /\ m <= Len(ps)
      /\ s.pc \in InAttr => m >= 1 /\ s.attr = ps[m] /\ InRun(rd, s)
      /\ s.pc = "hole" => m = 1
      /\ Len(s.out) = PieceAt(v, s)[IF s.pc \in InAttr THEN m ELSE m + 1] + InPiece(s)

Beginning(f, x) == Len(x) <= Len(f) /\ \A u \in 1..Len(x) : x[u] = f[u]

(* A stream that comes block by block. *)
Blockwise(v, rd, s) ==
  /\ s.pc \notin {"attr", "wof"}
  /\ Beginning(All(v, s), s.out)
  /\ Len(s.out) + s.left = FileSize(v, s)
  /\ ~s.check => s.left = 0 /\ FileSize(v, s) = 0 /\ s.pc \notin {"run", "hole", "blocks"}
                 /\ (s.pc = "resident" => s.attr.value = <<>>)
  /\ \/ s.left = 0
     \/ s.pc = "next" /\ s.lost /\ s.entries = <<>>
     \/ InPlace(v, rd, s)
BlocksInv(v, rd, s) ==
  s.trust /\ s.pc \in Running /\ ~Copied(s) => Blockwise(v, rd, s)
(* One that is read into a buffer. *)
CopyInv(v, s) ==
  s.trust /\ s.pc \in {"attr", "wof"} =>
    LET ps == Pieces(v, s.name)  all == Joined(ps)  a == s.attr
    IN  /\ a = ps[1] /\ s.out = <<>>
        /\ s.pc = "attr" /\ a.form = "resident" => s.buf = a.value
        /\ s.pc = "attr" /\ a.form = "runs" =>
             /\ Len(s.buf) = Len(all)
             /\ \A u \in 1..s.readSize : s.buf[u] = all[u]
             /\ \/ s.readSize = a.size \/ s.r > Len(a.extents)
                \/ s.readSize = Filled(a, s.r)
             /\ s.r = 1 => s.buf = Zeros(Len(all))
        /\ s.pc = "wof" => s.buf = SubSeq(Allocated(a), 1, a.size)
WofInv(v, s) ==
  s.trust /\ s.pc \in Running /\ s.name = "wof" /\ s.mode # "data" =>
    /\ s.pc \notin {"resident", "run", "hole", "blocks"}
    /\ s.pc \in {"enter", "next"} =>
         (Begun(v, s) = 0 /\ s.out = <<>>) \/ (Begun(v, s) = 1 /\ s.lost)
    /\ Beginning(Unpacked(Pieces(v, "wof")[1].extents[1].at + 1), s.out)
DataInv(v, rd, s) ==
  /\ s.pc = "idle" => s.out = <<>> /\ ~s.trust
  /\ s.pc # "idle" /\ s.trust => Served(v, s)
  /\ s.pc # "idle" /\ ~s.lost => Whole(v, s)
  /\ ListInv(v, s) /\ BlocksInv(v, rd, s) /\ CopyInv(v, s) /\ WofInv(v, s)
  /\ s.mode = "data" => s.pc \notin Running \ {"attr"}

(* What is read, of a volume v. *)
FileAt(v, s) ==
  IF s.name = "wof" /\ s.mode # "data" THEN Unpacked(Pieces(v, "wof")[1].extents[1].at + 1)
  ELSE Contents(v, s.name, s.mode = "virtual")
Whither(v, t) ==
  IF t.pc = "done" /\ ~t.lost THEN t.out = FileAt(v, t) ELSE Beginning(FileAt(v, t), t.out)

-----------------------------------------------------------------------------
(* What an attribute contains.                                             *)
LEMMA PlacesFacts ==
  ASSUME NEW x, Len(x) \in Nat, \A j \in 1..Len(x) : Len(x[j]) \in Nat
  PROVE  Begins(Places(x), x)
<1>1. \E b : Begins(b, x)
  BY BeginsExist
<1> QED BY <1>1 DEF Places

Laid(a) == IsAttribute(a) /\ a.form = "runs" /\ (a.packed => PackedLayout(a))
LengthOf(a, e) == IF e.kind = "packed" THEN Unit * Cluster
                  ELSE IF e.kind = "hole" /\ a.packed THEN 0
                  ELSE e.len * Cluster

(* An extent, by itself. *)
LEMMA PartFacts ==
  ASSUME NEW a, Laid(a), NEW j \in DOMAIN a.extents
  PROVE  LET e == a.extents[j]  p == Parts(a)[j]
         IN  /\ e \in Extent /\ e.len * Cluster \in Nat
             /\ p \in Seq(Int) /\ Len(p) = LengthOf(a, e) /\ LengthOf(a, e) \in Nat
             /\ e.kind = "data" => \A u \in 1..Len(p) : p[u] = e.at * Cluster + u - 1
             /\ e.kind = "hole" => \A u \in 1..Len(p) : p[u] = Zero
             /\ e.kind = "packed" => p = Unpacked(e.at)
<1> DEFINE e == a.extents[j]
           p == Parts(a)[j]
<1>1. /\ a.extents \in Seq(Extent) /\ DOMAIN a.extents = 1..Len(a.extents)
      /\ Len(a.extents) \in Nat
  BY RunFacts DEF Laid
<1>2. e \in Extent /\ e.at \in Nat /\ e.len \in Nat \ {0}
      /\ e.kind \in {"data", "packed", "hole"}
  <2>1. e \in Extent
    BY <1>1, ElementOfSeq
  <2> HIDE DEF e
  <2> QED BY <2>1 DEF Extent
<1>3. Cluster \in Nat \ {0} /\ Unit \in Nat
  BY FileAssumption
<1>4. e.len * Cluster \in Nat /\ e.at * Cluster \in Nat /\ Unit * Cluster \in Nat
  BY <1>2, <1>3
<1>5. p = ExtentContent(e, Before(a, j))
  BY DEF Parts
<1> HIDE DEF p
<1>6. CASE e.kind = "data"
  <2> DEFINE n == e.len * Cluster
             f == [i \in 1..n |-> e.at * Cluster + i - 1]
  <2>1. p = f
    BY <1>5, <1>6 DEF ExtentContent
  <2>2. f \in [1..n -> Int] /\ n \in Nat
    BY <1>4
  <2>3. LengthOf(a, e) = n
    BY <1>6 DEF LengthOf
  <2>4. f \in Seq(Int) /\ Len(f) = n
    <3> HIDE DEF n
    <3> QED BY <2>2, SeqDef
  <2>5. \A u \in 1..n : f[u] = e.at * Cluster + u - 1
    OBVIOUS
  <2> HIDE DEF f, n
  <2> QED BY <1>2, <1>4, <1>6, <2>1, <2>2, <2>3, <2>4, <2>5 DEF p
<1>7. CASE e.kind = "packed"
  <2>1. p = Unpacked(e.at)
    BY <1>5, <1>7 DEF ExtentContent
  <2>2. LengthOf(a, e) = Unit * Cluster
    BY <1>7 DEF LengthOf
  <2>3. Unpacked(e.at) \in Seq(Int) /\ Len(Unpacked(e.at)) = Unit * Cluster
    <3>1. Unpacked(e.at) \in Seq(Int)
      BY <1>2, UnpackedIsSeq
    <3>2. DOMAIN Unpacked(e.at) = 1..(Unit * Cluster)
      BY DEF Unpacked
    <3> QED BY <1>4, <3>1, <3>2, LenProperties
  <2> QED BY <1>2, <1>4, <1>7, <2>1, <2>2, <2>3 DEF p
<1>8. CASE e.kind = "hole"
  <2>1. p = Zeros(LengthOf(a, e))
    <3> DEFINE last == Before(a, j)
    <3>1. p = Zeros((IF last.kind = "packed" THEN e.len + last.len - Unit ELSE e.len)
                    * Cluster)
      BY <1>5, <1>8 DEF ExtentContent
    <3>2. CASE a.packed
      <4>1. j > 1 /\ a.extents[j - 1].kind = "packed"
        BY <1>8, <3>2 DEF Laid, PackedLayout
      <4>2. j - 1 \in DOMAIN a.extents
        BY <1>1, <4>1
      <4>3. /\ a.extents[j - 1].len < Unit
            /\ a.extents[(j - 1) + 1].len = Unit - a.extents[j - 1].len
        BY <3>2, <4>1, <4>2 DEF Laid, PackedLayout
      <4>4. (j - 1) + 1 = j /\ last = a.extents[j - 1]
        BY <1>1, <4>1 DEF Before
      <4>5. a.extents[j - 1].len \in Nat
        BY <1>1, <4>2, RunFacts DEF Laid
      <4>6. e.len + last.len - Unit = 0 /\ last.kind = "packed"
        BY <1>3, <4>1, <4>3, <4>4, <4>5
      <4>7. p = Zeros(0 * Cluster) /\ 0 * Cluster = 0
        BY <1>3, <3>1, <4>6
      <4> QED BY <1>8, <3>2, <4>7 DEF LengthOf
    <3>3. CASE ~a.packed
      <4>1. last.kind # "packed"
        <5>1. CASE j = 1
          BY <5>1 DEF Before, NoExtent
        <5>2. CASE j # 1
          <6>1. j - 1 \in DOMAIN a.extents
            BY <1>1, <5>2
          <6> QED BY <3>3, <5>2, <6>1 DEF Before, Laid, IsAttribute
        <5> QED BY <5>1, <5>2
      <4> QED BY <1>8, <3>1, <3>3, <4>1 DEF LengthOf
    <3> QED BY <3>2, <3>3
  <2>2. LengthOf(a, e) \in Nat
    BY <1>4, <1>8 DEF LengthOf
  <2>3. p \in Seq(Int) /\ Len(p) = LengthOf(a, e)
    BY <2>1, <2>2, ZerosIsSeq
  <2>4. \A u \in 1..Len(p) : p[u] = Zero
    BY <2>1, <2>3 DEF Zeros
  <2> QED BY <1>2, <1>4, <1>8, <2>2, <2>3, <2>4 DEF p
<1> QED BY <1>2, <1>6, <1>7, <1>8 DEF p

(* The whole attribute: where its extents begin, and what is there. *)
LEMMA AllocatedFacts ==
  ASSUME NEW a, Laid(a)
  PROVE  LET b == ExtentAt(a)  p == Parts(a)  n == Len(a.extents)
         IN  /\ Allocated(a) \in Seq(Int) /\ Len(Allocated(a)) = b[n + 1]
             /\ n \in Nat /\ DOMAIN a.extents = 1..n
             /\ b \in [1..(n + 1) -> Nat] /\ b[1] = 0
             /\ \A j \in 1..n :
                  /\ b[j + 1] = b[j] + LengthOf(a, a.extents[j])
                  /\ LengthOf(a, a.extents[j]) \in Nat
                  /\ b[j + 1] <= Len(Allocated(a))
                  /\ \A u \in 1..LengthOf(a, a.extents[j]) :
                       /\ b[j] + u \in 1..Len(Allocated(a))
                       /\ Allocated(a)[b[j] + u] = p[j][u]
<1> DEFINE b == ExtentAt(a)
           p == Parts(a)
           n == Len(a.extents)
<1>1. n \in Nat /\ DOMAIN a.extents = 1..n
  BY RunFacts DEF Laid
<1>2. p = [j \in DOMAIN a.extents |-> p[j]] /\ DOMAIN p = DOMAIN a.extents
  BY DEF Parts
<1>3. \A j \in 1..n : /\ p[j] \in Seq(Int) /\ Len(p[j]) = LengthOf(a, a.extents[j])
                      /\ LengthOf(a, a.extents[j]) \in Nat
  BY <1>1, PartFacts
<1>4. Allocated(a) = FlattenSeq(p)
  BY DEF Allocated, Laid, Parts, Before
<1> HIDE DEF p, n
<1>5. p \in Seq(Seq(Int)) /\ Len(p) = n
  <2>1. p \in [1..n -> Seq(Int)]
    BY <1>1, <1>2, <1>3
  <2> QED BY <1>1, <2>1, SeqDef
<1>6. Begins(b, p)
  <2>1. Len(p) \in Nat /\ \A j \in 1..Len(p) : Len(p[j]) \in Nat
    BY <1>1, <1>3, <1>5
  <2> QED BY <2>1, PlacesFacts DEF ExtentAt, p
<1> HIDE DEF b
<1>7. /\ FlattenSeq(p) \in Seq(Int) /\ Len(FlattenSeq(p)) = b[n + 1]
      /\ \A i \in 1..n : \A c \in 1..Len(p[i]) :
           /\ b[i] + c \in 1..Len(FlattenSeq(p))
           /\ FlattenSeq(p)[b[i] + c] = p[i][c]
  <2>1. /\ FlattenSeq(p) \in Seq(Int) /\ Len(FlattenSeq(p)) = b[Len(p) + 1]
        /\ \A i \in 1..Len(p) : \A c \in 1..Len(p[i]) :
             /\ b[i] + c \in 1..Len(FlattenSeq(p))
             /\ FlattenSeq(p)[b[i] + c] = p[i][c]
    <3>1. p \in Seq(Seq(Int)) /\ Begins(b, p)
      BY <1>5, <1>6
    <3> HIDE <1>1, <1>2, <1>3, <1>4
    <3>2. FlattenSeq(p) \in Seq(Int) /\ Len(FlattenSeq(p)) = b[Len(p) + 1]
      BY <3>1, FlattenFacts
    <3>3. \A i \in 1..Len(p) : \A c \in 1..Len(p[i]) :
             /\ b[i] + c \in 1..Len(FlattenSeq(p))
             /\ FlattenSeq(p)[b[i] + c] = p[i][c]
      BY <3>1, FlattenFacts
    <3> QED BY <3>2, <3>3
  <2> QED BY <1>5, <2>1
<1>8. b \in [1..(n + 1) -> Nat] /\ b[1] = 0 /\ \A j \in 1..n : b[j + 1] = b[j] + Len(p[j])
  BY <1>5, <1>6 DEF Begins
<1>9. ASSUME NEW j \in 1..n PROVE b[j + 1] <= b[n + 1]
  <2>1. j + 1 \in 1..(n + 1) /\ n + 1 \in (j + 1)..(n + 1)
    BY <1>1
  <2> QED BY <1>1, <1>3, <1>5, <1>6, <2>1, BeginsMonotone
<1> QED BY <1>1, <1>3, <1>4, <1>7, <1>8, <1>9 DEF b, p, n

(* Without packed units the extents begin where they are on the disk's map. *)
LEMMA PlainPlaces ==
  ASSUME NEW a, Laid(a), ~a.packed
  PROVE  /\ \A r \in 1..(Len(a.extents) + 1) : ExtentAt(a)[r] = Filled(a, r)
         /\ Len(Allocated(a)) = Filled(a, Len(a.extents) + 1)
<1> DEFINE n == Len(a.extents)
           b == ExtentAt(a)
           P == {r \in 1..(n + 1) : b[r] = Filled(a, r)}
<1>1. /\ n \in Nat /\ DOMAIN a.extents = 1..n /\ b[1] = 0
      /\ Len(Allocated(a)) = b[n + 1]
      /\ \A j \in 1..n : b[j + 1] = b[j] + LengthOf(a, a.extents[j])
  BY AllocatedFacts
<1>2. Filled(a, 1) = 0 /\ \A r \in 1..n : Filled(a, r + 1) = Filled(a, r) + a.extents[r].len * Cluster
  BY <1>1, FilledFacts DEF Laid
<1>3. \A j \in 1..n : LengthOf(a, a.extents[j]) = a.extents[j].len * Cluster
  BY <1>1 DEF LengthOf, Laid, IsAttribute
<1> HIDE DEF n, b
<1>4. 1 \in P
  BY <1>1, <1>2
<1>5. ASSUME NEW r \in 1..((n + 1) - 1), r \in P PROVE r + 1 \in P
  <2>1. r \in 1..n /\ r + 1 \in 1..(n + 1) /\ b[r] = Filled(a, r)
    BY <1>1, <1>5
  <2>2. b[r + 1] = Filled(a, r + 1)
    BY <1>1, <1>2, <1>3, <2>1
  <2> QED BY <2>1, <2>2
<1>6. 1..(n + 1) \subseteq P
  <2>1. 1 \in Nat /\ n + 1 \in Nat
    BY <1>1
  <2> HIDE DEF P
  <2> QED BY <1>4, <1>5, <2>1, Induction
<1>7. n + 1 \in 1..(n + 1)
  BY <1>1
<1> QED BY <1>1, <1>6, <1>7 DEF n, b

(* The places of a set of numbers, in order: how many there are up to each *)
(* says which one it is.                                                   *)
LEMMA UpToFacts ==
  ASSUME NEW n \in Nat, NEW I \in SUBSET (1..n)
  PROVE  /\ IsFiniteSet(I) /\ Cardinality(I) \in Nat
         /\ UpTo(I, 0) = 0 /\ UpTo(I, n) = Cardinality(I)
         /\ \A i \in 0..n : UpTo(I, i) \in Nat /\ UpTo(I, i) <= Cardinality(I)
         /\ \A i \in 1..n : UpTo(I, i) = UpTo(I, i - 1) + (IF i \in I THEN 1 ELSE 0)
<1>1. IsFiniteSet(1..n)
  BY FS_Interval
<1>2. IsFiniteSet(I) /\ Cardinality(I) \in Nat
  BY <1>1, FS_Subset, FS_CardinalityType
<1>3. UpTo(I, 0) = 0
  <2>1. I \cap 1..0 = {}
    OBVIOUS
  <2> QED BY <2>1, FS_EmptySet DEF UpTo
<1>4. UpTo(I, n) = Cardinality(I)
  <2>1. I \cap 1..n = I
    OBVIOUS
  <2> QED BY <2>1 DEF UpTo
<1>5. ASSUME NEW i \in 0..n
      PROVE  IsFiniteSet(I \cap 1..i) /\ UpTo(I, i) \in Nat /\ UpTo(I, i) <= Cardinality(I)
  <2>1. I \cap 1..i \in SUBSET I
    OBVIOUS
  <2>2. IsFiniteSet(I \cap 1..i) /\ Cardinality(I \cap 1..i) <= Cardinality(I)
    BY <1>2, <2>1, FS_Subset
  <2>3. Cardinality(I \cap 1..i) \in Nat
    BY <2>2, FS_CardinalityType
  <2> QED BY <2>2, <2>3 DEF UpTo
<1>6. ASSUME NEW i \in 1..n
      PROVE  UpTo(I, i) = UpTo(I, i - 1) + (IF i \in I THEN 1 ELSE 0)
  <2>1. i - 1 \in 0..n /\ i \in 0..n
    OBVIOUS
  <2>2. CASE i \in I
    <3>1. I \cap 1..i = (I \cap 1..(i - 1)) \cup {i}
      BY <2>2
    <3>2. i \notin I \cap 1..(i - 1)
      OBVIOUS
    <3>3. Cardinality((I \cap 1..(i - 1)) \cup {i}) = Cardinality(I \cap 1..(i - 1)) + 1
      BY <1>5, <2>1, <3>2, FS_AddElement
    <3> QED BY <2>2, <3>1, <3>3 DEF UpTo
  <2>3. CASE i \notin I
    <3>1. I \cap 1..i = I \cap 1..(i - 1)
      BY <2>3
    <3>2. UpTo(I, i) = UpTo(I, i - 1) /\ UpTo(I, i - 1) \in Nat
      BY <1>5, <2>1, <3>1 DEF UpTo
    <3> QED BY <2>3, <3>2
  <2> QED BY <2>2, <2>3
<1> QED BY <1>2, <1>3, <1>4, <1>5, <1>6

LEMMA UpToGrows ==
  ASSUME NEW n \in Nat, NEW I \in SUBSET (1..n), NEW i \in I, NEW j \in i..n
  PROVE  /\ UpTo(I, i) <= UpTo(I, j) /\ UpTo(I, i) >= 1
         /\ i < j /\ j \in I => UpTo(I, i) < UpTo(I, j)
<1> DEFINE P == {h \in i..n : UpTo(I, i) <= UpTo(I, h)}
<1>1. i \in 1..n /\ \A h \in 0..n : UpTo(I, h) \in Nat
  BY UpToFacts
<1>2. \A h \in 1..n : UpTo(I, h) = UpTo(I, h - 1) + (IF h \in I THEN 1 ELSE 0)
  BY UpToFacts
<1>3. i \in P
  BY <1>1
<1>4. ASSUME NEW h \in i..(n - 1), h \in P PROVE h + 1 \in P
  <2>1. h + 1 \in 1..n /\ (h + 1) - 1 = h /\ h \in 0..n /\ i \in 0..n
    BY <1>1
  <2>2. UpTo(I, h + 1) >= UpTo(I, h) /\ UpTo(I, h + 1) \in Nat /\ UpTo(I, h) \in Nat
        /\ UpTo(I, i) \in Nat /\ UpTo(I, i) <= UpTo(I, h)
    BY <1>1, <1>2, <1>4, <2>1
  <2> QED BY <2>1, <2>2
<1>5. i..n \subseteq P
  <2>1. i \in Nat
    BY <1>1
  <2> HIDE DEF P
  <2> QED BY <1>3, <1>4, <2>1, Induction
<1>6. UpTo(I, i) >= 1
  <2>1. i - 1 \in 0..n
    BY <1>1
  <2> QED BY <1>1, <1>2, <2>1
<1>7. ASSUME i < j, j \in I PROVE UpTo(I, i) < UpTo(I, j)
  <2>1. j - 1 \in i..n /\ j \in 1..n /\ j - 1 \in 0..n /\ i \in 0..n
    BY <1>1, <1>7
  <2>2. UpTo(I, i) <= UpTo(I, j - 1)
    BY <1>5, <2>1
  <2> QED BY <1>1, <1>2, <1>7, <2>1, <2>2
<1> QED BY <1>5, <1>6, <1>7

LEMMA NthFacts ==
  ASSUME NEW n \in Nat, NEW I \in SUBSET (1..n)
  PROVE  /\ \A j \in 1..Cardinality(I) : Nth(I, j) \in I /\ UpTo(I, Nth(I, j)) = j
         /\ \A i \in I : UpTo(I, i) \in 1..Cardinality(I) /\ Nth(I, UpTo(I, i)) = i
<1>1. ASSUME NEW i \in I PROVE {h \in I : h <= i} = I \cap 1..i
  <2>1. \A h \in I : h <= i <=> h \in 1..i
    <3>1. \A h \in I : h \in 1..n
      OBVIOUS
    <3>2. i \in 1..n
      OBVIOUS
    <3> QED BY <3>1, <3>2
  <2> QED BY <2>1
<1>2. /\ Cardinality(I) \in Nat /\ UpTo(I, 0) = 0 /\ UpTo(I, n) = Cardinality(I)
      /\ \A i \in 0..n : UpTo(I, i) \in Nat /\ UpTo(I, i) <= Cardinality(I)
      /\ \A i \in 1..n : UpTo(I, i) = UpTo(I, i - 1) + (IF i \in I THEN 1 ELSE 0)
  BY UpToFacts
<1>3. ASSUME NEW j \in 1..Cardinality(I) PROVE \E i \in I : UpTo(I, i) = j
  <2> DEFINE S == {i \in 1..n : UpTo(I, i) >= j}
  <2>1. n \in S
    <3>1. n # 0
      BY <1>2, <1>3
    <3> QED BY <1>2, <3>1
  <2>2. PICK m \in S : \A i \in S : m <= i
    <3>1. S \in SUBSET Nat /\ S # {}
      BY <2>1
    <3> HIDE DEF S
    <3> QED BY <3>1, NatMin
  <2>3. m \in 1..n /\ UpTo(I, m) >= j /\ UpTo(I, m) \in Nat
    BY <1>2, <2>2
  <2>4. UpTo(I, m - 1) < j /\ UpTo(I, m - 1) \in Nat
    <3>1. CASE m = 1
      <4>1. m - 1 = 0
        BY <3>1
      <4> QED BY <1>2, <1>3, <4>1
    <3>2. CASE m # 1
      <4>1. m - 1 \in 1..n /\ m - 1 < m /\ m - 1 \in 0..n
        BY <2>3, <3>2
      <4>2. m - 1 \notin S
        BY <2>2, <2>3, <4>1
      <4>3. ~(UpTo(I, m - 1) >= j)
        BY <4>1, <4>2
      <4> QED BY <1>2, <1>3, <4>1, <4>3
    <3> QED BY <3>1, <3>2
  <2>5. UpTo(I, m) = UpTo(I, m - 1) + (IF m \in I THEN 1 ELSE 0)
    BY <1>2, <2>3
  <2>6. m \in I /\ UpTo(I, m) = j
    BY <1>3, <2>3, <2>4, <2>5
  <2> QED BY <2>6
<1>4. ASSUME NEW j \in 1..Cardinality(I) PROVE Nth(I, j) \in I /\ UpTo(I, Nth(I, j)) = j
  <2>1. \E i \in I : Cardinality({h \in I : h <= i}) = j
    BY <1>1, <1>3 DEF UpTo
  <2>2. Nth(I, j) \in I /\ Cardinality({h \in I : h <= Nth(I, j)}) = j
    BY <2>1 DEF Nth
  <2> QED BY <1>1, <2>2 DEF UpTo
<1>5. ASSUME NEW i \in I
      PROVE  UpTo(I, i) \in 1..Cardinality(I) /\ Nth(I, UpTo(I, i)) = i
  <2>1. i \in 1..n /\ i \in 0..n /\ i \in i..n
    OBVIOUS
  <2>2. UpTo(I, i) \in 1..Cardinality(I)
    BY <1>2, <2>1, UpToGrows
  <2> DEFINE x == Nth(I, UpTo(I, i))
  <2>3. x \in I /\ UpTo(I, x) = UpTo(I, i)
    BY <1>4, <2>2
  <2> HIDE DEF x
  <2>4. x \in 1..n
    BY <2>3
  <2>5. ~(i < x) /\ ~(x < i)
    <3>1. ASSUME i < x PROVE FALSE
      <4>1. x \in i..n
        BY <2>1, <2>4, <3>1
      <4>2. UpTo(I, i) < UpTo(I, x)
        BY <2>3, <3>1, <4>1, UpToGrows
      <4> QED BY <1>2, <2>1, <2>3, <4>2
    <3>2. ASSUME x < i PROVE FALSE
      <4>1. i \in x..n
        BY <2>1, <2>4, <3>2
      <4>2. UpTo(I, x) < UpTo(I, i)
        BY <2>3, <3>2, <4>1, UpToGrows
      <4> QED BY <1>2, <2>1, <2>3, <4>2
    <3> QED BY <3>1, <3>2
  <2>6. x = i
    BY <2>1, <2>4, <2>5
  <2> QED BY <2>2, <2>6 DEF x
<1> QED BY <1>4, <1>5

-----------------------------------------------------------------------------
(* What a stream contains.                                                 *)
LEMMA PieceFacts ==
  ASSUME NEW v \in Volumes, NEW name
  PROVE  LET ps == Pieces(v, name)
         IN  /\ Len(ps) \in Nat /\ DOMAIN ps = 1..Len(ps)
             /\ ps = [j \in 1..Len(ps) |-> ps[j]]
             /\ \A j \in 1..Len(ps) :
                  ps[j] \in Attributes(v) /\ IsAttribute(ps[j]) /\ ps[j].name = name
             /\ ps # <<>> => 1 \in 1..Len(ps) /\ IsStream(ps)
             /\ \A n \in DOMAIN v :
                  HasStream(v[n], name) /\ (v[Base].list = <<>> => n = Base) =>
                    \E j \in 1..Len(ps) : ps[j] = Find(v[n], name)
<1> DEFINE list == v[Base].list
           I == Named(list, name)
           es == Picked(list, I)
           ps == Pieces(v, name)
<1>1. /\ Base \in DOMAIN v
      /\ list \in Seq([name : STRING, rec : DOMAIN v])
      /\ Len(list) \in Nat /\ DOMAIN list = 1..Len(list)
      /\ \A j \in DOMAIN list : list[j].rec \in DOMAIN v
      /\ I \in SUBSET DOMAIN list
  BY ListFacts
<1>2. /\ IsFiniteSet(I) /\ Cardinality(I) \in Nat
      /\ DOMAIN es = 1..Cardinality(I)
  <2> HIDE DEF I, list
  <2> QED BY <1>1, PickedFacts
<1>3. /\ \A j \in 1..Cardinality(I) : Nth(I, j) \in I /\ es[j] = list[Nth(I, j)]
      /\ \A i \in I : \E j \in 1..Cardinality(I) : es[j] = list[i]
  <2> HIDE DEF I, list
  <2>1. ASSUME NEW j \in 1..Cardinality(I) PROVE Nth(I, j) \in I
    BY <1>1, <2>1, NthFacts
  <2>2. \A j \in 1..Cardinality(I) : es[j] = list[Nth(I, j)]
    BY DEF Picked
  <2>3. \A i \in I : \E j \in 1..Cardinality(I) : Nth(I, j) = i
    BY <1>1, NthFacts
  <2> HIDE DEF es
  <2> QED BY <2>1, <2>2, <2>3
<1>4. CASE list = <<>>
  <2>1. ps = IF HasStream(v[Base], name) THEN <<Find(v[Base], name)>> ELSE <<>>
    BY <1>4 DEF Pieces
  <2>2. CASE HasStream(v[Base], name)
    <3> DEFINE a == Find(v[Base], name)
    <3>1. a \in Attributes(v) /\ IsAttribute(a) /\ a.name = name
      BY <1>1, <2>2, AttributeFacts, IsAttributeOf
    <3>2. ps = <<a>>
      BY <2>1, <2>2
    <3>3. IsStream(ps)
      <4>1. PICK n \in DOMAIN v : a \in ToSet(v[n].data)
        BY <3>1 DEF Attributes
      <4>2. IsStream(Pieces(v, a.name))
        BY <4>1, Typed DEF IsVolume
      <4> QED BY <3>1, <4>2
    <3> HIDE DEF a, ps
    <3>4. Len(ps) = 1 /\ DOMAIN ps = 1..1 /\ ps[1] = a /\ ps # <<>>
      BY <3>2
    <3>5. ps = [j \in 1..1 |-> ps[j]]
      BY <3>2
    <3> QED BY <1>4, <3>1, <3>3, <3>4, <3>5 DEF a, ps
  <2>3. CASE ~HasStream(v[Base], name)
    <3>1. ps = <<>>
      BY <2>1, <2>3
    <3> HIDE DEF ps
    <3>2. Len(ps) = 0 /\ DOMAIN ps = 1..0 /\ 1..0 = {}
      BY <3>1
    <3>3. ps = [j \in 1..0 |-> ps[j]]
      BY <3>1, <3>2
    <3> QED BY <1>4, <2>3, <3>1, <3>2, <3>3 DEF ps
  <2> QED BY <2>2, <2>3
<1>5. CASE list # <<>>
  <2>1. ps = [j \in 1..Cardinality(I) |-> Find(v[es[j].rec], name)]
    BY <1>2, <1>5 DEF Pieces
  <2> HIDE DEF es, ps, I
  <2>2. DOMAIN ps = 1..Cardinality(I) /\ Len(ps) = Cardinality(I)
    BY <1>2, <2>1
  <2>3. ASSUME NEW j \in 1..Len(ps)
        PROVE  ps[j] \in Attributes(v) /\ IsAttribute(ps[j]) /\ ps[j].name = name
    <3> DEFINE i == Nth(I, j)
    <3>1. i \in I /\ es[j] = list[i] /\ i \in DOMAIN list
      BY <1>1, <1>3, <2>2
    <3>2. list[i].name = name /\ list[i].rec \in DOMAIN v
      BY <1>1, <3>1 DEF I, Named
    <3>3. HasStream(v[list[i].rec], name)
      BY <3>1, <3>2, Typed DEF IsVolume
    <3>4. ps[j] = Find(v[list[i].rec], name)
      BY <2>1, <2>2, <3>1
    <3> HIDE DEF i, list
    <3> QED BY <3>2, <3>3, <3>4, AttributeFacts, IsAttributeOf
  <2>4. ASSUME ps # <<>> PROVE 1 \in 1..Len(ps) /\ IsStream(ps)
    <3>1. Len(ps) # 0
      <4>1. ps \in [1..Cardinality(I) -> Attributes(v)]
        BY <2>1, <2>2, <2>3
      <4>2. ps \in Seq(Attributes(v))
        BY <1>2, <4>1, SeqDef
      <4> QED BY <2>4, <4>2, EmptySeq
    <3>2. 1 \in 1..Len(ps)
      BY <1>2, <2>2, <3>1
    <3>3. PICK n \in DOMAIN v : ps[1] \in ToSet(v[n].data)
      BY <2>3, <3>2 DEF Attributes
    <3>4. IsStream(Pieces(v, ps[1].name))
      BY <3>3, Typed DEF IsVolume
    <3> QED BY <2>3, <3>2, <3>4 DEF ps
  <2>5. ASSUME NEW n \in DOMAIN v, HasStream(v[n], name)
        PROVE  \E j \in 1..Len(ps) : ps[j] = Find(v[n], name)
    <3>1. Find(v[n], name) \in ToSet(v[n].data) /\ Find(v[n], name).name = name
      BY <2>5, AttributeFacts
    <3>2. \E i \in Named(list, name) : list[i].rec = n
      BY <1>5, <2>5, <3>1, Typed DEF IsVolume
    <3>3. PICK i \in I : list[i].rec = n
      BY <3>2 DEF I
    <3>4. PICK j \in 1..Cardinality(I) : es[j] = list[i]
      BY <1>3, <3>3
    <3> QED BY <2>1, <2>2, <3>3, <3>4
  <2>6. Len(ps) \in Nat
    BY <1>2, <2>2
  <2>7. ps = [j \in 1..Len(ps) |-> ps[j]]
    BY <2>1, <2>2
  <2> QED BY <1>5, <2>2, <2>3, <2>4, <2>5, <2>6, <2>7 DEF ps
<1> QED BY <1>4, <1>5

(* The pieces of a stream that is served, laid out one after the other. *)
LEMMA JoinedFacts ==
  ASSUME NEW v \in Volumes, NEW q, Served(v, q)
  PROVE  LET ps == Pieces(v, q.name)  n == Len(ps)
             b == PieceAt(v, q)  all == All(v, q)
         IN  /\ n \in Nat /\ 1 \in 1..n /\ DOMAIN ps = 1..n
             /\ all \in Seq(Int) /\ Len(all) = b[n + 1]
             /\ b \in [1..(n + 1) -> Nat] /\ b[1] = 0
             /\ \A j \in 1..n :
                  /\ IsAttribute(ps[j]) /\ ps[j] \in Attributes(v) /\ ps[j].name = q.name
                  /\ ps[j].form = "runs" => Laid(ps[j])
                  /\ Allocated(ps[j]) \in Seq(Int) /\ Len(Allocated(ps[j])) \in Nat
                  /\ b[j + 1] = b[j] + Len(Allocated(ps[j]))
                  /\ b[j + 1] <= Len(all)
                  /\ \A u \in 1..Len(Allocated(ps[j])) :
                       /\ b[j] + u \in 1..Len(all)
                       /\ all[b[j] + u] = Allocated(ps[j])[u]
<1> DEFINE ps == Pieces(v, q.name)
           n == Len(ps)
           p == PartsOf(ps)
           b == PieceAt(v, q)
           all == All(v, q)
<1>1. /\ n \in Nat /\ DOMAIN ps = 1..n
      /\ \A j \in 1..n : ps[j] \in Attributes(v) /\ IsAttribute(ps[j]) /\ ps[j].name = q.name
      /\ ps # <<>> => 1 \in 1..n
  BY PieceFacts
<1>2. ps # <<>> /\ \A j \in DOMAIN ps : LayoutServed(ps, j, q)
  BY DEF Served
<1>3. ASSUME NEW j \in 1..n
      PROVE  /\ ps[j].form = "runs" => Laid(ps[j])
             /\ Allocated(ps[j]) \in Seq(Int) /\ Len(Allocated(ps[j])) \in Nat
  <2> DEFINE a == ps[j]
  <2>1. IsAttribute(a) /\ LayoutServed(ps, j, q)
    BY <1>1, <1>2
  <2>2. a.form = "runs" => Laid(a)
    BY <2>1 DEF Laid, LayoutServed
  <2> HIDE DEF a
  <2>3. CASE a.form = "runs"
    BY <2>2, <2>3, AllocatedFacts, LenProperties DEF a
  <2>4. CASE a.form = "resident"
    BY <2>1, <2>4, LenProperties DEF a, IsAttribute, Allocated
  <2>5. a.form \in {"runs", "resident"}
    BY <2>1 DEF IsAttribute
  <2> QED BY <2>2, <2>3, <2>4, <2>5 DEF a
<1> HIDE DEF ps, n
<1>4. p \in Seq(Seq(Int)) /\ Len(p) = n /\ \A j \in 1..n : p[j] = Allocated(ps[j])
  <2>1. p \in [1..n -> Seq(Int)]
    BY <1>1, <1>3 DEF PartsOf
  <2>2. \A j \in 1..n : p[j] = Allocated(ps[j])
    BY <1>1 DEF PartsOf
  <2> HIDE DEF p
  <2> QED BY <1>1, <2>1, <2>2, SeqDef
<1>5. all = FlattenSeq(p)
  BY DEF All, Joined, PartsOf, ps
<1> HIDE DEF p, all
<1>6. Begins(b, p)
  <2>1. Len(p) \in Nat /\ \A j \in 1..Len(p) : Len(p[j]) \in Nat
    BY <1>1, <1>3, <1>4
  <2> QED BY <2>1, PlacesFacts DEF PieceAt, p, ps
<1> HIDE DEF b
<1>7. /\ all \in Seq(Int) /\ Len(all) = b[Len(p) + 1]
      /\ \A i \in 1..Len(p) : \A c \in 1..Len(p[i]) :
           b[i] + c \in 1..Len(all) /\ all[b[i] + c] = p[i][c]
  <2>1. p \in Seq(Seq(Int)) /\ Begins(b, p)
    BY <1>4, <1>6
  <2> HIDE <1>1, <1>2, <1>3
  <2>2. FlattenSeq(p) \in Seq(Int) /\ Len(FlattenSeq(p)) = b[Len(p) + 1]
    BY <2>1, FlattenFacts
  <2>3. \A i \in 1..Len(p) : \A c \in 1..Len(p[i]) :
           /\ b[i] + c \in 1..Len(FlattenSeq(p))
           /\ FlattenSeq(p)[b[i] + c] = p[i][c]
    BY <2>1, FlattenFacts
  <2> QED BY <1>5, <2>2, <2>3
<1>8. b \in [1..(n + 1) -> Nat] /\ b[1] = 0 /\ \A j \in 1..n : b[j + 1] = b[j] + Len(p[j])
  BY <1>4, <1>6 DEF Begins
<1>9. ASSUME NEW j \in 1..n PROVE b[j + 1] <= b[n + 1]
  <2>1. j + 1 \in 1..(n + 1) /\ n + 1 \in (j + 1)..(n + 1)
    BY <1>1
  <2> QED BY <1>1, <1>3, <1>4, <1>6, <2>1, BeginsMonotone
<1>10. ASSUME NEW j \in 1..n
       PROVE  /\ IsAttribute(ps[j]) /\ ps[j] \in Attributes(v) /\ ps[j].name = q.name
              /\ ps[j].form = "runs" => Laid(ps[j])
              /\ Allocated(ps[j]) \in Seq(Int) /\ Len(Allocated(ps[j])) \in Nat
              /\ b[j + 1] = b[j] + Len(Allocated(ps[j])) /\ b[j + 1] <= Len(all)
              /\ \A u \in 1..Len(Allocated(ps[j])) :
                   b[j] + u \in 1..Len(all) /\ all[b[j] + u] = Allocated(ps[j])[u]
  <2>1. p[j] = Allocated(ps[j]) /\ j \in 1..Len(p)
    BY <1>4
  <2>2. /\ IsAttribute(ps[j]) /\ ps[j] \in Attributes(v) /\ ps[j].name = q.name
        /\ ps[j].form = "runs" => Laid(ps[j])
        /\ Allocated(ps[j]) \in Seq(Int) /\ Len(Allocated(ps[j])) \in Nat
    BY <1>1, <1>3
  <2>3. b[j + 1] = b[j] + Len(Allocated(ps[j]))
    BY <1>8, <2>1
  <2>4. b[j + 1] <= Len(all)
    BY <1>4, <1>7, <1>9
  <2>5. \A u \in 1..Len(Allocated(ps[j])) :
          b[j] + u \in 1..Len(all) /\ all[b[j] + u] = Allocated(ps[j])[u]
    BY <1>7, <2>1
  <2> QED BY <2>2, <2>3, <2>4, <2>5
<1>11. /\ n \in Nat /\ 1 \in 1..n /\ DOMAIN ps = 1..n
       /\ all \in Seq(Int) /\ Len(all) = b[n + 1]
       /\ b \in [1..(n + 1) -> Nat] /\ b[1] = 0
  BY <1>1, <1>2, <1>4, <1>7, <1>8
<1> QED BY <1>10, <1>11 DEF b, all, n, ps

(* One of them. *)
LEMMA PieceIsPart ==
  ASSUME NEW v \in Volumes, NEW q, Served(v, q), NEW j \in 1..Len(Pieces(v, q.name))
  PROVE  LET a == Pieces(v, q.name)[j]  b == PieceAt(v, q)
         IN  /\ IsAttribute(a) /\ (a.form = "runs" => Laid(a))
             /\ Len(Allocated(a)) \in Nat
             /\ b[j] \in Nat /\ b[j + 1] = b[j] + Len(Allocated(a))
             /\ b[j + 1] <= Len(All(v, q))
             /\ \A u \in 1..Len(Allocated(a)) : All(v, q)[b[j] + u] = Allocated(a)[u]
<1> DEFINE ps == Pieces(v, q.name)
           b == PieceAt(v, q)
           all == All(v, q)
<1>1. Len(ps) \in Nat /\ b \in [1..(Len(ps) + 1) -> Nat]
  BY JoinedFacts
<1>2. /\ IsAttribute(ps[j]) /\ (ps[j].form = "runs" => Laid(ps[j]))
      /\ Len(Allocated(ps[j])) \in Nat
  BY JoinedFacts
<1>3. b[j + 1] = b[j] + Len(Allocated(ps[j])) /\ b[j + 1] <= Len(all)
  BY JoinedFacts
<1>7. \A u \in 1..Len(Allocated(ps[j])) : all[b[j] + u] = Allocated(ps[j])[u]
  BY JoinedFacts
<1>4. j \in 1..Len(ps)
  OBVIOUS
<1> HIDE DEF ps, b, all
<1>5. j \in 1..(Len(ps) + 1)
  BY <1>1, <1>4
<1>6. b[j] \in Nat
  BY <1>1, <1>5
<1> QED BY <1>2, <1>3, <1>6, <1>7 DEF ps, b, all

(* The size of the file. *)
LEMMA FileFacts ==
  ASSUME NEW v \in Volumes, NEW q, Served(v, q), q.mode \in {"process", "virtual", "data"}
  PROVE  LET ps == Pieces(v, q.name)  all == All(v, q)  size == FileSize(v, q)
         IN  /\ size \in Nat /\ size <= Len(all) /\ Len(all) \in Nat
             /\ \A j \in 1..Len(ps) : ps[j].form = "resident" =>
                  /\ j = 1 /\ Len(ps) = 1 /\ Len(ps[j].value) = size
                  /\ Allocated(ps[j]) = ps[j].value /\ Len(all) = size
             /\ ps[1].form = "runs" =>
                  /\ ps[1].alloc = Len(all) /\ ps[1].size \in Nat /\ ps[1].size <= ps[1].alloc
                  /\ size = IF q.mode = "virtual" THEN ps[1].alloc ELSE ps[1].size
             /\ Contents(v, q.name, q.mode = "virtual") = SubSeq(all, 1, size)
             /\ Len(SubSeq(all, 1, size)) = size
             /\ SubSeq(all, 1, size) \in Seq(Int)
             /\ \A u \in 1..size : SubSeq(all, 1, size)[u] = all[u]
<1> DEFINE ps == Pieces(v, q.name)
           n == Len(ps)
           b == PieceAt(v, q)
           all == All(v, q)
           size == FileSize(v, q)
<1>1. /\ n \in Nat /\ 1 \in 1..n
      /\ all \in Seq(Int) /\ Len(all) = b[n + 1]
      /\ b \in [1..(n + 1) -> Nat] /\ b[1] = 0
      /\ \A j \in 1..n :
           /\ IsAttribute(ps[j])
           /\ Len(Allocated(ps[j])) \in Nat
           /\ b[j + 1] = b[j] + Len(Allocated(ps[j]))
  BY JoinedFacts
<1>2. ps # <<>> /\ IsStream(ps) /\ DOMAIN ps = 1..n
  BY PieceFacts DEF Served
<1>3. Len(all) \in Nat
  BY <1>1, LenProperties
<1>4. all = Joined(ps)
  BY DEF All
<1>5. ASSUME NEW j \in 1..n, ps[j].form = "resident"
      PROVE  /\ j = 1 /\ n = 1 /\ Len(ps[j].value) = size
             /\ Allocated(ps[j]) = ps[j].value /\ Len(all) = size
  <2>1. n = 1 /\ j = 1
    BY <1>2, <1>5 DEF IsStream
  <2>2. Allocated(ps[j]) = ps[j].value
    BY <1>5 DEF Allocated
  <2>3. size = Len(ps[j].value)
    BY <1>5, <2>1 DEF FileSize, SizeOf
  <2>4. Len(all) = Len(Allocated(ps[j]))
    BY <1>1, <2>1
  <2> QED BY <2>1, <2>2, <2>3, <2>4
<1>6. ASSUME ps[1].form = "runs"
      PROVE  /\ ps[1].alloc = Len(all) /\ ps[1].size \in Nat /\ ps[1].size <= ps[1].alloc
             /\ size = IF q.mode = "virtual" THEN ps[1].alloc ELSE ps[1].size
  <2>1. ps[1].alloc = Len(all) /\ ps[1].size <= ps[1].alloc
    BY <1>2, <1>4, <1>6 DEF IsStream
  <2>2. ps[1].size \in Nat
    BY <1>1, <1>6 DEF IsAttribute
  <2>3. size = IF q.mode = "virtual" THEN ps[1].alloc ELSE ps[1].size
    BY <1>6 DEF FileSize, SizeOf
  <2> QED BY <2>1, <2>2, <2>3
<1>7. size \in Nat /\ size <= Len(all)
  <2>1. ps[1].form \in {"runs", "resident"}
    BY <1>1 DEF IsAttribute
  <2> HIDE DEF ps, all, size, n
  <2> QED BY <1>1, <1>3, <1>5, <1>6, <2>1
<1>8. Contents(v, q.name, q.mode = "virtual") = SubSeq(all, 1, size)
  BY <1>2 DEF Contents, All, FileSize
<1>9. /\ SubSeq(all, 1, size) \in Seq(Int) /\ Len(SubSeq(all, 1, size)) = size
      /\ \A u \in 1..size : SubSeq(all, 1, size)[u] = all[u]
  <2> HIDE DEF all, size, n, b, ps
  <2>1. \A i \in 1..size : i \in 1..Len(all) /\ all[i] \in Int
    <3>1. \A i \in 1..size : i \in 1..Len(all)
      BY <1>3, <1>7
    <3> QED BY <1>1, <3>1, ElementOfSeq
  <2>2. size \in Int /\ 1 \in Int
    BY <1>7
  <2>3. /\ SubSeq(all, 1, size) \in Seq(Int)
        /\ Len(SubSeq(all, 1, size)) = IF 1 <= size THEN size - 1 + 1 ELSE 0
        /\ \A i \in 1..(size - 1 + 1) : SubSeq(all, 1, size)[i] = all[1 + i - 1]
    BY <2>1, <2>2, SubSeqProperties
  <2>4. Len(SubSeq(all, 1, size)) = size
    BY <1>7, <2>3
  <2>5. ASSUME NEW u \in 1..size PROVE SubSeq(all, 1, size)[u] = all[u]
    <3>1. u \in 1..(size - 1 + 1) /\ 1 + u - 1 = u
      BY <1>7
    <3> QED BY <2>3, <3>1
  <2> QED BY <2>3, <2>4, <2>5
<1> QED BY <1>3, <1>5, <1>6, <1>7, <1>8, <1>9

(* An extent, in the whole stream. *)
LEMMA ExtentFacts ==
  ASSUME NEW v \in Volumes, NEW q, Served(v, q),
         NEW m \in 1..Len(Pieces(v, q.name)), Pieces(v, q.name)[m].form = "runs"
  PROVE  LET a == Pieces(v, q.name)[m]  n == Len(a.extents)  all == All(v, q)
             b == PieceAt(v, q)  x == ExtentAt(a)
         IN  /\ Laid(a) /\ n \in Nat /\ DOMAIN a.extents = 1..n
             /\ b[m] \in Nat /\ x[1] = 0 /\ b[m + 1] = b[m] + x[n + 1]
             /\ b[m + 1] <= Len(all)
             /\ \A r \in 1..(n + 1) : x[r] \in Nat
             /\ \A r \in 1..n :
                  LET e == a.extents[r]
                  IN  /\ e \in Extent /\ e.len * Cluster \in Nat
                      /\ LengthOf(a, e) \in Nat
                      /\ x[r + 1] = x[r] + LengthOf(a, e)
                      /\ b[m] + x[r + 1] <= Len(all)
                      /\ \A u \in 1..LengthOf(a, e) :
                           all[b[m] + x[r] + u] = Parts(a)[r][u]
                      /\ e.kind = "data" => \A u \in 1..LengthOf(a, e) :
                           all[b[m] + x[r] + u] = e.at * Cluster + u - 1
                      /\ e.kind = "hole" => \A u \in 1..LengthOf(a, e) :
                           all[b[m] + x[r] + u] = Zero
                      /\ e.kind = "packed" => /\ Parts(a)[r] = Unpacked(e.at)
                                              /\ Len(Unpacked(e.at)) = LengthOf(a, e)
                                              /\ Unpacked(e.at) \in Seq(Int)
<1> DEFINE ps == Pieces(v, q.name)
           a == ps[m]
           n == Len(a.extents)
           all == All(v, q)
           b == PieceAt(v, q)
           x == ExtentAt(a)
           whole == Allocated(a)
<1>1. all \in Seq(Int)
  BY JoinedFacts
<1>2. /\ Laid(a) /\ b[m] \in Nat
      /\ b[m + 1] = b[m] + Len(whole) /\ b[m + 1] <= Len(all)
      /\ \A u \in 1..Len(whole) : all[b[m] + u] = whole[u]
  <2>1. /\ Laid(a) /\ b[m] \in Nat
        /\ b[m + 1] = b[m] + Len(whole) /\ b[m + 1] <= Len(all)
    BY PieceIsPart
  <2>2. \A u \in 1..Len(whole) : all[b[m] + u] = whole[u]
    BY PieceIsPart
  <2> QED BY <2>1, <2>2
<1> HIDE DEF b, all, ps
<1>3. /\ Len(whole) = x[n + 1]
      /\ n \in Nat /\ DOMAIN a.extents = 1..n
      /\ x \in [1..(n + 1) -> Nat] /\ x[1] = 0
      /\ \A j \in 1..n :
           /\ x[j + 1] = x[j] + LengthOf(a, a.extents[j])
           /\ LengthOf(a, a.extents[j]) \in Nat
           /\ x[j + 1] <= Len(whole)
           /\ \A u \in 1..LengthOf(a, a.extents[j]) :
                /\ x[j] + u \in 1..Len(whole)
                /\ whole[x[j] + u] = Parts(a)[j][u]
  BY <1>2, AllocatedFacts
<1>4. \A j \in 1..n :
         LET e == a.extents[j]  p == Parts(a)[j]
         IN  /\ e \in Extent /\ e.len * Cluster \in Nat
             /\ p \in Seq(Int) /\ Len(p) = LengthOf(a, e)
             /\ e.kind = "data" => \A u \in 1..Len(p) : p[u] = e.at * Cluster + u - 1
             /\ e.kind = "hole" => \A u \in 1..Len(p) : p[u] = Zero
             /\ e.kind = "packed" => p = Unpacked(e.at)
  <2>1. Laid(a)
    BY <1>2
  <2> HIDE DEF a
  <2>2. ASSUME NEW j \in DOMAIN a.extents
        PROVE  LET e == a.extents[j]  p == Parts(a)[j]
               IN  /\ e \in Extent /\ e.len * Cluster \in Nat
                   /\ p \in Seq(Int) /\ Len(p) = LengthOf(a, e)
                   /\ e.kind = "data" => \A u \in 1..Len(p) : p[u] = e.at * Cluster + u - 1
                   /\ e.kind = "hole" => \A u \in 1..Len(p) : p[u] = Zero
                   /\ e.kind = "packed" => p = Unpacked(e.at)
    <3> DEFINE e == a.extents[j]
               p == Parts(a)[j]
    <3>1. /\ e \in Extent /\ e.len * Cluster \in Nat
          /\ p \in Seq(Int) /\ Len(p) = LengthOf(a, e)
          /\ e.kind = "packed" => p = Unpacked(e.at)
      BY <2>1, PartFacts
    <3>2. /\ e.kind = "data" => \A u \in 1..Len(p) : p[u] = e.at * Cluster + u - 1
          /\ e.kind = "hole" => \A u \in 1..Len(p) : p[u] = Zero
      BY <2>1, PartFacts
    <3> HIDE DEF e, p
    <3> QED BY <3>1, <3>2 DEF e, p
  <2> QED BY <2>2, <1>3
<1> HIDE DEF a, n, x, whole
<1>5. ASSUME NEW r \in 1..n
      PROVE  LET e == a.extents[r]
             IN  /\ b[m] + x[r + 1] <= Len(all)
                 /\ \A u \in 1..LengthOf(a, e) :
                      all[b[m] + x[r] + u] = Parts(a)[r][u]
  <2>1. r \in 1..(n + 1) /\ r + 1 \in 1..(n + 1)
    BY <1>3
  <2>2. x[r] \in Nat /\ x[r + 1] \in Nat /\ x[r + 1] <= Len(whole)
    BY <1>3, <2>1
  <2>3. Len(all) \in Nat /\ Len(whole) \in Nat
    BY <1>1, <1>3, LenProperties
  <2>4. b[m] + x[r + 1] <= Len(all)
    BY <1>2, <2>2, <2>3
  <2>5. ASSUME NEW u \in 1..LengthOf(a, a.extents[r])
        PROVE  all[b[m] + x[r] + u] = Parts(a)[r][u]
    <3>1. x[r] + u \in 1..Len(whole) /\ whole[x[r] + u] = Parts(a)[r][u]
      BY <1>3
    <3>2. all[b[m] + (x[r] + u)] = whole[x[r] + u]
      BY <1>2, <3>1
    <3>3. b[m] + (x[r] + u) = b[m] + x[r] + u
      <4> DEFINE g == b[m]  h == x[r]
      <4>1. g \in Int
        BY <1>2
      <4>2. h \in Int
        BY <2>2
      <4>3. u \in Int
        OBVIOUS
      <4> HIDE DEF g, h
      <4>4. g + (h + u) = g + h + u
        BY <4>1, <4>2, <4>3
      <4> QED BY <4>4 DEF g, h
    <3> QED BY <3>1, <3>2, <3>3
  <2> QED BY <2>4, <2>5
<1>6. \A r \in 1..n : LET e == a.extents[r]
                      IN /\ e.kind = "data" => \A u \in 1..LengthOf(a, e) :
                              all[b[m] + x[r] + u] = e.at * Cluster + u - 1
                         /\ e.kind = "hole" => \A u \in 1..LengthOf(a, e) :
                              all[b[m] + x[r] + u] = Zero
                         /\ e.kind = "packed" => /\ Parts(a)[r] = Unpacked(e.at)
                                                 /\ Len(Unpacked(e.at)) = LengthOf(a, e)
                                                 /\ Unpacked(e.at) \in Seq(Int)
  <2> TAKE r \in 1..n
  <2> DEFINE e == a.extents[r]
             p == Parts(a)[r]
             L == LengthOf(a, e)
             o == b[m] + x[r]
  <2>1. /\ p \in Seq(Int) /\ Len(p) = L
        /\ e.kind = "packed" => p = Unpacked(e.at)
    BY <1>4
  <2>2. /\ e.kind = "data" => \A u \in 1..Len(p) : p[u] = e.at * Cluster + u - 1
        /\ e.kind = "hole" => \A u \in 1..Len(p) : p[u] = Zero
    BY <1>4
  <2>3. \A u \in 1..L : all[o + u] = p[u]
    BY <1>5
  <2> HIDE DEF e, p, L, o
  <2>4. /\ e.kind = "data" => \A u \in 1..L : all[o + u] = e.at * Cluster + u - 1
        /\ e.kind = "hole" => \A u \in 1..L : all[o + u] = Zero
    BY <2>1, <2>2, <2>3
  <2>5. e.kind = "packed" => /\ p = Unpacked(e.at) /\ Len(Unpacked(e.at)) = L
                             /\ Unpacked(e.at) \in Seq(Int)
    BY <2>1
  <2> QED BY <2>4, <2>5 DEF e, p, L, o
<1>7. \A r \in 1..(n + 1) : x[r] \in Nat
  BY <1>3
<1> QED BY <1>2, <1>3, <1>4, <1>5, <1>6, <1>7 DEF ps, a, n, all, b, x, whole

(* One of its extents. *)
LEMMA ExtentIsPart ==
  ASSUME NEW v \in Volumes, NEW q, Served(v, q),
         NEW m \in 1..Len(Pieces(v, q.name)), Pieces(v, q.name)[m].form = "runs",
         NEW r \in 1..Len(Pieces(v, q.name)[m].extents)
  PROVE  LET a == Pieces(v, q.name)[m]  e == a.extents[r]  all == All(v, q)
             b == PieceAt(v, q)  x == ExtentAt(a)
         IN  /\ e \in Extent /\ e.len * Cluster \in Nat
             /\ b[m] \in Nat /\ x[r] \in Nat
             /\ x[r + 1] = x[r] + LengthOf(a, e) /\ b[m] + x[r + 1] <= Len(all)
             /\ e.kind = "data" => \A u \in 1..LengthOf(a, e) :
                  all[b[m] + x[r] + u] = e.at * Cluster + u - 1
             /\ e.kind = "hole" => \A u \in 1..LengthOf(a, e) :
                  all[b[m] + x[r] + u] = Zero
<1> DEFINE a == Pieces(v, q.name)[m]
           e == a.extents[r]
           all == All(v, q)
           b == PieceAt(v, q)
           x == ExtentAt(a)
<1>1. b[m] \in Nat /\ Len(a.extents) \in Nat
      /\ \A i \in 1..(Len(a.extents) + 1) : x[i] \in Nat
  BY ExtentFacts
<1>2. e \in Extent /\ e.len * Cluster \in Nat
  BY ExtentFacts
<1>3. x[r + 1] = x[r] + LengthOf(a, e) /\ b[m] + x[r + 1] <= Len(all)
  BY ExtentFacts
<1>4. e.kind = "data" => \A u \in 1..LengthOf(a, e) :
         all[b[m] + x[r] + u] = e.at * Cluster + u - 1
  BY ExtentFacts
<1>5. e.kind = "hole" => \A u \in 1..LengthOf(a, e) : all[b[m] + x[r] + u] = Zero
  BY ExtentFacts
<1>6. x[r] \in Nat
  <2>1. r \in 1..Len(a.extents)
    OBVIOUS
  <2> HIDE DEF a, x
  <2>2. r \in 1..(Len(a.extents) + 1)
    BY <1>1, <2>1
  <2> QED BY <1>1, <2>2
<1> QED BY <1>1, <1>2, <1>3, <1>4, <1>5, <1>6

(* What a stream was asked for never changes, and what it may count on     *)
(* depends on nothing else.                                                *)
Alike(s, t) == t.mode = s.mode /\ t.name = s.name /\ t.skip = s.skip

LEMMA AlikeFacts ==
  ASSUME NEW v, NEW s, NEW t, Alike(s, t)
  PROVE  /\ Served(v, s) <=> Served(v, t)
         /\ Whole(v, s) <=> Whole(v, t)
         /\ All(v, t) = All(v, s) /\ FileSize(v, t) = FileSize(v, s)
         /\ PieceAt(v, t) = PieceAt(v, s) /\ (Copied(t) <=> Copied(s))
<1>1. t.mode = s.mode /\ t.name = s.name /\ t.skip = s.skip
  BY DEF Alike
<1>2. Copied(t) <=> Copied(s)
  BY <1>1 DEF Copied
<1>3. \A a : HolesServed(a, t) <=> HolesServed(a, s)
  BY <1>1, <1>2 DEF HolesServed
<1>4. \A ps, j : LayoutServed(ps, j, t) <=> LayoutServed(ps, j, s)
  <2>1. ASSUME NEW ps, NEW j
        PROVE  LayoutServed(ps, j, t) <=> LayoutServed(ps, j, s)
    <3>1. (j = 1 /\ HolesServed(ps[j], t)) = (j = 1 /\ HolesServed(ps[j], s))
      BY <1>3
    <3>2. (IF Copied(t) THEN 1 ELSE Block) = (IF Copied(s) THEN 1 ELSE Block)
      BY <1>2
    <3>3. PlainLayout(ps[j], IF Copied(t) THEN 1 ELSE Block, j = 1 /\ HolesServed(ps[j], t))
          <=> PlainLayout(ps[j], IF Copied(s) THEN 1 ELSE Block, j = 1 /\ HolesServed(ps[j], s))
      BY <3>1, <3>2 DEF PlainLayout
    <3> QED BY <1>1, <1>2, <3>3 DEF LayoutServed
  <2> QED BY <2>1
<1>5. Served(v, s) <=> Served(v, t)
  BY <1>1, <1>4 DEF Served
<1>6. Whole(v, s) <=> Whole(v, t)
  BY <1>1 DEF Whole
<1> QED BY <1>1, <1>2, <1>5, <1>6 DEF All, FileSize, PieceAt

-----------------------------------------------------------------------------
(* The attributes a stream comes to.                                       *)
LEMMA VisitedFacts ==
  ASSUME NEW v \in Volumes, NEW name
  PROVE  LET vs == Visited(v, name)  list == v[Base].list  H == Holders(v, name)
         IN  /\ Len(vs) \in Nat /\ DOMAIN vs = 1..Len(vs)
             /\ Len(list) \in Nat /\ DOMAIN list = 1..Len(list)
             /\ list \in Seq([name : STRING, rec : DOMAIN v])
             /\ H \in SUBSET (1..Len(list)) /\ Cardinality(H) \in Nat
             /\ HasStream(v[Base], name) =>
                  Len(vs) = 1 /\ vs[1] = Find(v[Base], name)
             /\ ~HasStream(v[Base], name) =>
                  /\ Len(vs) = Cardinality(H)
                  /\ \A j \in H : /\ UpTo(H, j) \in 1..Len(vs)
                                  /\ vs[UpTo(H, j)] = Find(v[list[j].rec], name)
<1> DEFINE vs == Visited(v, name)
           list == v[Base].list
           H == Holders(v, name)
           es == Picked(list, H)
<1>1. Len(list) \in Nat /\ DOMAIN list = 1..Len(list)
      /\ list \in Seq([name : STRING, rec : DOMAIN v])
  BY ListFacts
<1>2. H \in SUBSET (1..Len(list)) /\ H \in SUBSET DOMAIN list
  BY <1>1 DEF Holders
<1>3. /\ Cardinality(H) \in Nat /\ Len(es) = Cardinality(H)
      /\ DOMAIN es = 1..Cardinality(H)
  <2> HIDE DEF H, list
  <2> QED BY <1>1, <1>2, PickedFacts
<1>4. CASE HasStream(v[Base], name)
  <2>1. vs = <<Find(v[Base], name)>>
    BY <1>4 DEF Visited
  <2> QED BY <1>1, <1>2, <1>3, <1>4, <2>1
<1>5. CASE ~HasStream(v[Base], name)
  <2>1. vs = [j \in DOMAIN es |-> Find(v[es[j].rec], name)]
    BY <1>5 DEF Visited, Holders
  <2>2. Len(vs) = Cardinality(H) /\ DOMAIN vs = 1..Len(vs)
    <3> HIDE DEF es, H
    <3> QED BY <1>3, <2>1
  <2>3. ASSUME NEW j \in H
        PROVE  /\ UpTo(H, j) \in 1..Cardinality(H)
               /\ vs[UpTo(H, j)] = Find(v[list[j].rec], name)
    <3>1. UpTo(H, j) \in 1..Cardinality(H) /\ Nth(H, UpTo(H, j)) = j
      <4> HIDE DEF H, list
      <4> QED BY <1>1, <1>2, NthFacts
    <3>2. es[UpTo(H, j)] = list[j]
      <4> HIDE DEF H, list
      <4> QED BY <3>1 DEF Picked
    <3> DEFINE u == UpTo(H, j)
    <3>3. u \in DOMAIN es
      BY <1>3, <3>1
    <3> HIDE DEF es, H, vs, u
    <3>4. vs[u] = Find(v[es[u].rec], name)
      BY <2>1, <3>3
    <3>5. es[u] = list[j]
      BY <3>2 DEF u
    <3>6. vs[u] = Find(v[list[j].rec], name)
      BY <3>4, <3>5
    <3> QED BY <3>1, <3>6 DEF u
  <2> HIDE DEF vs, H, list
  <2> QED BY <1>1, <1>2, <1>3, <1>5, <2>2, <2>3 DEF vs, H, list
<1> QED BY <1>4, <1>5

(* How many attributes a stream has begun: never more than it comes to. *)
LEMMA BegunFacts ==
  ASSUME NEW v \in Volumes, NEW s \in Stream(v), ListInv(v, s),
         s.mode # "data", s.pc \in Running
  PROVE  LET m == Begun(v, s)  vs == Visited(v, s.name)
         IN  /\ m \in Nat /\ m <= Len(vs) /\ Len(vs) \in Nat
             /\ s.pc \in InAttr => m >= 1 /\ s.attr = vs[m]
             /\ s.pc = "next" /\ s.entries = <<>> => m = Len(vs)
             /\ s.pc = "enter" /\ HasStream(v[s.rec], s.name) =>
                  m + 1 <= Len(vs) /\ vs[m + 1] = Find(v[s.rec], s.name)
<1> DEFINE m == Begun(v, s)
           vs == Visited(v, s.name)
           list == v[Base].list
           H == Holders(v, s.name)
           j == Taken(v, s)
<1>1. /\ Len(vs) \in Nat
      /\ Len(list) \in Nat /\ DOMAIN list = 1..Len(list)
      /\ list \in Seq([name : STRING, rec : DOMAIN v])
      /\ H \in SUBSET (1..Len(list)) /\ Cardinality(H) \in Nat
      /\ HasStream(v[Base], s.name) =>
           Len(vs) = 1 /\ vs[1] = Find(v[Base], s.name)
      /\ ~HasStream(v[Base], s.name) =>
           /\ Len(vs) = Cardinality(H)
           /\ \A h \in H : /\ UpTo(H, h) \in 1..Len(vs)
                           /\ vs[UpTo(H, h)] = Find(v[list[h].rec], s.name)
  BY VisitedFacts
<1>2. /\ HasStream(v[Base], s.name) => m = IF s.pc = "enter" THEN 0 ELSE 1
      /\ ~HasStream(v[Base], s.name) =>
           m = IF s.pc = "enter" /\ s.rec = Base THEN 0
               ELSE IF s.pc = "enter" THEN UpTo(H, j - 1) ELSE UpTo(H, j)
  BY DEF Begun
<1>3. s.pc \in InAttr => HasStream(v[s.rec], s.name) /\ s.attr = Find(v[s.rec], s.name)
  BY DEF ListInv
<1>4. HasStream(v[Base], s.name) => s.entries = <<>> /\ s.rec = Base
  BY DEF ListInv
<1>5. ~HasStream(v[Base], s.name) /\ ~(s.pc = "enter" /\ s.rec = Base) =>
        /\ j \in 0..Len(list) /\ s.entries = SubSeq(list, j + 1, Len(list))
        /\ s.pc \in {"enter"} \cup InAttr =>
             j \in 1..Len(list) /\ s.rec = list[j].rec /\ s.rec # Base
  BY DEF ListInv
<1>6. /\ UpTo(H, 0) = 0 /\ UpTo(H, Len(list)) = Cardinality(H)
      /\ \A i \in 0..Len(list) : UpTo(H, i) \in Nat /\ UpTo(H, i) <= Cardinality(H)
      /\ \A i \in 1..Len(list) : UpTo(H, i) = UpTo(H, i - 1) + (IF i \in H THEN 1 ELSE 0)
  <2> HIDE DEF H, list
  <2> QED BY <1>1, UpToFacts
<1>7. \A h \in 1..Len(list) : h \in H <=> list[h].rec # Base /\ HasStream(v[list[h].rec], s.name)
  BY <1>1 DEF Holders
<1>8. s.pc \in InAttr => s.pc # "enter" /\ s.pc # "next"
  BY DEF InAttr
<1>9. j = Len(list) - Len(s.entries)
  BY DEF Taken
<1> HIDE DEF m, vs, list, H, j
<1>10. CASE HasStream(v[Base], s.name)
  <2>1. m \in {0, 1} /\ Len(vs) = 1 /\ (s.pc # "enter" => m = 1) /\ (s.pc = "enter" => m = 0)
    BY <1>1, <1>2, <1>10
  <2>2. s.pc = "enter" /\ HasStream(v[s.rec], s.name) =>
          m + 1 <= Len(vs) /\ vs[m + 1] = Find(v[s.rec], s.name)
    BY <1>1, <1>4, <1>10, <2>1
  <2>3. s.pc \in InAttr => m >= 1 /\ s.attr = vs[m]
    BY <1>1, <1>3, <1>4, <1>8, <1>10, <2>1
  <2> QED BY <2>1, <2>2, <2>3 DEF m, vs
<1>11. CASE ~HasStream(v[Base], s.name) /\ s.pc = "enter" /\ s.rec = Base
  <2>1. m = 0
    BY <1>2, <1>11
  <2> QED BY <1>1, <1>8, <1>11, <2>1 DEF m, vs
<1>12. CASE ~HasStream(v[Base], s.name) /\ s.pc = "enter" /\ s.rec # Base
  <2>1. m = UpTo(H, j - 1) /\ j \in 1..Len(list) /\ s.rec = list[j].rec
    BY <1>2, <1>5, <1>12
  <2>2. j - 1 \in 0..Len(list)
    BY <1>1, <2>1
  <2>3. m \in Nat /\ m <= Len(vs)
    BY <1>1, <1>6, <1>12, <2>1, <2>2
  <2>4. HasStream(v[s.rec], s.name) =>
          m + 1 <= Len(vs) /\ vs[m + 1] = Find(v[s.rec], s.name)
    <3>1. ASSUME HasStream(v[s.rec], s.name)
          PROVE  m + 1 <= Len(vs) /\ vs[m + 1] = Find(v[s.rec], s.name)
      <4>1. j \in H
        BY <1>7, <1>12, <2>1, <3>1
      <4>2. UpTo(H, j) = m + 1
        BY <1>6, <2>1, <4>1
      <4>3. UpTo(H, j) \in 1..Len(vs) /\ vs[UpTo(H, j)] = Find(v[list[j].rec], s.name)
        BY <1>1, <1>12, <4>1
      <4> QED BY <1>1, <2>1, <4>2, <4>3
    <3> QED BY <3>1
  <2> QED BY <1>1, <1>8, <1>12, <2>3, <2>4 DEF m, vs
<1>13. CASE ~HasStream(v[Base], s.name) /\ s.pc # "enter"
  <2>1. m = UpTo(H, j) /\ j \in 0..Len(list) /\ s.entries = SubSeq(list, j + 1, Len(list))
    BY <1>2, <1>5, <1>13
  <2>2. m \in Nat /\ m <= Len(vs)
    BY <1>1, <1>6, <1>13, <2>1
  <2>3. s.pc \in InAttr => m >= 1 /\ s.attr = vs[m]
    <3>1. ASSUME s.pc \in InAttr PROVE m >= 1 /\ s.attr = vs[m]
      <4>1. j \in 1..Len(list) /\ s.rec = list[j].rec /\ s.rec # Base
        BY <1>5, <1>13, <3>1
      <4>2. j \in H
        BY <1>3, <1>7, <3>1, <4>1
      <4>3. UpTo(H, j) \in 1..Len(vs) /\ vs[UpTo(H, j)] = Find(v[list[j].rec], s.name)
        BY <1>1, <1>13, <4>2
      <4> QED BY <1>1, <1>3, <2>1, <3>1, <4>1, <4>3
    <3> QED BY <3>1
  <2>4. s.entries = <<>> => m = Len(vs)
    <3>1. ASSUME s.entries = <<>> PROVE m = Len(vs)
      <4>1. Len(s.entries) = 0
        BY <3>1
      <4>2. j = Len(list)
        BY <1>1, <1>9, <4>1
      <4> QED BY <1>1, <1>6, <1>13, <2>1, <4>2
    <3> QED BY <3>1
  <2> QED BY <1>1, <1>13, <2>2, <2>3, <2>4 DEF m, vs
<1> QED BY <1>10, <1>11, <1>12, <1>13

-----------------------------------------------------------------------------
(* The list, step by step.                                                 *)
(* A stream goes on in its attribute, or leaves it. *)
LEMMA ListStays ==
  ASSUME NEW v, NEW s, NEW t, Alike(s, t), ListInv(v, s), s.mode # "data",
         s.pc \in InAttr, t.pc \in InAttr \cup {"next"},
         t.rec = s.rec, t.entries = s.entries, t.pc \in InAttr => t.attr = s.attr
  PROVE  ListInv(v, t) /\ Begun(v, t) = Begun(v, s)
<1>1. s.pc # "enter" /\ t.pc # "enter" /\ s.pc \in Running
  BY DEF InAttr, Running
<1>2. Holders(v, t.name) = Holders(v, s.name) /\ Taken(v, t) = Taken(v, s)
  BY DEF Alike, Taken
<1>3. Begun(v, t) = Begun(v, s)
  BY <1>1, <1>2 DEF Begun, Alike
<1>4. IF HasStream(v[Base], s.name)
      THEN s.entries = <<>> /\ s.rec = Base
      ELSE LET list == v[Base].list  j == Taken(v, s)
           IN  /\ j \in 0..Len(list) /\ s.entries = SubSeq(list, j + 1, Len(list))
               /\ j \in 1..Len(list) /\ s.rec = list[j].rec /\ s.rec # Base
  BY <1>1 DEF ListInv
<1>5. HasStream(v[s.rec], s.name) /\ s.attr = Find(v[s.rec], s.name)
  BY <1>1 DEF ListInv
<1>6. ListInv(v, t)
  BY <1>1, <1>2, <1>4, <1>5 DEF ListInv, Alike
<1> QED BY <1>3, <1>6

(* It comes to a record that holds the stream. *)
LEMMA ListEnters ==
  ASSUME NEW v \in Volumes, NEW s, NEW t, Alike(s, t), ListInv(v, s), s.mode # "data",
         s.pc = "enter", HasStream(v[s.rec], s.name), t.pc \in InAttr \cup {"next"},
         t.rec = s.rec, t.entries = s.entries,
         t.pc \in InAttr => t.attr = Find(v[s.rec], s.name)
  PROVE  ListInv(v, t) /\ Begun(v, t) = Begun(v, s) + 1
<1> DEFINE list == v[Base].list
           H == Holders(v, s.name)
           j == Taken(v, s)
<1>1. t.pc # "enter" /\ s.pc \in Running /\ t.mode = s.mode /\ t.name = s.name
  BY DEF InAttr, Running, Alike
<1>2. Holders(v, t.name) = H /\ Taken(v, t) = j
  BY <1>1 DEF Taken
<1>3. CASE HasStream(v[Base], s.name)
  <2>1. s.entries = <<>> /\ s.rec = Base
    BY <1>1, <1>3 DEF ListInv
  <2>2. ListInv(v, t)
    BY <1>1, <1>3, <2>1 DEF ListInv
  <2>3. Begun(v, s) = 0 /\ Begun(v, t) = 1
    BY <1>1, <1>3 DEF Begun
  <2> QED BY <2>2, <2>3
<1>4. CASE ~HasStream(v[Base], s.name)
  <2>1. s.rec # Base
    BY <1>4
  <2>2. /\ j \in 1..Len(list) /\ s.entries = SubSeq(list, j + 1, Len(list))
        /\ s.rec = list[j].rec
    BY <1>1, <1>4, <2>1 DEF ListInv
  <2>3. Len(list) \in Nat /\ DOMAIN list = 1..Len(list) /\ H \in SUBSET (1..Len(list))
    BY VisitedFacts
  <2>4. j \in H
    BY <2>1, <2>2, <2>3 DEF Holders
  <2>5. UpTo(H, j) = UpTo(H, j - 1) + 1
    <3> HIDE DEF H, list, j
    <3>1. \A i \in 1..Len(list) : UpTo(H, i) = UpTo(H, i - 1) + (IF i \in H THEN 1 ELSE 0)
      BY <2>3, UpToFacts
    <3> QED BY <2>2, <2>4, <3>1
  <2>6. Begun(v, s) = UpTo(H, j - 1) /\ Begun(v, t) = UpTo(H, j)
    BY <1>1, <1>2, <1>4, <2>1 DEF Begun
  <2>7. ListInv(v, t)
    <3>1. j \in 0..Len(list)
      BY <2>2, <2>3
    <3> HIDE DEF list, j
    <3> QED BY <1>1, <1>2, <1>4, <2>1, <2>2, <3>1 DEF ListInv, list
  <2> QED BY <2>5, <2>6, <2>7
<1> QED BY <1>3, <1>4

(* Or to one that does not. *)
LEMMA ListPasses ==
  ASSUME NEW v \in Volumes, NEW s, NEW t, Alike(s, t), ListInv(v, s), s.mode # "data",
         s.pc = "enter", ~HasStream(v[s.rec], s.name), t.pc = "next", t.rec = s.rec,
         t.entries = IF s.rec = Base THEN v[Base].list ELSE s.entries
  PROVE  ListInv(v, t) /\ Begun(v, t) = Begun(v, s)
<1> DEFINE list == v[Base].list
           H == Holders(v, s.name)
           j == Taken(v, s)
<1>1. s.pc \in Running /\ t.pc \notin InAttr /\ t.mode = s.mode /\ t.name = s.name
  BY DEF InAttr, Running, Alike
<1>2. ~HasStream(v[Base], s.name)
  BY <1>1 DEF ListInv
<1>3. /\ Len(list) \in Nat /\ DOMAIN list = 1..Len(list) /\ H \in SUBSET (1..Len(list))
      /\ list \in Seq([name : STRING, rec : DOMAIN v])
  BY VisitedFacts
<1>4. UpTo(H, 0) = 0
  <2> HIDE DEF H, list
  <2> QED BY <1>3, UpToFacts
<1>5. CASE s.rec = Base
  <2>1. Taken(v, t) = 0
    BY <1>3, <1>5 DEF Taken
  <2>2. SubSeq(list, 1, Len(list)) = list
    <3> HIDE DEF list
    <3> QED BY <1>3
  <2>3. ListInv(v, t)
    <3> HIDE DEF list
    <3> QED BY <1>1, <1>2, <1>3, <1>5, <2>1, <2>2 DEF ListInv, list
  <2>4. Begun(v, s) = 0 /\ Begun(v, t) = UpTo(H, 0)
    BY <1>1, <1>2, <1>5, <2>1 DEF Begun
  <2> QED BY <1>4, <2>3, <2>4
<1>6. CASE s.rec # Base
  <2>1. Taken(v, t) = j
    BY <1>6 DEF Taken
  <2>2. /\ j \in 1..Len(list) /\ s.entries = SubSeq(list, j + 1, Len(list))
        /\ s.rec = list[j].rec
    BY <1>1, <1>2, <1>6 DEF ListInv
  <2>3. j \notin H
    BY <2>2 DEF Holders
  <2>4. UpTo(H, j) = UpTo(H, j - 1) + 0 /\ UpTo(H, j - 1) \in Nat
    <3> HIDE DEF H, list, j
    <3>1. /\ \A i \in 1..Len(list) : UpTo(H, i) = UpTo(H, i - 1) + (IF i \in H THEN 1 ELSE 0)
          /\ \A i \in 0..Len(list) : UpTo(H, i) \in Nat
      BY <1>3, UpToFacts
    <3>2. j - 1 \in 0..Len(list)
      BY <1>3, <2>2
    <3> QED BY <2>2, <2>3, <3>1, <3>2
  <2>5. ListInv(v, t)
    <3>1. j \in 0..Len(list)
      BY <1>3, <2>2
    <3> HIDE DEF list, j
    <3> QED BY <1>1, <1>2, <1>6, <2>1, <2>2, <3>1 DEF ListInv, list
  <2>6. Begun(v, s) = UpTo(H, j - 1) /\ Begun(v, t) = UpTo(H, j)
    BY <1>1, <1>2, <1>6, <2>1 DEF Begun
  <2> QED BY <2>4, <2>5, <2>6
<1> QED BY <1>5, <1>6

(* It takes the next entry. *)
LEMMA ListTakes ==
  ASSUME NEW v \in Volumes, NEW s, NEW t, Alike(s, t), ListInv(v, s), s.mode # "data",
         s.pc = "next", s.entries # <<>>, t.entries = Tail(s.entries),
         \/ Head(s.entries).rec = Base /\ t.pc = "next" /\ t.rec = s.rec
         \/ /\ Head(s.entries).rec # Base
            /\ t.pc = "enter" /\ t.rec = Head(s.entries).rec
  PROVE  ListInv(v, t) /\ Begun(v, t) = Begun(v, s)
<1> DEFINE list == v[Base].list
           H == Holders(v, s.name)
           j == Taken(v, s)
<1>1. s.pc \in Running /\ t.pc \notin InAttr /\ t.mode = s.mode /\ t.name = s.name
  BY DEF InAttr, Running, Alike
<1>2. ~HasStream(v[Base], s.name)
  BY <1>1 DEF ListInv
<1>3. /\ Len(list) \in Nat /\ DOMAIN list = 1..Len(list) /\ H \in SUBSET (1..Len(list))
      /\ list \in Seq([name : STRING, rec : DOMAIN v])
  BY VisitedFacts
<1>4. j \in 0..Len(list) /\ s.entries = SubSeq(list, j + 1, Len(list))
  BY <1>1, <1>2 DEF ListInv
<1> HIDE DEF list
<1>5. j < Len(list) /\ j + 1 \in 1..Len(list)
  <2> HIDE DEF j
  <2> QED BY <1>3, <1>4
<1>6. /\ Head(s.entries) = list[j + 1]
      /\ Tail(s.entries) = SubSeq(list, (j + 1) + 1, Len(list))
      /\ Len(Tail(s.entries)) = Len(list) - (j + 1)
  <2> HIDE DEF j
  <2>1. Len(s.entries) = Len(list) - j
    BY <1>3, <1>4, <1>5
  <2> QED BY <1>3, <1>4, <1>5, <2>1
<1>7. Taken(v, t) = j + 1
  <2> DEFINE left == Len(t.entries)
             all == Len(list)
  <2>1. Taken(v, t) = all - left
    BY DEF Taken, list
  <2>2. left = all - (j + 1)
    BY <1>6
  <2> HIDE DEF j, left, all
  <2>3. j \in Int /\ all \in Int
    BY <1>3, <1>4 DEF all
  <2> QED BY <2>1, <2>2, <2>3
<1>8. /\ UpTo(H, j + 1) = UpTo(H, j) + (IF j + 1 \in H THEN 1 ELSE 0)
      /\ UpTo(H, j) \in Nat
  <2> HIDE DEF H, j
  <2>1. j \in Int
    BY <1>4, <1>3
  <2>2. (j + 1) - 1 = j
    BY <2>1
  <2>3. /\ \A i \in 1..Len(list) : UpTo(H, i) = UpTo(H, i - 1) + (IF i \in H THEN 1 ELSE 0)
        /\ \A i \in 0..Len(list) : UpTo(H, i) \in Nat
    BY <1>3, UpToFacts
  <2> QED BY <1>4, <1>5, <2>2, <2>3
<1>9. Begun(v, s) = UpTo(H, j)
  BY <1>1, <1>2 DEF Begun
<1>10. CASE list[j + 1].rec = Base
  <2>1. t.pc = "next" /\ t.rec = s.rec
    BY <1>6, <1>10
  <2>2. j + 1 \notin H
    BY <1>10 DEF Holders, list
  <2>3. Begun(v, t) = UpTo(H, j + 1)
    BY <1>1, <1>2, <1>7, <2>1 DEF Begun
  <2>4. ListInv(v, t)
    <3>1. j + 1 \in 0..Len(list)
      BY <1>5
    <3> HIDE DEF j
    <3> QED BY <1>1, <1>2, <1>6, <1>7, <2>1, <3>1 DEF ListInv, list
  <2> QED BY <1>8, <1>9, <2>2, <2>3, <2>4
<1>11. CASE list[j + 1].rec # Base
  <2>1. t.pc = "enter" /\ t.rec = list[j + 1].rec
    BY <1>6, <1>11
  <2>2. Begun(v, t) = UpTo(H, (j + 1) - 1)
    BY <1>1, <1>2, <1>7, <1>11, <2>1 DEF Begun
  <2>3. (j + 1) - 1 = j
    <3> HIDE DEF j
    <3> QED BY <1>3, <1>4
  <2>4. ListInv(v, t)
    <3>1. j + 1 \in 0..Len(list)
      BY <1>5
    <3> HIDE DEF j
    <3> QED BY <1>1, <1>2, <1>5, <1>6, <1>7, <1>11, <2>1, <3>1 DEF ListInv, list
  <2> QED BY <1>9, <2>2, <2>3, <2>4
<1> QED BY <1>10, <1>11

(* A stream packed in units, extent by extent. *)
LEMMA PackedFacts ==
  ASSUME NEW a, Laid(a), a.packed, NEW j \in DOMAIN a.extents
  PROVE  LET e == a.extents[j]
         IN  /\ e.kind = "packed" => e.at # 0 /\ e.len < Unit
             /\ e.kind = "data" => e.at # 0 /\ e.len > Unit
             /\ e.kind = "hole" => j > 1 /\ a.extents[j - 1].kind = "packed"
<1> DEFINE e == a.extents[j]
<1>1. LET f == a.extents[j]
      IN  CASE f.kind = "packed" -> /\ f.at # 0 /\ f.len < Unit /\ j < Len(a.extents)
                                    /\ a.extents[j + 1].kind = "hole"
                                    /\ a.extents[j + 1].len = Unit - f.len
            [] f.kind = "data"   -> f.at # 0 /\ f.len > Unit
            [] f.kind = "hole"   -> j > 1 /\ a.extents[j - 1].kind = "packed"
  BY DEF Laid, PackedLayout
<1> HIDE DEF e
<1> QED BY <1>1 DEF e

-----------------------------------------------------------------------------
(* An empty file has no blocks. *)
LEMMA EmptyFacts ==
  ASSUME NEW v \in Volumes, NEW q, Served(v, q), ~Copied(q), FileSize(v, q) = 0,
         q.mode \in {"process", "virtual", "data"},
         NEW j \in 1..Len(Pieces(v, q.name))
  PROVE  LET a == Pieces(v, q.name)[j]
         IN  /\ a.form = "runs" => a.extents = <<>>
             /\ a.form = "resident" => a.value = <<>>
<1> DEFINE ps == Pieces(v, q.name)
           all == All(v, q)
           b == PieceAt(v, q)
           a == ps[j]
<1>1. q.mode \in {"process", "virtual"} /\ j \in 1..Len(ps)
  BY DEF Copied
<1>2. /\ 1 \in 1..Len(ps) /\ IsAttribute(ps[1])
      /\ IsAttribute(a) /\ (a.form = "runs" => Laid(a))
      /\ Len(Allocated(a)) \in Nat /\ b[j] \in Nat
      /\ b[j + 1] = b[j] + Len(Allocated(a)) /\ b[j + 1] <= Len(all)
  <2>1. 1 \in 1..Len(ps)
    BY JoinedFacts
  <2>2. IsAttribute(ps[1])
    BY <2>1, PieceIsPart
  <2>3. IsAttribute(a) /\ (a.form = "runs" => Laid(a)) /\ Len(Allocated(a)) \in Nat
    BY PieceIsPart
  <2>4. b[j] \in Nat /\ b[j + 1] = b[j] + Len(Allocated(a)) /\ b[j + 1] <= Len(all)
    BY PieceIsPart
  <2> QED BY <2>1, <2>2, <2>3, <2>4
<1>3. /\ Len(all) \in Nat
      /\ ps[j].form = "resident" =>
           /\ Len(ps[j].value) = FileSize(v, q) /\ Len(all) = FileSize(v, q)
      /\ ps[1].form = "resident" => Len(all) = FileSize(v, q)
      /\ ps[1].form = "runs" =>
           /\ ps[1].alloc = Len(all)
           /\ FileSize(v, q) = IF q.mode = "virtual" THEN ps[1].alloc ELSE ps[1].size
  <2> HIDE DEF ps, all
  <2> QED BY <1>2, FileFacts DEF ps, all
<1>4. ps[1].form \in {"resident", "runs"} /\ IsAttribute(a)
  <2> HIDE DEF ps, a
  <2> QED BY <1>2 DEF IsAttribute
<1>5. q.mode = "process" /\ ps[1].form = "runs" /\ ps[1].size = 0 => ps[1].alloc = 0
  BY DEF Served
<1>6. Len(all) = 0
  <2> HIDE DEF ps, all
  <2> QED BY <1>1, <1>3, <1>4, <1>5
<1>7. Len(Allocated(a)) = 0
  <2> HIDE DEF ps, all, b, a
  <2> QED BY <1>2, <1>6
<1>8. a.form = "resident" => a.value = <<>>
  <2>1. a.form = "resident" => Len(a.value) = 0 /\ a.value \in Seq(Int)
    BY <1>3, <1>4 DEF IsAttribute
  <2> HIDE DEF a
  <2> QED BY <2>1
<1>9. ASSUME a.form = "runs", a.extents # <<>> PROVE FALSE
  <2> DEFINE x == ExtentAt(a)
             n == Len(a.extents)
             e == a.extents[1]
  <2>1. Laid(a)
    BY <1>2, <1>9
  <2> HIDE DEF a
  <2>2. /\ n \in Nat /\ DOMAIN a.extents = 1..n /\ x[1] = 0
        /\ \A i \in 1..n : x[i + 1] = x[i] + LengthOf(a, a.extents[i])
                           /\ x[i + 1] <= Len(Allocated(a))
    BY <2>1, AllocatedFacts
  <2>3. a.extents \in Seq(Extent)
    BY <2>1 DEF Laid, IsAttribute
  <2>4. 1 \in 1..n
    BY <1>9, <2>2, <2>3
  <2>5. x[2] = LengthOf(a, e) /\ x[2] <= 0
    <3>1. x[1 + 1] = x[1] + LengthOf(a, e) /\ x[1 + 1] <= Len(Allocated(a))
      BY <2>2, <2>4
    <3>2. LengthOf(a, e) \in Nat
      BY <2>1, <2>4, <2>2, PartFacts
    <3> HIDE DEF x, e
    <3> QED BY <1>7, <2>2, <3>1, <3>2
  <2>6. e.len \in Nat \ {0} /\ Cluster \in Nat \ {0} /\ Unit \in Nat \ {0}
    <3>1. e \in Extent
      BY <2>3, <2>4, ElementOfSeq
    <3> HIDE DEF e
    <3> QED BY <3>1, FileAssumption DEF Extent
  <2>7. a.packed => e.kind # "hole"
    <3>1. 1 \in DOMAIN a.extents
      BY <2>2, <2>4
    <3> HIDE DEF x, e, n
    <3> QED BY <2>1, <3>1, PackedFacts DEF e
  <2>8. e.len * Cluster > 0 /\ Unit * Cluster > 0
    <3> HIDE DEF e
    <3>1. e.len * 1 <= e.len * Cluster /\ Unit * 1 <= Unit * Cluster
      BY <2>6, TimesGrows
    <3>2. e.len * Cluster \in Nat /\ Unit * Cluster \in Nat
      BY <2>6
    <3> QED BY <2>6, <3>1, <3>2
  <2> DEFINE y == e.len * Cluster  z == Unit * Cluster
  <2>9. LengthOf(a, e) = IF e.kind = "packed" THEN z
                         ELSE IF e.kind = "hole" /\ a.packed THEN 0 ELSE y
    BY DEF LengthOf
  <2>10. y > 0 /\ z > 0
    BY <2>8
  <2> HIDE DEF e, x, y, z
  <2>11. LengthOf(a, e) > 0
    BY <2>7, <2>9, <2>10
  <2>12. LengthOf(a, e) <= 0
    BY <2>5
  <2>13. LengthOf(a, e) \in Nat
    BY <2>1, <2>4, <2>2, PartFacts DEF e
  <2> QED BY <2>11, <2>12, <2>13
<1> QED BY <1>8, <1>9

-----------------------------------------------------------------------------
(* A block is handed on. *)
Grown(x, y) == y = x \/ (Len(x) < Len(y) /\ SubSeq(y, 1, Len(x)) = x)

LEMMA YieldAdds ==
  ASSUME NEW v, NEW u \in Stream(v), NEW data \in Seq(Int)
  PROVE  LET t == Yielded(u, data)
             n == IF u.check /\ Len(data) > u.left THEN u.left ELSE Len(data)
         IN  /\ Grown(u.out, t.out) /\ t.trust = u.trust /\ Alike(u, t)
             /\ t.i = u.i /\ t.rbs = u.rbs /\ t.written = u.written /\ t.last = u.last
             /\ n \in 0..Len(data) /\ Len(data) \in Nat /\ (u.check => n <= u.left)
             /\ Len(u.out) \in Nat /\ u.left \in Nat
             /\ Len(t.out) = Len(u.out) + n
             /\ u.check => t.left = u.left - n
             /\ \A i \in 1..Len(u.out) : t.out[i] = u.out[i]
             /\ \A i \in 1..n : t.out[Len(u.out) + i] = data[i]
<1> DEFINE n == IF u.check /\ Len(data) > u.left THEN u.left ELSE Len(data)
           part == SubSeq(data, 1, n)
           cut == u.out \o part
           rest == IF u.check THEN u.left - n ELSE u.left
           t == Yielded(u, data)
<1>1. u.out \in Seq(Int) /\ u.left \in Nat /\ u.check \in BOOLEAN
  BY DEF Stream
<1>2. Len(data) \in Nat /\ \A i \in 1..Len(data) : data[i] \in Int
  BY LenProperties, ElementOfSeq
<1>3. n \in Nat /\ n <= Len(data) /\ (u.check => n <= u.left)
  BY <1>1, <1>2
<1>4. t = [u EXCEPT !.out = cut, !.left = rest]
  BY DEF Yielded
<1> HIDE DEF n
<1>5. part \in Seq(Int) /\ Len(part) = n /\ \A i \in 1..n : part[i] = data[i]
  <2>1. \A i \in 1..n : data[i] \in Int
    BY <1>2, <1>3
  <2>2. n \in Int /\ 1 \in Int
    BY <1>3
  <2>3. /\ SubSeq(data, 1, n) \in Seq(Int)
        /\ Len(SubSeq(data, 1, n)) = IF 1 <= n THEN n - 1 + 1 ELSE 0
        /\ \A i \in 1..(n - 1 + 1) : SubSeq(data, 1, n)[i] = data[1 + i - 1]
    BY <2>1, <2>2, SubSeqProperties
  <2>4. n - 1 + 1 = n /\ \A i \in 1..n : 1 + i - 1 = i
    BY <1>3
  <2> QED BY <1>3, <2>3, <2>4
<1> HIDE DEF part
<1>6. /\ cut \in Seq(Int) /\ Len(cut) = Len(u.out) + n /\ Len(u.out) \in Nat
      /\ \A i \in 1..Len(u.out) : cut[i] = u.out[i]
      /\ \A i \in 1..n : cut[Len(u.out) + i] = part[i]
  <2> DEFINE x == u.out
  <2>1. x \in Seq(Int)
    BY <1>1
  <2> HIDE DEF x
  <2>2. /\ x \o part \in Seq(Int) /\ Len(x \o part) = Len(x) + n /\ Len(x) \in Nat
        /\ \A i \in 1..(Len(x) + n) :
             (x \o part)[i] = IF i <= Len(x) THEN x[i] ELSE part[i - Len(x)]
    BY <1>5, <2>1, ConcatProperties, LenProperties
  <2>3. \A i \in 1..Len(x) : (x \o part)[i] = x[i]
    BY <1>3, <2>2
  <2>4. \A i \in 1..n : (x \o part)[Len(x) + i] = part[i]
    <3>1. ASSUME NEW i \in 1..n PROVE (x \o part)[Len(x) + i] = part[i]
      <4>1. /\ Len(x) + i \in 1..(Len(x) + n) /\ ~(Len(x) + i <= Len(x))
            /\ (Len(x) + i) - Len(x) = i
        BY <1>3, <2>2
      <4> QED BY <2>2, <4>1
    <3> QED BY <3>1
  <2> QED BY <2>2, <2>3, <2>4 DEF x
<1> HIDE DEF cut
<1>7. Grown(u.out, cut)
  <2>1. CASE n = 0
    <3>1. cut = u.out
      <4>1. Len(cut) = Len(u.out) /\ DOMAIN cut = DOMAIN u.out
        BY <1>1, <1>6, <2>1, LenProperties
      <4>2. \A i \in 1..Len(u.out) : cut[i] = u.out[i]
        BY <1>6
      <4> QED BY <1>1, <1>6, <4>1, <4>2, SeqEqual
    <3> QED BY <3>1 DEF Grown
  <2>2. CASE n # 0
    <3>1. Len(u.out) < Len(cut) /\ Len(cut) \in Nat
      BY <1>3, <1>6, <2>2
    <3>2. SubSeq(cut, 1, Len(u.out)) = u.out
      <4> DEFINE x == u.out  m == Len(x)
      <4>1. x \in Seq(Int) /\ m \in Nat /\ m < Len(cut)
        BY <1>1, <1>6, <3>1
      <4>2. \A i \in 1..m : cut[i] = x[i]
        BY <1>6
      <4>3. \A i \in 1..m : cut[i] \in Int
        <5> HIDE DEF x, m
        <5> QED BY <1>6, <3>1, <4>1, ElementOfSeq
      <4>4. /\ SubSeq(cut, 1, m) \in Seq(Int)
            /\ Len(SubSeq(cut, 1, m)) = IF 1 <= m THEN m - 1 + 1 ELSE 0
            /\ \A i \in 1..(m - 1 + 1) : SubSeq(cut, 1, m)[i] = cut[1 + i - 1]
        <5>1. m \in Int /\ 1 \in Int
          BY <4>1
        <5> HIDE DEF x, m
        <5> QED BY <4>3, <5>1, SubSeqProperties
      <4>5. m - 1 + 1 = m /\ \A i \in 1..m : 1 + i - 1 = i
        <5> HIDE DEF x, m
        <5> QED BY <4>1
      <4>6. Len(SubSeq(cut, 1, m)) = m /\ \A i \in 1..m : SubSeq(cut, 1, m)[i] = x[i]
        <5> HIDE DEF x, m
        <5> QED BY <4>1, <4>2, <4>4, <4>5
      <4> QED BY <4>1, <4>4, <4>6, SeqEqual
    <3> QED BY <3>1, <3>2 DEF Grown
  <2> QED BY <2>1, <2>2
<1>8. /\ t.trust = u.trust /\ Alike(u, t)
      /\ t.i = u.i /\ t.rbs = u.rbs /\ t.written = u.written /\ t.last = u.last
      /\ t.out = cut /\ t.left = rest
  <2> HIDE DEF rest, t
  <2> QED BY <1>4 DEF Stream, Alike
<1>9. u.check => t.left = u.left - n
  BY <1>8
<1> QED BY <1>1, <1>2, <1>3, <1>5, <1>6, <1>7, <1>8, <1>9 DEF t, n

-----------------------------------------------------------------------------
(* The runs as they are decoded.                                           *)
LEMMA OffsetFacts ==
  ASSUME NEW a, Laid(a), NEW j \in DOMAIN a.extents
  PROVE  LET o == Decoded(a)[j].offset
         IN  /\ a.extents[j].kind # "hole" => o = a.extents[j].at
             /\ a.extents[j].kind = "hole" =>
                  o = IF j = 1 THEN 0 ELSE Decoded(a)[j - 1].offset
             /\ o = 0 \/ \E i \in 1..j : /\ a.extents[i].kind # "hole"
                                         /\ o = a.extents[i].at
<1> DEFINE P(i) == {h \in 1..i : a.extents[h].kind # "hole"}
           d == Decoded(a)
<1>1. DOMAIN a.extents = 1..Len(a.extents) /\ Len(a.extents) \in Nat
  BY RunFacts DEF Laid
<1>2. ASSUME NEW i \in DOMAIN a.extents
      PROVE  d[i].offset = IF P(i) = {} THEN 0 ELSE a.extents[Max(P(i))].at
  BY DEF Decoded
<1>3. j \in Nat /\ j >= 1 /\ j <= Len(a.extents)
  BY <1>1
<1>4. ASSUME P(j) # {} PROVE Max(P(j)) \in P(j) /\ \A h \in P(j) : h <= Max(P(j))
  <2>1. P(j) \in SUBSET (0..j) /\ j \in Nat
    BY <1>3
  <2> HIDE DEF P
  <2> QED BY <1>4, <2>1, MaxIsGreatest
<1> HIDE DEF d
<1>5. d[j].offset = IF P(j) = {} THEN 0 ELSE a.extents[Max(P(j))].at
  BY <1>2
<1>6. d[j].offset = 0 \/ \E i \in 1..j : a.extents[i].kind # "hole" /\ d[j].offset = a.extents[i].at
  <2>1. CASE P(j) = {}
    BY <1>5, <2>1
  <2>2. CASE P(j) # {}
    <3>1. Max(P(j)) \in P(j)
      BY <1>4, <2>2
    <3> DEFINE i == Max(P(j))
    <3>2. i \in 1..j /\ a.extents[i].kind # "hole"
      BY <3>1
    <3>3. d[j].offset = a.extents[i].at
      BY <1>5, <2>2
    <3> QED BY <3>2, <3>3
  <2> QED BY <2>1, <2>2
<1>7. ASSUME a.extents[j].kind # "hole" PROVE d[j].offset = a.extents[j].at
  <2>1. j \in P(j)
    BY <1>3, <1>7
  <2>2. Max(P(j)) \in P(j) /\ j <= Max(P(j))
    <3> HIDE DEF P
    <3> QED BY <1>4, <2>1
  <2>3. Max(P(j)) \in 1..j
    BY <2>2
  <2>4. Max(P(j)) = j
    <3> DEFINE i == Max(P(j))
    <3>1. i \in 1..j /\ j <= i
      BY <2>2, <2>3
    <3> HIDE DEF i
    <3>2. i = j
      BY <1>3, <3>1
    <3> QED BY <3>2 DEF i
  <2> QED BY <1>5, <2>1, <2>4
<1>8. ASSUME a.extents[j].kind = "hole"
      PROVE  d[j].offset = IF j = 1 THEN 0 ELSE d[j - 1].offset
  <2>1. CASE j = 1
    <3>1. P(j) = {}
      BY <1>8, <2>1
    <3> QED BY <1>5, <2>1, <3>1
  <2>2. CASE j # 1
    <3>1. P(j) = P(j - 1)
      <4>1. \A h \in 1..j : h = j \/ h \in 1..(j - 1)
        BY <1>3
      <4>2. \A h \in 1..(j - 1) : h \in 1..j
        BY <1>3
      <4> QED BY <1>8, <4>1, <4>2
    <3>2. j - 1 \in DOMAIN a.extents
      BY <1>1, <1>3, <2>2
    <3>3. d[j - 1].offset = IF P(j - 1) = {} THEN 0 ELSE a.extents[Max(P(j - 1))].at
      BY <1>2, <3>2
    <3> HIDE DEF P
    <3> QED BY <1>5, <2>2, <3>1, <3>3
  <2> QED BY <2>1, <2>2
<1> QED BY <1>6, <1>7, <1>8 DEF d

(* In a packed stream the padding, and only that, is not where it would    *)
(* have to be told from what is before it.                                 *)
LEMMA PackedOffsets ==
  ASSUME NEW a, Laid(a), a.packed, NEW j \in DOMAIN a.extents
  PROVE  LET last == IF j = 1 THEN 0 ELSE Decoded(a)[j - 1].offset
         IN  Decoded(a)[j].offset = last <=> a.extents[j].kind = "hole"
<1> DEFINE last == IF j = 1 THEN 0 ELSE Decoded(a)[j - 1].offset
           e == a.extents[j]
<1>1. DOMAIN a.extents = 1..Len(a.extents) /\ Len(a.extents) \in Nat
      /\ a.extents \in Seq(Extent)
  BY RunFacts DEF Laid
<1>2. j \in Nat /\ j >= 1 /\ e \in Extent
  BY <1>1, ElementOfSeq
<1>3. e.kind = "hole" => Decoded(a)[j].offset = last
  BY OffsetFacts
<1>4. ASSUME e.kind # "hole" PROVE Decoded(a)[j].offset # last
  <2>1. Decoded(a)[j].offset = e.at
    BY <1>4, OffsetFacts
  <2>2. e.at # 0 /\ e.kind \in {"data", "packed"}
    <3>1. e.kind \in {"data", "packed", "hole"}
      <4> HIDE DEF e
      <4> QED BY <1>2 DEF Extent
    <3> QED BY <1>4, <3>1, PackedFacts
  <2>3. CASE j = 1
    BY <2>1, <2>2, <2>3
  <2>4. CASE j # 1
    <3>1. j - 1 \in DOMAIN a.extents
      BY <1>1, <1>2, <2>4
    <3>2. last = 0 \/ \E i \in 1..(j - 1) : /\ a.extents[i].kind # "hole"
                                            /\ last = a.extents[i].at
      BY <2>4, <3>1, OffsetFacts
    <3>3. ASSUME NEW i \in 1..(j - 1), a.extents[i].kind # "hole"
          PROVE  a.extents[i].at # e.at
      <4> DEFINE f == a.extents[i]
      <4>1. i \in DOMAIN a.extents /\ i # j
        BY <1>1, <1>2
      <4>2. f \in Extent
        BY <1>1, <4>1, ElementOfSeq
      <4>3. "hole" \notin {f.kind, e.kind}
        BY <1>4, <3>3
      <4>4. \A p, q \in DOMAIN a.extents :
              p # q /\ "hole" \notin {a.extents[p].kind, a.extents[q].kind} =>
                Apart(a.extents[p], a.extents[q])
        BY DEF Laid, IsAttribute
      <4>5. Apart(f, e)
        BY <4>1, <4>3, <4>4
      <4> HIDE DEF f, e
      <4>6. f.at \in Nat /\ f.len \in Nat \ {0} /\ e.at \in Nat /\ e.len \in Nat \ {0}
        BY <1>2, <4>2 DEF Extent
      <4>7. f.at # e.at
        BY <4>5, <4>6 DEF Apart
      <4> QED BY <4>7 DEF f
    <3> QED BY <2>1, <2>2, <3>2, <3>3
  <2> QED BY <2>3, <2>4
<1> QED BY <1>3, <1>4

-----------------------------------------------------------------------------
(* A stream that is where it should be, in a run. *)
LEMMA RunPlace ==
  ASSUME NEW v \in Volumes, NEW s \in Stream(v), NEW rd, Served(v, s), ~Copied(s),
         s.pc \in {"run", "hole", "blocks"}, PlaceInv(v, s), InPlace(v, rd, s)
  PROVE  LET a == s.attr  n == Len(a.extents)  all == All(v, s)
             b == PieceAt(v, s)  x == ExtentAt(a)  m == Begun(v, s)
         IN  /\ m \in 1..Len(Pieces(v, s.name)) /\ a = Pieces(v, s.name)[m]
             /\ Laid(a) /\ a.form = "runs" /\ n \in Nat /\ DOMAIN a.extents = 1..n
             /\ b[m] \in Nat /\ x[1] = 0 /\ b[m + 1] = b[m] + x[n + 1]
             /\ Len(s.out) = b[m] + InPiece(s) /\ InRun(rd, s)
             /\ Len(Runs(s)) = n
             /\ IF a.packed
                THEN s.mode = "process" /\ \A j \in 1..n : a.extents[j].len * Cluster < Word
                ELSE \A j \in 1..n :
                       IF a.extents[j].kind = "hole"
                       THEN /\ j = 1 /\ m = 1 /\ s.mode = "process" /\ a.size < Word
                            /\ (a.extents[j].len * Cluster) % Block = 0
                       ELSE a.extents[j].at # 0 /\ a.extents[j].kind = "data"
<1> DEFINE ps == Pieces(v, s.name)
           m == Begun(v, s)
           a == s.attr
           n == Len(a.extents)
<1>1. s.pc \in InAttr /\ s.pc \notin {"enter", "next"}
  BY DEF InAttr
<1>2. m <= Len(ps) /\ m >= 1 /\ a = ps[m] /\ InRun(rd, s)
      /\ Len(s.out) = PieceAt(v, s)[m] + InPiece(s)
  BY <1>1 DEF InPlace
<1>3. a.form = "runs"
  BY DEF PlaceInv
<1>4. Len(ps) \in Nat /\ DOMAIN ps = 1..Len(ps)
  BY JoinedFacts
<1>5. m \in Nat
  <2>1. UpTo(Holders(v, s.name), Taken(v, s)) \in Nat
    <3> DEFINE I == Holders(v, s.name) \cap 1..Taken(v, s)
    <3>1. IsFiniteSet(1..Len(v[Base].list))
      BY VisitedFacts, FS_Interval
    <3>2. I \subseteq 1..Len(v[Base].list)
      BY VisitedFacts
    <3>3. IsFiniteSet(I)
      BY <3>1, <3>2, FS_Subset
    <3>4. Cardinality(I) \in Nat
      BY <3>3, FS_CardinalityType
    <3> QED BY <3>4 DEF UpTo
  <2> QED BY <1>1, <2>1 DEF Begun
<1>6. m \in 1..Len(ps)
  <2> HIDE DEF m, ps
  <2> QED BY <1>2, <1>4, <1>5
<1>7. /\ Laid(a) /\ n \in Nat /\ DOMAIN a.extents = 1..n
      /\ PieceAt(v, s)[m] \in Nat /\ ExtentAt(a)[1] = 0
      /\ PieceAt(v, s)[m + 1] = PieceAt(v, s)[m] + ExtentAt(a)[n + 1]
  <2>1. ps[m].form = "runs"
    BY <1>2, <1>3
  <2> QED BY <1>2, <1>6, <2>1, ExtentFacts
<1>8. Len(Runs(s)) = n
  BY <1>7, RunFacts DEF Runs, Laid
<1>9. LayoutServed(ps, m, s)
  BY <1>4, <1>6 DEF Served
<1>10. IF a.packed
       THEN s.mode = "process" /\ \A j \in 1..n : a.extents[j].len * Cluster < Word
       ELSE PlainLayout(a, Block, m = 1 /\ HolesServed(a, s))
  BY <1>2, <1>3, <1>7, <1>9 DEF LayoutServed
<1>11. ASSUME ~a.packed, NEW j \in 1..n
       PROVE  IF a.extents[j].kind = "hole"
              THEN /\ j = 1 /\ m = 1 /\ s.mode = "process" /\ a.size < Word
                   /\ (a.extents[j].len * Cluster) % Block = 0
              ELSE a.extents[j].at # 0 /\ a.extents[j].kind = "data"
  <2>1. IF a.extents[j].kind = "hole"
        THEN j = 1 /\ m = 1 /\ HolesServed(a, s) /\ (a.extents[j].len * Cluster) % Block = 0
        ELSE a.extents[j].at # 0
    BY <1>7, <1>10, <1>11 DEF PlainLayout
  <2>2. HolesServed(a, s) => s.mode # "virtual" /\ a.size < Word
    BY DEF HolesServed
  <2>3. s.mode \in {"process", "virtual"}
    BY DEF Copied, Stream
  <2>4. a.extents[j].kind \in {"data", "packed", "hole"}
    <3>1. a.extents[j] \in Extent
      BY <1>7, PartFacts
    <3> QED BY <3>1 DEF Extent
  <2>5. a.extents[j].kind # "packed"
    BY <1>7, <1>11 DEF Laid, IsAttribute
  <2> QED BY <2>1, <2>2, <2>3, <2>4, <2>5
<1> QED BY <1>2, <1>3, <1>6, <1>7, <1>8, <1>10, <1>11

-----------------------------------------------------------------------------
(* One step of a stream, from what it was to what it is: what it was asked *)
(* for is the same, it hands out more or nothing, it is where it should be *)
(* again, and if it ends it has given what it says it has.                 *)
Endings == {"done", "threw", "null", "overflow", "overrun", "crashed"}
Advance(v, rd, s, t) ==
  /\ Alike(s, t) /\ (t.trust => s.trust) /\ s.pc \in Running
  /\ DataInv(v, rd, t)
  /\ \/ t.pc \in Running /\ Grown(s.out, t.out)
     \/ t.pc \in Endings /\ (t.trust => Whither(v, t))

(* What has been handed out is the beginning of what is read. *)
LEMMA PrefixFacts ==
  ASSUME NEW v \in Volumes, NEW rd, NEW s \in Stream(v), DataInv(v, rd, s), s.trust,
         s.pc \in Running
  PROVE  Served(v, s) /\ Beginning(FileAt(v, s), s.out)
<1>1. s.pc # "idle"
  BY DEF Running, InAttr
<1>2. Served(v, s) /\ s.mode \in {"process", "virtual", "data"} /\ s.out \in Seq(Int)
  BY <1>1 DEF DataInv, Stream
<1>3. CASE s.mode = "data"
  <2>1. s.pc = "attr"
    BY <1>3 DEF DataInv, Running, InAttr
  <2>2. s.out = <<>>
    BY <2>1 DEF DataInv, CopyInv
  <2>3. Len(FileAt(v, s)) \in Nat
    <3>1. FileAt(v, s) = SubSeq(All(v, s), 1, FileSize(v, s))
      BY <1>2, <1>3, FileFacts DEF FileAt
    <3>2. Len(SubSeq(All(v, s), 1, FileSize(v, s))) = FileSize(v, s) /\ FileSize(v, s) \in Nat
      BY <1>2, FileFacts
    <3> QED BY <3>1, <3>2
  <2>4. Len(s.out) = 0
    BY <2>2
  <2> HIDE DEF FileAt
  <2> QED BY <1>2, <2>3, <2>4 DEF Beginning
<1>4. CASE s.mode # "data" /\ s.name = "wof"
  BY <1>2, <1>4 DEF DataInv, WofInv, FileAt
<1>5. CASE s.mode # "data" /\ s.name # "wof"
  <2> DEFINE all == All(v, s)
             size == FileSize(v, s)
  <2>1. Blockwise(v, rd, s)
    BY <1>5 DEF DataInv, BlocksInv, Copied
  <2>2. Beginning(all, s.out) /\ Len(s.out) + s.left = size
    BY <2>1 DEF Blockwise
  <2>3. s.left \in Nat /\ Len(s.out) \in Nat
    BY <1>2, LenProperties DEF Stream
  <2>4. FileAt(v, s) = SubSeq(all, 1, size)
    BY <1>2, <1>5, FileFacts DEF FileAt
  <2>5. Len(SubSeq(all, 1, size)) = size /\ \A u \in 1..size : SubSeq(all, 1, size)[u] = all[u]
        /\ size \in Nat
    BY <1>2, FileFacts
  <2> HIDE DEF all, size
  <2>6. Len(s.out) <= size
    BY <2>2, <2>3, <2>5
  <2>7. \A u \in 1..Len(s.out) : u \in 1..size
    BY <2>3, <2>5, <2>6
  <2> QED BY <1>2, <2>2, <2>4, <2>5, <2>6, <2>7 DEF Beginning
<1> QED BY <1>3, <1>4, <1>5

(* Whatever it does, it may count on what it could, or on less. *)
LEMMA DataSame ==
  ASSUME NEW v, NEW rd, NEW s, NEW t, DataInv(v, rd, s), Alike(s, t),
         t.trust => s.trust, s.lost => t.lost, s.pc # "idle", t.pc # "idle"
  PROVE  /\ t.trust => Served(v, t) /\ Served(v, s)
         /\ ~t.lost => Whole(v, t)
<1>1. (t.trust => Served(v, s)) /\ (~t.lost => Whole(v, s))
  BY DEF DataInv
<1> QED BY <1>1, AlikeFacts

(* It ends with what it has handed out before. *)
LEMMA EndsAsItIs ==
  ASSUME NEW v \in Volumes, NEW rd, NEW rd2, NEW s \in Stream(v), NEW t,
         DataInv(v, rd, s), Alike(s, t), t.trust => s.trust, s.lost => t.lost,
         s.pc \in Running, t.pc \in Endings, t.out = s.out, t.pc # "done" \/ t.lost
  PROVE  Advance(v, rd2, s, t)
<1>1. s.pc # "idle" /\ t.pc # "idle" /\ t.pc \notin Running
  BY DEF Running, InAttr, Endings
<1>2. DataInv(v, rd2, t)
  <2>1. /\ t.trust => Served(v, t) /\ Served(v, s)
        /\ ~t.lost => Whole(v, t)
    BY <1>1, DataSame
  <2>2. t.pc \notin {"attr", "wof"}
    BY <1>1 DEF Running, InAttr
  <2> QED BY <1>1, <2>1, <2>2 DEF DataInv, ListInv, BlocksInv, CopyInv, WofInv
<1>3. t.trust => Whither(v, t)
  <2>1. ASSUME t.trust PROVE Whither(v, t)
    <3>1. Beginning(FileAt(v, s), s.out)
      BY <2>1, PrefixFacts
    <3>2. FileAt(v, t) = FileAt(v, s)
      BY DEF FileAt, Alike
    <3>3. Beginning(FileAt(v, t), t.out)
      BY <3>1, <3>2
    <3> QED BY <3>3 DEF Whither
  <2> QED BY <2>1
<1> QED BY <1>2, <1>3 DEF Advance

(* It goes on. *)
LEMMA Went ==
  ASSUME NEW v \in Volumes, NEW rd, NEW rd2, NEW s \in Stream(v), NEW t,
         DataInv(v, rd, s), Alike(s, t), t.trust => s.trust, s.lost => t.lost,
         s.pc \in Running, s.mode # "data",
         t.pc \in {"enter", "next", "resident", "run", "hole", "blocks"},
         Grown(s.out, t.out), ListInv(v, t),
         t.trust /\ ~Copied(s) => Blockwise(v, rd2, t), WofInv(v, t)
  PROVE  Advance(v, rd2, s, t)
<1>1. s.pc # "idle" /\ t.pc # "idle" /\ t.pc \in Running /\ t.pc \notin {"attr", "wof"}
  BY DEF Running, InAttr
<1>2. /\ t.trust => Served(v, t) /\ Served(v, s)
      /\ ~t.lost => Whole(v, t)
  BY <1>1, DataSame
<1>3. BlocksInv(v, rd2, t)
  BY AlikeFacts DEF BlocksInv
<1>4. CopyInv(v, t)
  BY <1>1 DEF CopyInv
<1>5. t.mode # "data"
  BY DEF Alike
<1>6. DataInv(v, rd2, t)
  BY <1>1, <1>2, <1>3, <1>4, <1>5 DEF DataInv
<1> QED BY <1>1, <1>6 DEF Advance

(* It goes on in an attribute, or leaves it. *)
LEMMA WentOn ==
  ASSUME NEW v \in Volumes, NEW rd, NEW rd2, NEW s \in Stream(v), NEW t,
         DataInv(v, rd, s), Alike(s, t), t.trust => s.trust, s.lost => t.lost,
         s.pc \in {"resident", "run", "hole", "blocks"},
         t.pc \in {"next", "resident", "run", "hole", "blocks"},
         t.rec = s.rec, t.entries = s.entries, t.attr = s.attr, Grown(s.out, t.out),
         t.trust /\ ~Copied(s) /\ Served(v, s) /\ Blockwise(v, rd, s)
           /\ Begun(v, t) = Begun(v, s) => Blockwise(v, rd2, t)
  PROVE  Advance(v, rd2, s, t)
<1>1. s.pc \in Running /\ s.pc \in InAttr /\ t.pc \in InAttr \cup {"next"} /\ s.pc # "idle"
      /\ t.pc # "idle"
  BY DEF Running, InAttr
<1>2. s.mode # "data"
  BY <1>1 DEF DataInv
<1>3. ListInv(v, t) /\ Begun(v, t) = Begun(v, s)
  BY <1>1, <1>2, ListStays DEF DataInv
<1>4. ASSUME t.trust, ~Copied(s) PROVE Blockwise(v, rd2, t)
  <2>1. Blockwise(v, rd, s)
    BY <1>1, <1>4 DEF DataInv, BlocksInv
  <2>2. Served(v, s)
    BY <1>1, <1>4, DataSame
  <2> QED BY <1>3, <1>4, <2>1, <2>2
<1>5. WofInv(v, t)
  <2>1. t.trust => ~(s.name = "wof" /\ s.mode # "data")
    BY <1>1 DEF DataInv, WofInv
  <2> QED BY <2>1 DEF WofInv, Alike
<1> QED BY <1>1, <1>2, <1>3, <1>4, <1>5, Went

(* A block handed on is the next of the file, cut at its end. *)
LEMMA Handed ==
  ASSUME NEW v \in Volumes, NEW rd, NEW s \in Stream(v), NEW u \in Stream(v),
         Served(v, s), Blockwise(v, rd, s), s.check, Alike(s, u),
         u.out = s.out, u.left = s.left, u.check = s.check, NEW data \in Seq(Int),
         s.left # 0 => \A i \in 1..Len(data) :
                         i <= s.left => data[i] = All(v, s)[Len(s.out) + i]
  PROVE  LET t == Yielded(u, data)
         IN  /\ Beginning(All(v, t), t.out)
             /\ Len(t.out) + t.left = FileSize(v, t)
             /\ t.left \in Nat
             /\ t.left = 0 \/ (s.left # 0 /\ Len(t.out) = Len(s.out) + Len(data))
<1> DEFINE t == Yielded(u, data)
           n == IF u.check /\ Len(data) > u.left THEN u.left ELSE Len(data)
           all == All(v, s)
           size == FileSize(v, s)
           o == Len(s.out)
<1>1. /\ Alike(u, t) /\ n \in 0..Len(data) /\ Len(data) \in Nat /\ n <= s.left
      /\ o \in Nat /\ s.left \in Nat /\ Len(t.out) = o + n /\ t.left = s.left - n
      /\ \A i \in 1..o : t.out[i] = s.out[i]
      /\ \A i \in 1..n : t.out[o + i] = data[i]
  <2>1. /\ Alike(u, t) /\ n \in 0..Len(data) /\ Len(data) \in Nat /\ n <= u.left
        /\ Len(u.out) \in Nat /\ u.left \in Nat
        /\ Len(t.out) = Len(u.out) + n /\ t.left = u.left - n
        /\ \A i \in 1..Len(u.out) : t.out[i] = u.out[i]
        /\ \A i \in 1..n : t.out[Len(u.out) + i] = data[i]
    BY YieldAdds
  <2> HIDE DEF t, n
  <2> QED BY <2>1
<1>2. Alike(s, t)
  BY <1>1 DEF Alike
<1>3. All(v, t) = all /\ FileSize(v, t) = size
  BY <1>2, AlikeFacts
<1>4. /\ Beginning(all, s.out) /\ o + s.left = size
  BY DEF Blockwise
<1>5. size \in Nat /\ size <= Len(all) /\ Len(all) \in Nat
  <2>1. s.mode \in {"process", "virtual", "data"}
    BY DEF Stream
  <2> QED BY <2>1, FileFacts
<1>6. n = IF Len(data) > s.left THEN s.left ELSE Len(data)
  BY DEF n
<1> HIDE DEF n, t, all, size
<1>7. Len(t.out) = o + n /\ o + n <= Len(all) /\ t.left \in Nat /\ (o + n) + t.left = size
  <2> DEFINE lt == Len(t.out)  la == Len(all)  tl == t.left  sl == s.left
  <2>1. /\ n \in Nat /\ n <= sl /\ o \in Nat /\ sl \in Nat
        /\ lt = o + n /\ tl = sl - n
    BY <1>1
  <2>2. o + sl = size /\ size \in Nat /\ size <= la /\ la \in Nat
    BY <1>4, <1>5
  <2> HIDE DEF o, lt, la, tl, sl
  <2>3. lt = o + n /\ o + n <= la /\ tl \in Nat /\ (o + n) + tl = size
    BY <2>1, <2>2
  <2> QED BY <2>3 DEF lt, la, tl
<1>8. \A i \in 1..(o + n) : t.out[i] = all[i]
  <2>1. ASSUME NEW i \in 1..(o + n) PROVE t.out[i] = all[i]
    <3>1. CASE i <= o
      <4>1. i \in 1..o
        BY <1>1, <3>1
      <4> QED BY <1>1, <1>4, <4>1 DEF Beginning
    <3>2. CASE i > o
      <4> DEFINE j == i - o
      <4>1. j \in 1..n /\ i = o + j
        <5> HIDE DEF o
        <5> QED BY <1>1, <3>2
      <4> HIDE DEF j
      <4>2. j \in 1..Len(data) /\ j <= s.left /\ s.left # 0
        BY <1>1, <4>1
      <4>3. data[j] = all[o + j]
        BY <4>2 DEF all
      <4> QED BY <1>1, <4>1, <4>3
    <3>3. i \in Int /\ o \in Int
      BY <1>1
    <3> QED BY <3>1, <3>2, <3>3
  <2> QED BY <2>1
<1>9. Beginning(all, t.out)
  BY <1>7, <1>8 DEF Beginning
<1>10. t.left = 0 \/ (s.left # 0 /\ Len(t.out) = o + Len(data))
  <2> HIDE DEF o
  <2>1. CASE n = s.left
    BY <1>1, <2>1
  <2>2. CASE n # s.left
    <3>1. n = Len(data) /\ s.left # 0
      BY <1>1, <1>6, <2>2
    <3> QED BY <1>1, <3>1
  <2> QED BY <2>1, <2>2
<1> QED BY <1>3, <1>7, <1>9, <1>10 DEF t

-----------------------------------------------------------------------------
(* The place of a stream in the attribute it is in. *)
LEMMA PlaceAgain ==
  ASSUME NEW v \in Volumes, NEW s \in Stream(v), NEW t, NEW rd, NEW rd2,
         Served(v, s), ~Copied(s), s.pc \in {"run", "hole", "blocks"},
         PlaceInv(v, s), InPlace(v, rd, s), Alike(s, t), t.attr = s.attr,
         Begun(v, t) = Begun(v, s), t.pc \in {"next", "run", "hole", "blocks"},
         LET b == PieceAt(v, s)  m == Begun(v, s)
         IN  IF t.pc = "next" THEN Len(t.out) = b[m + 1]
             ELSE /\ Len(t.out) = b[m] + InPiece(t) /\ InRun(rd2, t)
                  /\ t.pc = "hole" => m = 1
  PROVE  InPlace(v, rd2, t)
<1> DEFINE m == Begun(v, s)
           ps == Pieces(v, s.name)
<1>1. m \in 1..Len(ps) /\ s.attr = ps[m]
  BY RunPlace
<1>2. Len(ps) \in Nat
  BY JoinedFacts
<1>3. PieceAt(v, t) = PieceAt(v, s) /\ Pieces(v, t.name) = ps
  BY AlikeFacts DEF Alike
<1>4. CASE t.pc = "next"
  <2>1. InPiece(t) = 0 /\ t.pc \notin InAttr
    BY <1>4 DEF InPiece, InAttr
  <2>2. Len(t.out) = PieceAt(v, t)[Begun(v, t) + 1]
    BY <1>3, <1>4
  <2>3. PieceAt(v, t)[Begun(v, t) + 1] + 0 = PieceAt(v, t)[Begun(v, t) + 1]
    <3>1. PieceAt(v, s) \in [1..(Len(ps) + 1) -> Nat]
      BY JoinedFacts
    <3>2. m + 1 \in 1..(Len(ps) + 1)
      <4> HIDE DEF m, ps
      <4> QED BY <1>1, <1>2
    <3> HIDE DEF m, ps
    <3>3. PieceAt(v, s)[m + 1] \in Nat
      BY <3>1, <3>2
    <3> QED BY <1>3, <3>3 DEF m
  <2>4. m >= 1 /\ m <= Len(ps)
    <3> HIDE DEF m, ps
    <3> QED BY <1>1, <1>2
  <2> QED BY <1>3, <1>4, <2>1, <2>2, <2>3, <2>4 DEF InPlace
<1>5. CASE t.pc # "next"
  <2>1. t.pc \in InAttr
    BY <1>5 DEF InAttr
  <2>2. m >= 1 /\ m <= Len(ps)
    <3> HIDE DEF m, ps
    <3> QED BY <1>1, <1>2
  <2> QED BY <1>1, <1>3, <1>5, <2>1, <2>2 DEF InPlace
<1> QED BY <1>4, <1>5

(* It moves on without handing out anything. *)
LEMMA MovedOn ==
  ASSUME NEW v \in Volumes, NEW rd, NEW rd2, NEW s \in Stream(v), NEW t,
         DataInv(v, rd, s), PlaceInv(v, s), Alike(s, t), t.trust => s.trust,
         s.lost => t.lost,
         s.pc \in {"run", "hole", "blocks"}, t.pc \in {"next", "run", "hole", "blocks"},
         t.rec = s.rec, t.entries = s.entries, t.attr = s.attr,
         t.out = s.out, t.left = s.left, t.check = s.check,
         t.trust /\ ~Copied(s) /\ Served(v, s) /\ InPlace(v, rd, s) =>
           LET b == PieceAt(v, s)  m == Begun(v, s)
           IN  IF t.pc = "next" THEN Len(t.out) = b[m + 1]
               ELSE /\ Len(t.out) = b[m] + InPiece(t) /\ InRun(rd2, t)
                    /\ t.pc = "hole" => m = 1
  PROVE  Advance(v, rd2, s, t)
<1>1. ASSUME t.trust, ~Copied(s), Served(v, s), Blockwise(v, rd, s),
             Begun(v, t) = Begun(v, s)
      PROVE  Blockwise(v, rd2, t)
  <2>1. /\ Beginning(All(v, s), s.out) /\ Len(s.out) + s.left = FileSize(v, s)
        /\ s.check /\ (s.left = 0 \/ InPlace(v, rd, s))
    BY <1>1 DEF Blockwise
  <2>2. Beginning(All(v, t), t.out) /\ Len(t.out) + t.left = FileSize(v, t)
    BY <2>1, AlikeFacts
  <2>3. s.left = 0 \/ InPlace(v, rd2, t)
    BY <1>1, <2>1, PlaceAgain
  <2> QED BY <2>1, <2>2, <2>3 DEF Blockwise
<1>2. Grown(s.out, t.out)
  BY DEF Grown
<1> QED BY <1>1, <1>2, WentOn

-----------------------------------------------------------------------------
(* The steps of a stream. *)
Moves(c) ==
  /\ Advance(vol, reader', k[c], k'[c])
  /\ \A d \in Client \ {c} : \/ k'[d] = k[d] /\ reader' = reader
                             \/ k'[d] = Disturbed(k[d])

LEMMA KeepMoves ==
  ASSUME StreamInv, NEW c \in Client, NEW t, Keep(c, t), reader' = reader,
         Advance(vol, reader, k[c], t)
  PROVE  Moves(c)
<1>1. k \in [Client -> Stream(vol)]
  BY Now
<1>2. k'[c] = t /\ \A d \in Client \ {c} : k'[d] = k[d]
  BY <1>1 DEF Keep
<1> QED BY <1>2 DEF Moves

LEMMA TouchMoves ==
  ASSUME NEW c \in Client, NEW t, Touch(c, t), Advance(vol, reader', k[c], t)
  PROVE  Moves(c)
<1>1. k'[c] = t /\ \A d \in Client \ {c} : k'[d] = Disturbed(k[d])
  BY DEF Touch
<1> QED BY <1>1 DEF Moves

LEMMA RunsEndMoves ==
  ASSUME StreamInv, NEW c \in Client, DataInv(vol, reader, k[c]), RunsEnd(c)
  PROVE  Moves(c)
<1> DEFINE s == k[c]
           t == [s EXCEPT !.pc = "next"]
<1>1. /\ vol \in Volumes /\ s \in Stream(vol) /\ PlaceInv(vol, s)
      /\ s.pc = "run" /\ s.r > Len(Runs(s)) /\ reader' = reader /\ Keep(c, t)
  BY Now DEF RunsEnd
<1> HIDE DEF s
<1>2. /\ Alike(s, t) /\ t.trust = s.trust /\ t.lost = s.lost /\ t.pc = "next"
      /\ t.rec = s.rec /\ t.entries = s.entries /\ t.attr = s.attr
      /\ t.out = s.out /\ t.left = s.left /\ t.check = s.check
  BY <1>1 DEF Stream, Alike
<1> HIDE DEF t
<1>3. ASSUME ~Copied(s), Served(vol, s), InPlace(vol, reader, s)
      PROVE  Len(t.out) = PieceAt(vol, s)[Begun(vol, s) + 1]
  <2> DEFINE a == s.attr
             n == Len(a.extents)
             x == ExtentAt(a)
             b == PieceAt(vol, s)
             m == Begun(vol, s)
  <2>1. /\ n \in Nat /\ b[m + 1] = b[m] + x[n + 1] /\ Len(Runs(s)) = n
        /\ Len(s.out) = b[m] + InPiece(s) /\ InRun(reader, s)
    BY <1>1, <1>3, RunPlace
  <2>2. s.r \in 1..(n + 1) /\ InPiece(s) = x[s.r]
    BY <1>1, <2>1 DEF InRun, InPiece
  <2>3. s.r = n + 1
    BY <1>1, <2>1, <2>2
  <2> QED BY <1>2, <2>1, <2>2, <2>3
<1>4. Advance(vol, reader, s, t)
  BY <1>1, <1>2, <1>3, MovedOn DEF s
<1> QED BY <1>1, <1>4, KeepMoves DEF s

LEMMA HoleRunMoves ==
  ASSUME StreamInv, NEW c \in Client, DataInv(vol, reader, k[c]), HoleRun(c)
  PROVE  Moves(c)
<1> DEFINE s == k[c]
           t1 == [s EXCEPT !.r = s.r + 1]
           t2 == [s EXCEPT !.pc = "hole", !.i = 0]
           t == IF s.skip THEN t1 ELSE t2
<1>1. /\ vol \in Volumes /\ s \in Stream(vol) /\ PlaceInv(vol, s)
      /\ s.pc = "run" /\ reader' = reader /\ Keep(c, t) /\ ~s.attr.packed
      /\ s.r <= Len(Runs(s)) /\ Runs(s)[s.r].offset = 0
  BY Now DEF HoleRun, AtRun, Run
<1>2. /\ Alike(s, t) /\ t.trust = s.trust /\ t.lost = s.lost /\ t.pc \in {"run", "hole"}
      /\ t.rec = s.rec /\ t.entries = s.entries /\ t.attr = s.attr
      /\ t.out = s.out /\ t.left = s.left /\ t.check = s.check
      /\ ~s.skip => t.pc = "hole" /\ t.r = s.r /\ t.i = 0 /\ t.written = s.written
  <2> HIDE DEF s
  <2> QED BY <1>1 DEF Stream, Alike
<1>3. ASSUME ~Copied(s), Served(vol, s), InPlace(vol, reader, s)
      PROVE  LET b == PieceAt(vol, s)  m == Begun(vol, s)
             IN  /\ Len(t.out) = b[m] + InPiece(t) /\ InRun(reader, t)
                 /\ t.pc # "next" /\ m = 1
  <2> DEFINE a == s.attr
             n == Len(a.extents)
             x == ExtentAt(a)
             b == PieceAt(vol, s)
             m == Begun(vol, s)
             e == a.extents[s.r]
  <2> HIDE DEF s, t
  <2>1. /\ m \in 1..Len(Pieces(vol, s.name)) /\ a = Pieces(vol, s.name)[m]
        /\ Laid(a) /\ a.form = "runs" /\ n \in Nat /\ DOMAIN a.extents = 1..n
        /\ b[m] \in Nat /\ x[1] = 0 /\ Len(Runs(s)) = n
        /\ Len(s.out) = b[m] + InPiece(s) /\ InRun(reader, s)
    BY <1>1, <1>3, RunPlace
  <2>2. \A j \in 1..n :
          IF a.extents[j].kind = "hole"
          THEN /\ j = 1 /\ m = 1 /\ (a.extents[j].len * Cluster) % Block = 0
          ELSE a.extents[j].at # 0
    BY <1>1, <1>3, RunPlace
  <2>3. s.r \in 1..(n + 1) /\ InPiece(s) = x[s.r] /\ (s.r = 1 => s.written = 0)
    BY <1>1, <2>1 DEF InRun, InPiece
  <2>4. s.r \in 1..n
    BY <1>1, <2>1, <2>3
  <2>5. e.kind = "hole"
    <3>1. e.kind # "hole" => Decoded(a)[s.r].offset = e.at
      BY <2>1, <2>4, OffsetFacts
    <3> QED BY <1>1, <2>2, <2>4, <3>1 DEF Runs
  <2>6. s.r = 1 /\ m = 1 /\ (e.len * Cluster) % Block = 0
    BY <2>2, <2>4, <2>5
  <2>7. ~s.skip
    <3>1. s.skip => \A j \in DOMAIN Pieces(vol, s.name) :
             Pieces(vol, s.name)[j].form = "runs" =>
               \A i \in DOMAIN Pieces(vol, s.name)[j].extents :
                 Pieces(vol, s.name)[j].extents[i].kind # "hole"
      BY <1>3 DEF Served
    <3>2. DOMAIN Pieces(vol, s.name) = 1..Len(Pieces(vol, s.name))
      BY <1>1, <1>3, JoinedFacts
    <3> QED BY <2>1, <2>4, <2>5, <3>1, <3>2
  <2>8. InPiece(t) = 0 /\ InPiece(s) = 0
    <3>1. InPiece(t) = x[t.r] + t.i
      BY <1>2, <2>7 DEF InPiece
    <3> QED BY <1>2, <2>1, <2>3, <2>6, <2>7, <3>1
  <2>9. InRun(reader, t)
    <3>1. e.len * Cluster \in Nat
      BY <2>1, <2>4, PartFacts
    <3>2. 0 <= e.len * Cluster /\ 0 % Block = 0
      <4> DEFINE y == e.len * Cluster
      <4>1. y \in Nat
        BY <3>1
      <4> HIDE DEF y
      <4> QED BY <4>1, StreamAssumption DEF y
    <3> QED BY <1>2, <2>3, <2>5, <2>6, <2>7, <3>2 DEF InRun
  <2> QED BY <1>2, <2>1, <2>6, <2>8, <2>9
<1>4. Advance(vol, reader, s, t)
  <2> HIDE DEF s, t
  <2>1. DataInv(vol, reader, s)
    BY DEF s
  <2> QED BY <1>1, <1>2, <1>3, <2>1, MovedOn
<1> HIDE DEF t
<1> QED BY <1>1, <1>4, KeepMoves

(* What is in the file where a run begins. *)
LEMMA RunExtent ==
  ASSUME NEW v \in Volumes, NEW s \in Stream(v), NEW rd, Served(v, s), ~Copied(s),
         s.pc \in {"run", "hole", "blocks"}, PlaceInv(v, s), InPlace(v, rd, s),
         NEW j \in DOMAIN s.attr.extents
  PROVE  LET a == s.attr  e == a.extents[j]  all == All(v, s)
             x == ExtentAt(a)  o == PieceAt(v, s)[Begun(v, s)] + x[j]
         IN  /\ e \in Extent /\ e.len * Cluster \in Nat /\ LengthOf(a, e) \in Nat
             /\ x[j] \in Nat /\ x[j + 1] = x[j] + LengthOf(a, e)
             /\ o \in Nat /\ o + LengthOf(a, e) <= Len(all) /\ Len(all) \in Nat
             /\ e.kind = "data" => \A u \in 1..LengthOf(a, e) :
                   all[o + u] = e.at * Cluster + u - 1
             /\ e.kind = "hole" => \A u \in 1..LengthOf(a, e) : all[o + u] = Zero
             /\ e.kind = "packed" => /\ Len(Unpacked(e.at)) = LengthOf(a, e)
                                     /\ Unpacked(e.at) \in Seq(Int)
                                     /\ \A u \in 1..LengthOf(a, e) :
                                          all[o + u] = Unpacked(e.at)[u]
<1> DEFINE ps == Pieces(v, s.name)
           m == Begun(v, s)
           a == s.attr
           n == Len(a.extents)
           e == a.extents[j]
           all == All(v, s)
           b == PieceAt(v, s)
           x == ExtentAt(a)
<1>1. /\ m \in 1..Len(ps) /\ a = ps[m] /\ a.form = "runs" /\ n \in Nat
      /\ DOMAIN a.extents = 1..n /\ b[m] \in Nat /\ x[1] = 0
  BY RunPlace
<1>2. ps[m].form = "runs" /\ j \in 1..Len(ps[m].extents)
  BY <1>1
<1>3. /\ \A r \in 1..(Len(ps[m].extents) + 1) : ExtentAt(ps[m])[r] \in Nat
      /\ \A r \in 1..Len(ps[m].extents) :
           LET f == ps[m].extents[r]
           IN  /\ f \in Extent /\ f.len * Cluster \in Nat
               /\ LengthOf(ps[m], f) \in Nat
               /\ ExtentAt(ps[m])[r + 1] = ExtentAt(ps[m])[r] + LengthOf(ps[m], f)
               /\ b[m] + ExtentAt(ps[m])[r + 1] <= Len(all)
               /\ \A u \in 1..LengthOf(ps[m], f) :
                    all[b[m] + ExtentAt(ps[m])[r] + u] = Parts(ps[m])[r][u]
               /\ f.kind = "data" => \A u \in 1..LengthOf(ps[m], f) :
                    all[b[m] + ExtentAt(ps[m])[r] + u] = f.at * Cluster + u - 1
               /\ f.kind = "hole" => \A u \in 1..LengthOf(ps[m], f) :
                    all[b[m] + ExtentAt(ps[m])[r] + u] = Zero
               /\ f.kind = "packed" => /\ Parts(ps[m])[r] = Unpacked(f.at)
                                       /\ Len(Unpacked(f.at)) = LengthOf(ps[m], f)
                                       /\ Unpacked(f.at) \in Seq(Int)
  BY <1>1, <1>2, ExtentFacts
<1>4. /\ e \in Extent /\ e.len * Cluster \in Nat /\ LengthOf(a, e) \in Nat
      /\ x[j] \in Nat /\ x[j + 1] = x[j] + LengthOf(a, e)
      /\ b[m] + x[j + 1] <= Len(all)
      /\ \A u \in 1..LengthOf(a, e) : all[b[m] + x[j] + u] = Parts(a)[j][u]
      /\ e.kind = "data" => \A u \in 1..LengthOf(a, e) :
           all[b[m] + x[j] + u] = e.at * Cluster + u - 1
      /\ e.kind = "hole" => \A u \in 1..LengthOf(a, e) : all[b[m] + x[j] + u] = Zero
      /\ e.kind = "packed" => /\ Parts(a)[j] = Unpacked(e.at)
                              /\ Len(Unpacked(e.at)) = LengthOf(a, e)
                              /\ Unpacked(e.at) \in Seq(Int)
  <2>1. j \in 1..(Len(ps[m].extents) + 1)
    <3>1. n + 1 \in Nat /\ j \in 1..n
      BY <1>1
    <3> HIDE DEF n
    <3>2. j \in 1..(n + 1)
      BY <1>1, <3>1
    <3> QED BY <1>1, <3>2 DEF n
  <2> HIDE DEF m, ps, b, all
  <2> QED BY <1>1, <1>2, <1>3, <2>1
<1>5. Len(all) \in Nat
  <2>1. s.mode \in {"process", "virtual", "data"}
    BY DEF Stream
  <2> QED BY <2>1, FileFacts
<1> HIDE DEF a, m, b, x, all, e, ps
<1>6. b[m] + x[j] \in Nat /\ (b[m] + x[j]) + LengthOf(a, e) <= Len(all)
  BY <1>1, <1>4, <1>5
<1> QED BY <1>4, <1>5, <1>6 DEF a, m, b, x, all, e

-----------------------------------------------------------------------------
(* A block of a run is handed on. *)
LEMMA YieldedOn ==
  ASSUME NEW v \in Volumes, NEW rd, NEW rd2, NEW s \in Stream(v), NEW u \in Stream(v),
         NEW data \in Seq(Int), DataInv(v, rd, s), PlaceInv(v, s), Alike(s, u),
         u.trust => s.trust, s.lost => u.lost,
         s.pc \in {"run", "hole", "blocks"}, u.pc \in {"run", "hole", "blocks"},
         u.rec = s.rec, u.entries = s.entries, u.attr = s.attr,
         u.out = s.out, u.left = s.left, u.check = s.check,
         u.trust /\ ~Copied(s) /\ Served(v, s) /\ InPlace(v, rd, s) =>
           LET o == Len(s.out)  b == PieceAt(v, s)  m == Begun(v, s)
           IN  /\ \A i \in 1..Len(data) : i <= s.left => data[i] = All(v, s)[o + i]
               /\ s.left > Len(data) =>
                    /\ o + Len(data) = b[m] + InPiece(u) /\ InRun(rd2, u)
                    /\ u.pc = "hole" => m = 1
  PROVE  Advance(v, rd2, s, Yielded(u, data))
<1> DEFINE t == Yielded(u, data)
<1>1. /\ t.pc = u.pc /\ t.r = u.r /\ t.rec = u.rec /\ t.entries = u.entries
      /\ t.attr = u.attr /\ t.check = u.check /\ t.lost = u.lost
  BY YieldedFacts
<1>2. /\ Grown(u.out, t.out) /\ t.trust = u.trust /\ Alike(u, t)
      /\ t.i = u.i /\ t.rbs = u.rbs /\ t.written = u.written /\ t.last = u.last
  BY YieldAdds
<1>3. Alike(s, t)
  BY <1>2 DEF Alike
<1>4. ASSUME t.trust, ~Copied(s), Served(v, s), Blockwise(v, rd, s),
             Begun(v, t) = Begun(v, s)
      PROVE  Blockwise(v, rd2, t)
  <2>1. /\ s.check /\ (s.left = 0 \/ InPlace(v, rd, s))
        /\ Len(s.out) + s.left = FileSize(v, s)
    BY <1>4 DEF Blockwise
  <2>2. s.left # 0 => \A i \in 1..Len(data) :
                         i <= s.left => data[i] = All(v, s)[Len(s.out) + i]
    BY <1>2, <1>4, <2>1
  <2>3. /\ Beginning(All(v, t), t.out)
        /\ Len(t.out) + t.left = FileSize(v, t) /\ t.left \in Nat
        /\ t.left = 0 \/ (s.left # 0 /\ Len(t.out) = Len(s.out) + Len(data))
    BY <1>4, <2>1, <2>2, Handed
  <2>4. ASSUME t.left # 0 PROVE InPlace(v, rd2, t)
    <3>1. s.left # 0 /\ Len(t.out) = Len(s.out) + Len(data)
      BY <2>3, <2>4
    <3>2. InPlace(v, rd, s)
      BY <2>1, <3>1
    <3>3. s.left > Len(data)
      <4> DEFINE p == Len(s.out)  n == Len(data)  q == Len(t.out)
      <4>1. p \in Nat /\ n \in Nat /\ s.left \in Nat
        BY LenProperties DEF Stream
      <4>2. FileSize(v, t) = FileSize(v, s)
        BY <1>3, AlikeFacts
      <4>3. q = p + n /\ q + t.left = p + s.left /\ t.left \in Nat \ {0}
        BY <2>1, <2>3, <2>4, <3>1, <4>2
      <4> HIDE DEF p, n, q, t
      <4>4. s.left > n
        BY <4>1, <4>3
      <4> QED BY <4>4 DEF n
    <3>4. /\ Len(t.out) = PieceAt(v, s)[Begun(v, s)] + InPiece(u) /\ InRun(rd2, u)
          /\ u.pc = "hole" => Begun(v, s) = 1
      BY <1>2, <1>4, <3>1, <3>2, <3>3
    <3>5. InPiece(t) = InPiece(u) /\ InRun(rd2, t)
      <4> HIDE DEF t
      <4>1. InPiece(t) = InPiece(u)
        BY <1>1, <1>2 DEF InPiece
      <4>2. Runs(t) = Runs(u)
        BY <1>1 DEF Runs
      <4>3. InRun(rd2, t)
        BY <1>1, <1>2, <3>4, <4>2 DEF InRun
      <4> QED BY <4>1, <4>3
    <3> HIDE DEF t
    <3> QED BY <1>1, <1>3, <1>4, <3>2, <3>4, <3>5, PlaceAgain
  <2> HIDE DEF t
  <2> QED BY <1>1, <2>1, <2>3, <2>4 DEF Blockwise
<1>5. Grown(s.out, t.out)
  BY <1>2
<1> HIDE DEF t
<1>6. Advance(v, rd2, s, t)
  BY <1>1, <1>2, <1>3, <1>4, <1>5, WentOn
<1> QED BY <1>6 DEF t

(* A run that cannot be read. *)
LEMMA BrokeOff ==
  ASSUME NEW v \in Volumes, NEW rd, NEW rd2, NEW s \in Stream(v), NEW u \in Stream(v),
         DataInv(v, rd, s), Alike(s, u), u.trust => s.trust,
         s.pc \in {"run", "hole", "blocks"},
         u.rec = s.rec, u.entries = s.entries, u.attr = s.attr,
         u.out = s.out, u.left = s.left, u.check = s.check
  PROVE  Advance(v, rd2, s, Broken(u))
<1> DEFINE t == Broken(u)
<1>1. /\ t.pc = "next" /\ t.lost = TRUE /\ t.rec = u.rec /\ t.entries = u.entries
      /\ t.attr = u.attr /\ t.check = u.check /\ t.out = u.out /\ t.left = u.left
  BY BrokenFacts
<1>2. Alike(u, t) /\ (t.trust => u.trust /\ u.entries = <<>>)
  BY DEF Broken, Stream, Alike
<1> HIDE DEF t
<1>3. Alike(s, t)
  BY <1>2 DEF Alike
<1>4. ASSUME t.trust, Blockwise(v, rd, s) PROVE Blockwise(v, rd2, t)
  <2>1. /\ Beginning(All(v, s), s.out) /\ Len(s.out) + s.left = FileSize(v, s) /\ s.check
    BY <1>4 DEF Blockwise
  <2>2. All(v, t) = All(v, s) /\ FileSize(v, t) = FileSize(v, s)
    BY <1>3, AlikeFacts
  <2> QED BY <1>1, <1>2, <1>4, <2>1, <2>2 DEF Blockwise
<1>5. Grown(s.out, t.out)
  BY <1>1 DEF Grown
<1>6. Advance(v, rd2, s, t)
  BY <1>1, <1>2, <1>3, <1>4, <1>5, WentOn
<1> QED BY <1>6 DEF t

-----------------------------------------------------------------------------
(* Where the reader is afterwards, and what it brings. *)
LEMMA SeekFinds ==
  ASSUME NEW rd \in Reader, Coherent(rd), NEW p \in Nat, NEW x \in Seek(rd, p), x.ok
  PROVE  x.rd.pointer = p
<1> DEFINE moved == [rd EXCEPT !.position = p, !.pointer = p]
<1>1. moved.pointer = p
  BY DEF Reader
<1>2. \/ x = [ok |-> TRUE, rd |-> rd] /\ rd.position = p
      \/ x = [ok |-> FALSE, rd |-> rd]
      \/ x = [ok |-> TRUE, rd |-> moved]
  BY DEF Seek
<1> HIDE DEF moved
<1> QED BY <1>1, <1>2 DEF Coherent

LEMMA ReadBrings ==
  ASSUME NEW rd \in Reader, NEW n \in Nat, NEW t \in Read(rd, n), t.ok
  PROVE  /\ t.data = UnitsAt(rd.pointer, n) /\ t.rd.pointer = rd.pointer + n
         /\ t.data \in Seq(Int) /\ Len(t.data) = n
         /\ \A i \in 1..n : t.data[i] = rd.pointer + i - 1
<1>1. t = [ok |-> TRUE, data |-> UnitsAt(rd.pointer, n),
           rd |-> [rd EXCEPT !.position = @ + n, !.pointer = @ + n]]
  BY DEF Read
<1>2. rd.pointer \in Nat
  BY DEF Reader
<1>3. t.rd.pointer = rd.pointer + n
  <2> DEFINE a == rd.position + n  b == rd.pointer + n
             moved == [rd EXCEPT !.position = a, !.pointer = b]
  <2>1. t.rd = moved
    BY <1>1
  <2> HIDE DEF a, b
  <2>2. moved.pointer = b
    BY DEF Reader
  <2> QED BY <2>1, <2>2 DEF b
<1>4. UnitsAt(rd.pointer, n) \in Seq(Int) /\ Len(UnitsAt(rd.pointer, n)) = n
  BY <1>2, UnitsAtIsSeq
<1>5. \A i \in 1..n : UnitsAt(rd.pointer, n)[i] = rd.pointer + i - 1
  BY DEF UnitsAt
<1> QED BY <1>1, <1>3, <1>4, <1>5

(* A run is found. *)
LEMMA SeekRunMoves ==
  ASSUME StreamInv, NEW c \in Client, mft = "runs", DataInv(vol, reader, k[c]), SeekRun(c)
  PROVE  Moves(c)
<1> DEFINE s == k[c]
           total == Bytes(Run(s))
           rbs == MinDword(Block, total)
           p == Run(s).offset * Cluster
<1>1. /\ vol \in Volumes /\ s \in Stream(vol) /\ PlaceInv(vol, s)
      /\ s.pc = "run" /\ ~s.attr.packed /\ Runs(s)[s.r].offset # 0
      /\ s.r \in Nat \ {0} /\ s.r \in DOMAIN s.attr.extents
      /\ IsAttribute(s.attr)
      /\ reader \in Reader /\ Coherent(reader) /\ DataInv(vol, reader, s)
  BY Now, AtRunFacts DEF SeekRun, AtRun, Run
<1>2. PICK x \in Seek(reader, p) :
        /\ reader' = x.rd
        /\ Touch(c, [s EXCEPT !.pc = "blocks", !.i = 0, !.rbs = rbs,
                              !.trust = @ /\ x.ok])
  BY DEF SeekRun
<1>3. /\ p \in Nat /\ total \in Nat /\ p = Runs(s)[s.r].offset * Cluster
      /\ total = s.attr.extents[s.r].len * Cluster
  BY <1>1, BytesFacts DEF Run
<1>4. rbs < Word /\ rbs \in Nat
  <2>1. Word \in Nat \ {0} /\ Block \in Nat
    BY StreamAssumption
  <2> HIDE DEF total
  <2>2. rbs \in Nat /\ Block % Word \in Nat /\ total % Word \in Nat /\ total % Word < Word
        /\ Block % Word < Word
    <3>1. total \in Int /\ Block \in Int
      BY <1>3, <2>1
    <3>2. rbs \in Nat
      BY <3>1, Dword
    <3>3. total % Word \in Nat /\ total % Word < Word
      BY <2>1, <3>1, ModRange
    <3>4. Block % Word \in Nat /\ Block % Word < Word
      BY <2>1, <3>1, ModRange
    <3> QED BY <3>2, <3>3, <3>4
  <2>3. rbs = IF Block % Word <= total % Word THEN Block % Word ELSE total % Word
    BY <2>2, MinOfTwo DEF MinDword
  <2> QED BY <2>2, <2>3
<1> HIDE DEF rbs, p, total
<1>5. x.ok \in BOOLEAN /\ (x.ok => x.rd.pointer = p)
  BY <1>1, <1>3, SeekKeeps, SeekFinds
<1> DEFINE t == [s EXCEPT !.pc = "blocks", !.i = 0, !.rbs = rbs, !.trust = @ /\ x.ok]
<1> HIDE DEF s
<1>6. /\ Alike(s, t) /\ (t.trust => s.trust /\ x.ok) /\ t.lost = s.lost /\ t.pc = "blocks"
      /\ t.rec = s.rec /\ t.entries = s.entries /\ t.attr = s.attr
      /\ t.out = s.out /\ t.left = s.left /\ t.check = s.check
      /\ t.r = s.r /\ t.i = 0 /\ t.rbs = rbs
  BY <1>1, <1>5 DEF Stream, Alike
<1>7. Touch(c, t)
  BY <1>2
<1> HIDE DEF t
<1>8. ASSUME t.trust, ~Copied(s), Served(vol, s), InPlace(vol, reader, s)
      PROVE  /\ Len(t.out) = PieceAt(vol, s)[Begun(vol, s)] + InPiece(t)
             /\ InRun(reader', t)
  <2> DEFINE a == s.attr
             n == Len(a.extents)
             x0 == ExtentAt(a)
             b == PieceAt(vol, s)
             m == Begun(vol, s)
             e == a.extents[s.r]
  <2>1. /\ Laid(a) /\ n \in Nat /\ DOMAIN a.extents = 1..n
        /\ b[m] \in Nat /\ Len(Runs(s)) = n
        /\ Len(s.out) = b[m] + InPiece(s) /\ InRun(reader, s)
    BY <1>1, <1>8, RunPlace
  <2>2. \A j \in 1..n :
          IF a.extents[j].kind = "hole" THEN j = 1
          ELSE a.extents[j].at # 0 /\ a.extents[j].kind = "data"
    BY <1>1, <1>8, RunPlace
  <2>3. s.r \in 1..n
    BY <1>1, <2>1
  <2>4. InPiece(s) = x0[s.r]
    BY <1>1 DEF InPiece
  <2>5. e.kind = "data" /\ Runs(s)[s.r].offset = e.at
    <3>1. e.kind # "hole"
      <4>1. ASSUME e.kind = "hole" PROVE FALSE
        <5>1. s.r = 1
          BY <2>2, <2>3, <4>1
        <5>2. Decoded(a)[s.r].offset = 0
          BY <1>1, <2>1, <4>1, <5>1, OffsetFacts
        <5> QED BY <1>1, <5>2 DEF Runs
      <4> QED BY <4>1
    <3>2. Decoded(a)[s.r].offset = e.at
      BY <1>1, <2>1, <3>1, OffsetFacts
    <3> QED BY <2>2, <2>3, <3>1, <3>2 DEF Runs
  <2>6. InPiece(t) = x0[s.r]
    <3>1. InPiece(t) = x0[s.r] + 0
      BY <1>6 DEF InPiece
    <3>2. x0[s.r] \in Nat
      BY <2>1, <2>3, AllocatedFacts
    <3> HIDE DEF x0
    <3> QED BY <3>1, <3>2
  <2>7. InRun(reader', t)
    <3>1. e.len * Cluster = total /\ total \in Nat /\ total > 0
      <4>1. e.len \in Nat \ {0} /\ Cluster \in Nat \ {0}
        <5>1. e \in Extent
          BY <2>1, <2>3, PartFacts
        <5> HIDE DEF e
        <5> QED BY <5>1, FileAssumption DEF Extent
      <4>2. e.len * Cluster = total
        BY <1>3
      <4> HIDE DEF e
      <4>3. e.len * 1 <= e.len * Cluster
        BY <4>1, TimesGrows
      <4> QED BY <1>3, <4>1, <4>2, <4>3
    <3>2. reader'.pointer = e.at * Cluster + 0
      <4>1. reader'.pointer = p /\ p = e.at * Cluster
        BY <1>2, <1>3, <1>5, <1>6, <1>8, <2>5
      <4>2. p \in Int
        BY <1>3
      <4> HIDE DEF e
      <4> QED BY <4>1, <4>2
    <3>3. t.attr.extents[t.r] = e
      BY <1>6
    <3> HIDE DEF e
    <3> QED BY <1>1, <1>4, <1>6, <2>5, <3>1, <3>2, <3>3 DEF InRun
  <2> QED BY <1>6, <2>1, <2>4, <2>6, <2>7
<1>9. Advance(vol, reader', s, t)
  BY <1>1, <1>6, <1>8, MovedOn
<1> QED BY <1>7, <1>9, TouchMoves DEF s

(* The padding of a unit is passed over. *)
LEMMA PaddingMoves ==
  ASSUME StreamInv, NEW c \in Client, DataInv(vol, reader, k[c]), Padding(c)
  PROVE  Moves(c)
<1> DEFINE s == k[c]
           r1 == s.r + 1
           t == [s EXCEPT !.r = r1]
<1>1. /\ vol \in Volumes /\ s \in Stream(vol) /\ PlaceInv(vol, s)
      /\ s.pc = "run" /\ s.attr.packed /\ Runs(s)[s.r].offset = s.last
      /\ s.r \in Nat \ {0} /\ s.r \in DOMAIN s.attr.extents
      /\ DataInv(vol, reader, s) /\ reader' = reader /\ Keep(c, t)
  BY Now, AtRunFacts DEF Padding, AtRun, Run
<1>2. r1 = s.r + 1
  OBVIOUS
<1> HIDE DEF s, r1
<1>3. /\ Alike(s, t) /\ t.trust = s.trust /\ t.lost = s.lost /\ t.pc = "run"
      /\ t.rec = s.rec /\ t.entries = s.entries /\ t.attr = s.attr
      /\ t.out = s.out /\ t.left = s.left /\ t.check = s.check
      /\ t.r = r1 /\ t.last = s.last /\ t.written = s.written
  BY <1>1 DEF Stream, Alike
<1> HIDE DEF t
<1>4. ASSUME ~Copied(s), Served(vol, s), InPlace(vol, reader, s)
      PROVE  /\ Len(t.out) = PieceAt(vol, s)[Begun(vol, s)] + InPiece(t)
             /\ InRun(reader, t)
  <2> DEFINE a == s.attr
             n == Len(a.extents)
             x == ExtentAt(a)
             b == PieceAt(vol, s)
             m == Begun(vol, s)
             e == a.extents[s.r]
  <2>1. /\ Laid(a) /\ n \in Nat /\ DOMAIN a.extents = 1..n
        /\ b[m] \in Nat /\ Len(Runs(s)) = n
        /\ Len(s.out) = b[m] + InPiece(s) /\ InRun(reader, s)
    BY <1>1, <1>4, RunPlace
  <2>2. InPiece(s) = x[s.r] /\ InPiece(t) = x[r1]
    BY <1>1, <1>3 DEF InPiece
  <2>3. /\ s.last = IF s.r = 1 THEN 0 ELSE Runs(s)[s.r - 1].offset
    BY <1>1, <2>1 DEF InRun
  <2>4. e.kind = "hole"
    BY <1>1, <2>1, <2>3, PackedOffsets DEF Runs
  <2>5. x[s.r + 1] = x[s.r] + LengthOf(a, e) /\ x[s.r] \in Nat
    <3>1. s.r \in 1..n /\ s.r \in 1..(n + 1)
      BY <1>1, <2>1
    <3> HIDE DEF a
    <3>2. /\ \A i \in 1..(n + 1) : x[i] \in Nat
          /\ \A i \in 1..n : x[i + 1] = x[i] + LengthOf(a, a.extents[i])
      BY <2>1, AllocatedFacts
    <3> QED BY <3>1, <3>2
  <2>6. LengthOf(a, e) = 0
    BY <1>1, <2>4 DEF LengthOf
  <2>7. InPiece(t) = InPiece(s)
    <3> HIDE DEF x, e
    <3> QED BY <1>2, <2>2, <2>5, <2>6
  <2>8. r1 \in 1..(n + 1) /\ r1 # 1 /\ r1 - 1 = s.r
    BY <1>1, <1>2, <2>1
  <2>9. Runs(t)[r1 - 1].offset = t.last
    BY <1>1, <1>3, <2>8 DEF Runs
  <2>10. InRun(reader, t)
    BY <1>3, <2>8, <2>9 DEF InRun
  <2> QED BY <1>3, <2>1, <2>7, <2>10
<1>5. Advance(vol, reader, s, t)
  BY <1>1, <1>3, <1>4, MovedOn
<1> QED BY <1>1, <1>5, KeepMoves DEF s

(* A leading hole of whole blocks is handed out as zeros. *)
LEMMA HoleBlockMoves ==
  ASSUME StreamInv, NEW c \in Client, DataInv(vol, reader, k[c]), HoleBlock(c)
  PROVE  Moves(c)
<1> DEFINE s == k[c]
           total == Bytes(Run(s))
           fixed == MinDword(s.attr.size - s.written, Block)
           r1 == s.r + 1
           i1 == s.i + Block
           w1 == s.written + fixed
           t == [s EXCEPT !.pc = "run", !.r = r1]
           u == [s EXCEPT !.i = i1, !.written = w1]
<1>1. /\ vol \in Volumes /\ s \in Stream(vol) /\ PlaceInv(vol, s)
      /\ s.pc = "hole" /\ reader' = reader /\ DataInv(vol, reader, s)
      /\ s.r \in Nat \ {0} /\ s.r \in DOMAIN s.attr.extents
      /\ s.attr.form = "runs" /\ IsAttribute(s.attr)
      /\ \/ s.i >= total /\ Keep(c, t)
         \/ s.i < total /\ Keep(c, Yielded(u, Zeros(fixed)))
  <2>4. /\ vol \in Volumes /\ s \in Stream(vol) /\ PlaceInv(vol, s)
        /\ s.pc = "hole" /\ reader' = reader /\ DataInv(vol, reader, s)
    BY Now DEF HoleBlock
  <2>5. /\ s.r \in Nat \ {0} /\ s.r \in DOMAIN s.attr.extents
        /\ s.attr.form = "runs" /\ IsAttribute(s.attr)
    BY <2>4, AtRunFacts
  <2>1. s.i \in Int /\ total \in Int
    <3>1. s.i \in Nat
      BY <2>4 DEF Stream
    <3>2. total \in Nat
      BY <2>5, BytesFacts
    <3> HIDE DEF total
    <3> QED BY <3>1, <3>2
  <2>2. IF s.i >= total THEN Keep(c, t) ELSE Keep(c, Yielded(u, Zeros(fixed)))
    BY DEF HoleBlock, Yield
  <2>3. \/ s.i >= total /\ Keep(c, t)
        \/ s.i < total /\ Keep(c, Yielded(u, Zeros(fixed)))
    <3> HIDE DEF t, u, total, fixed, s
    <3> QED BY <2>1, <2>2
  <2> HIDE DEF t, u, total, fixed, s
  <2> QED BY <2>3, <2>4, <2>5
<1>2. s.attr.size \in Nat /\ s.written \in Nat /\ s.i \in Nat /\ Block \in Nat \ {0}
      /\ Word \in Nat /\ Block < Word
  BY <1>1, StreamAssumption DEF IsAttribute, Stream
<1>3. total = s.attr.extents[s.r].len * Cluster /\ total \in Nat
  BY <1>1, BytesFacts
<1>4. /\ fixed \in Nat
      /\ s.attr.size - s.written \in 0..(Word - 1) =>
           fixed = IF s.attr.size - s.written <= Block THEN s.attr.size - s.written ELSE Block
  <2> DEFINE room == s.attr.size - s.written
  <2>1. room \in Int /\ Block \in Int
    BY <1>2
  <2>2. Block % Word = Block
    BY <1>2, ModRange
  <2> HIDE DEF room
  <2>3. MinDword(room, Block) \in Nat
    BY <2>1, Dword
  <2>4. ASSUME room \in 0..(Word - 1)
        PROVE  MinDword(room, Block) = IF room <= Block THEN room ELSE Block
    <3>1. room % Word = room
      BY <1>2, <2>4, ModRange
    <3> QED BY <2>1, <2>2, <3>1, MinOfTwo DEF MinDword
  <2> QED BY <2>3, <2>4 DEF room
<1> HIDE DEF fixed, total
<1>5. /\ r1 = s.r + 1 /\ i1 = s.i + Block /\ w1 = s.written + fixed
      /\ r1 \in Nat \ {0} /\ i1 \in Nat /\ w1 \in Nat
  BY <1>1, <1>2, <1>4
<1>6. Zeros(fixed) \in Seq(Int) /\ Len(Zeros(fixed)) = fixed
      /\ \A i \in 1..fixed : Zeros(fixed)[i] = Zero
  BY <1>4, ZerosIsSeq DEF Zeros
<1> HIDE DEF r1, i1, w1, s
<1>7. /\ Alike(s, t) /\ t.trust = s.trust /\ t.lost = s.lost /\ t.pc = "run"
      /\ t.rec = s.rec /\ t.entries = s.entries /\ t.attr = s.attr
      /\ t.out = s.out /\ t.left = s.left /\ t.check = s.check /\ t.r = r1
  BY <1>1 DEF Stream, Alike
<1>8. /\ u \in Stream(vol)
      /\ Alike(s, u) /\ u.trust = s.trust /\ u.lost = s.lost /\ u.pc = "hole"
      /\ u.rec = s.rec /\ u.entries = s.entries /\ u.attr = s.attr
      /\ u.out = s.out /\ u.left = s.left /\ u.check = s.check
      /\ u.r = s.r /\ u.i = i1 /\ u.written = w1
  BY <1>1, <1>5 DEF Stream, Alike
<1> HIDE DEF t, u
<1> DEFINE a == s.attr
           n == Len(a.extents)
           x == ExtentAt(a)
           b == PieceAt(vol, s)
           m == Begun(vol, s)
           all == All(vol, s)
           o == Len(s.out)
<1>9. ASSUME ~Copied(s), Served(vol, s), InPlace(vol, reader, s)
      PROVE  /\ Laid(a) /\ n \in Nat /\ DOMAIN a.extents = 1..n /\ ~a.packed
             /\ s.r = 1 /\ m = 1 /\ x[1] = 0 /\ x[2] = total /\ b[1] = 0
             /\ o = s.i /\ s.i <= total /\ s.written = s.i
             /\ s.i % Block = 0 /\ total % Block = 0
             /\ a.size < Word /\ FileSize(vol, s) = a.size
             /\ \A i \in 1..total : all[i] = Zero
  <2>1. /\ m \in 1..Len(Pieces(vol, s.name)) /\ a = Pieces(vol, s.name)[m]
        /\ Laid(a) /\ a.form = "runs" /\ n \in Nat /\ DOMAIN a.extents = 1..n
        /\ b[m] \in Nat /\ x[1] = 0 /\ Len(Runs(s)) = n
        /\ o = b[m] + InPiece(s) /\ InRun(reader, s)
        /\ a.packed => s.mode = "process"
    BY <1>1, <1>9, RunPlace
  <2>2. /\ s.r = 1 /\ a.extents[1].kind = "hole" /\ s.i <= total
        /\ s.written = s.i /\ s.i % Block = 0
    BY <1>1, <1>3, <2>1 DEF InRun
  <2>3. 1 \in 1..n
    BY <1>1, <2>1, <2>2
  <2>4. ~a.packed
    <3>1. ASSUME a.packed PROVE FALSE
      <4>1. a.extents[1].kind = "hole" => 1 > 1
        BY <2>1, <2>3, <3>1, PackedFacts
      <4> QED BY <2>2, <4>1
    <3> QED BY <3>1
  <2>5. /\ m = 1 /\ s.mode = "process" /\ a.size < Word
        /\ (a.extents[1].len * Cluster) % Block = 0
    <3>1. \A j \in 1..n :
            a.extents[j].kind = "hole" => /\ m = 1 /\ s.mode = "process" /\ a.size < Word
                                          /\ (a.extents[j].len * Cluster) % Block = 0
      <4>1. IF a.packed
            THEN s.mode = "process" /\ \A j \in 1..n : a.extents[j].len * Cluster < Word
            ELSE \A j \in 1..n :
                   IF a.extents[j].kind = "hole"
                   THEN /\ j = 1 /\ m = 1 /\ s.mode = "process" /\ a.size < Word
                        /\ (a.extents[j].len * Cluster) % Block = 0
                   ELSE a.extents[j].at # 0 /\ a.extents[j].kind = "data"
        BY <1>1, <1>9, RunPlace
      <4> HIDE DEF a, n, m
      <4> QED BY <2>4, <4>1
    <3> QED BY <2>2, <2>3, <3>1
  <2>6. b[1] = 0
    BY <1>1, <1>9, JoinedFacts
  <2>7. /\ x[2] = total /\ \A i \in 1..total : all[b[m] + x[1] + i] = Zero
    <3>1. 1 \in DOMAIN s.attr.extents
      BY <2>1, <2>3
    <3>2. /\ x[1 + 1] = x[1] + LengthOf(a, a.extents[1])
          /\ a.extents[1].kind = "hole" => \A i \in 1..LengthOf(a, a.extents[1]) :
                all[(b[m] + x[1]) + i] = Zero
      BY <1>1, <1>9, <3>1, RunExtent
    <3>3. LengthOf(a, a.extents[1]) = total
      BY <1>3, <2>2, <2>4 DEF LengthOf
    <3>4. 1 + 1 = 2
      OBVIOUS
    <3> HIDE DEF a, b, x, all, m
    <3> QED BY <1>3, <2>1, <2>2, <3>2, <3>3, <3>4
  <2>8. \A i \in 1..total : all[i] = Zero
    <3> HIDE DEF b, x, all, m
    <3>1. \A i \in 1..total : b[m] + x[1] + i = i
      BY <1>3, <2>1, <2>5, <2>6
    <3> QED BY <2>7, <3>1
  <2>9. o = s.i
    <3>1. InPiece(s) = x[1] + s.i
      BY <1>1, <2>2 DEF InPiece
    <3> HIDE DEF x, b, m, o
    <3> QED BY <1>2, <2>1, <2>5, <2>6, <3>1
  <2>10. FileSize(vol, s) = a.size
    <3>1. s.mode \in {"process", "virtual", "data"}
      BY <1>1 DEF Stream
    <3>2. Pieces(vol, s.name)[1].form = "runs" =>
            FileSize(vol, s) = IF s.mode = "virtual" THEN Pieces(vol, s.name)[1].alloc
                               ELSE Pieces(vol, s.name)[1].size
      BY <1>1, <1>9, <3>1, FileFacts
    <3> QED BY <2>1, <2>5, <3>2
  <2>11. total % Block = 0
    BY <1>3, <2>2, <2>5
  <2> HIDE DEF a, n, x, b, m, all, o
  <2> QED BY <2>11, <2>1, <2>2, <2>4, <2>5, <2>6, <2>7, <2>8, <2>9, <2>10
<1>10. CASE s.i >= total /\ Keep(c, t)
  <2>1. ASSUME ~Copied(s), Served(vol, s), InPlace(vol, reader, s)
        PROVE  Len(t.out) = b[m] + InPiece(t) /\ InRun(reader, t)
    <3>1. /\ s.r = 1 /\ m = 1 /\ x[2] = total /\ b[1] = 0 /\ o = s.i /\ s.i <= total
          /\ n \in Nat /\ DOMAIN a.extents = 1..n /\ ~a.packed
      BY <1>9, <2>1
    <3>2. r1 = 2
      BY <1>5, <3>1
    <3>3. InPiece(t) = x[2]
      BY <1>7, <3>2 DEF InPiece
    <3>4. r1 \in 1..(n + 1)
      BY <1>1, <3>1, <3>2
    <3>5. InRun(reader, t)
      BY <1>7, <3>1, <3>2, <3>4 DEF InRun
    <3>6. Len(t.out) = b[m] + InPiece(t)
      <4>1. o = 0 + x[2]
        <5> HIDE DEF o, x
        <5> QED BY <1>2, <1>3, <1>10, <3>1
      <4>2. Len(t.out) = o
        BY <1>7
      <4> HIDE DEF o, x, b, m
      <4> QED BY <3>1, <3>3, <4>1, <4>2
    <3> QED BY <3>5, <3>6
  <2>2. Advance(vol, reader, s, t)
    <3> HIDE DEF b, m
    <3> QED BY <1>1, <1>7, <2>1, MovedOn DEF b, m
  <2> QED BY <1>1, <1>10, <2>2, KeepMoves DEF s
<1>11. CASE s.i < total /\ Keep(c, Yielded(u, Zeros(fixed)))
  <2> DEFINE data == Zeros(fixed)
  <2>1. ASSUME s.trust, ~Copied(s), Served(vol, s), InPlace(vol, reader, s)
        PROVE  /\ \A i \in 1..Len(data) : i <= s.left => data[i] = all[o + i]
               /\ s.left > Len(data) =>
                    /\ o + Len(data) = b[m] + InPiece(u) /\ InRun(reader, u)
                    /\ m = 1
    <3>1. /\ s.r = 1 /\ m = 1 /\ x[1] = 0 /\ b[1] = 0 /\ o = s.i /\ s.written = s.i
          /\ s.i % Block = 0 /\ total % Block = 0 /\ a.size < Word
          /\ FileSize(vol, s) = a.size /\ \A i \in 1..total : all[i] = Zero
      BY <1>9, <2>1
    <3>2. Len(data) = fixed /\ data \in Seq(Int) /\ \A i \in 1..fixed : data[i] = Zero
      BY <1>6
    <3>3. o + s.left = a.size /\ s.left \in Nat
      <4>1. Blockwise(vol, reader, s)
        <5>1. s.pc \in Running
          BY <1>1 DEF Running, InAttr
        <5> QED BY <1>1, <2>1, <5>1 DEF DataInv, BlocksInv
      <4>2. Len(s.out) + s.left = FileSize(vol, s)
        BY <4>1 DEF Blockwise
      <4>3. s.left \in Nat
        BY <1>1 DEF Stream
      <4> QED BY <3>1, <4>2, <4>3
    <3> HIDE DEF data, o, a, x, b, m, all
    <3>4. fixed = IF s.left <= Block THEN s.left ELSE Block
      <4>1. a.size - s.written = s.left /\ s.left \in 0..(Word - 1)
        BY <1>2, <3>1, <3>3
      <4> QED BY <1>4, <4>1 DEF a
    <3>5. s.i + Block <= total
      <4> DEFINE p == s.i
      <4>1. p \in Nat /\ p < total /\ p % Block = 0
        BY <1>2, <1>11, <3>1
      <4> HIDE DEF p
      <4>2. p + Block <= total
        BY <1>2, <1>3, <3>1, <4>1, Multiples
      <4> QED BY <4>2 DEF p
    <3>6. \A i \in 1..fixed : o + i \in 1..total
      <4> DEFINE p == s.i
      <4>1. p \in Nat /\ o = p /\ p + Block <= total /\ fixed <= Block /\ s.left \in Nat
        BY <1>2, <3>1, <3>3, <3>4, <3>5
      <4> HIDE DEF p
      <4>2. ASSUME NEW i \in 1..fixed PROVE p + i \in 1..total
        BY <1>2, <1>3, <1>4, <4>1, <4>2
      <4> QED BY <4>1, <4>2
    <3>7. \A i \in 1..fixed : data[i] = all[o + i]
      BY <3>1, <3>2, <3>6
    <3>8. ASSUME s.left > fixed
          PROVE  o + fixed = b[m] + InPiece(u) /\ InRun(reader, u) /\ m = 1
      <4>1. fixed = Block
        BY <1>2, <3>3, <3>4, <3>8
      <4>2. InPiece(u) = x[1] + i1
        BY <1>8, <3>1 DEF InPiece, x, a
      <4>3. o + fixed = b[m] + InPiece(u)
        BY <1>2, <1>5, <3>1, <4>1, <4>2
      <4>4. i1 % Block = 0
        <5> DEFINE p == s.i
        <5>1. p \in Nat /\ p % Block = 0 /\ p < total
          BY <1>2, <1>11, <3>1
        <5> HIDE DEF p
        <5>2. (p + Block) % Block = 0
          BY <1>2, <1>3, <3>1, <5>1, Multiples
        <5> QED BY <1>5, <5>2 DEF p
      <4>5. w1 = i1 /\ i1 <= total
        BY <1>5, <3>1, <3>5, <4>1
      <4>6. s.attr.extents[s.r].kind = "hole"
        <5>1. InRun(reader, s)
          BY <1>1, <2>1, RunPlace
        <5> QED BY <1>1, <5>1 DEF InRun
      <4>7. InRun(reader, u)
        BY <1>3, <1>8, <3>1, <4>4, <4>5, <4>6 DEF InRun
      <4> QED BY <3>1, <4>3, <4>7
    <3> QED BY <3>2, <3>7, <3>8
  <2>2. data \in Seq(Int)
    BY <1>6
  <2> HIDE DEF data
  <2>3. Advance(vol, reader, s, Yielded(u, data))
    <3> HIDE DEF b, m, o, all
    <3> QED BY <1>1, <1>8, <2>1, <2>2, YieldedOn DEF b, m, o, all
  <2> QED BY <1>1, <1>11, <2>3, KeepMoves DEF s, data
<1> QED BY <1>1, <1>10, <1>11

(* How much of a block is taken of what is left of a run, in 32 bits. *)
LEMMA BlockFacts ==
  ASSUME NEW b \in Nat, b < Word, NEW rest \in Nat
  PROVE  LET n == MinDword(b, rest)
         IN  /\ n \in Nat /\ n <= b /\ n <= rest
             /\ b = 0 \/ rest % Word = 0 => n = 0
             /\ n < b => (rest - n) % Word = 0
<1> DEFINE n == MinDword(b, rest)
           q == rest \div Word
           z == rest % Word
<1>1. Word \in Nat /\ Word # 0 /\ b \in 0..(Word - 1)
  BY StreamAssumption
<1>2. b % Word = b
  BY <1>1, ModRange
<1>3. q \in Nat /\ z \in 0..(Word - 1) /\ rest = Word * q + z
  <2>1. /\ rest \div Word \in Int /\ rest % Word \in 0..(Word - 1)
        /\ rest = (Word * (rest \div Word)) + (rest % Word)
        /\ rest \in Nat => rest \div Word \in Nat
    <3>1. rest \in Int
      OBVIOUS
    <3> QED BY ONLY <1>1, <3>1, QuotientAndRest
  <2> QED BY <2>1
<1>4. z <= rest
  BY <1>1, ModRange
<1>5. n = IF b <= z THEN b ELSE z
  <2>1. z \in Int /\ b \in Int
    BY <1>3
  <2>2. n = Min({b, z})
    BY <1>2 DEF MinDword
  <2> HIDE DEF n, z
  <2> QED BY <2>1, <2>2, MinOfTwo
<1>6. n < b => (rest - n) % Word = 0
  <2>1. ASSUME n < b PROVE (rest - n) % Word = 0
    <3> DEFINE y == rest - n
    <3>1. n = z
      <4> HIDE DEF n, z
      <4> QED BY <1>3, <1>5, <2>1
    <3>2. y = Word * q + 0 /\ y \in Int /\ q \in Int
      <4>1. n \in Int /\ Word * q \in Int
        BY <1>1, <1>3, <3>1
      <4> HIDE DEF n, z, q
      <4> QED BY <1>1, <1>3, <3>1, <4>1
    <3>3. 0 \in 0..(Word - 1)
      BY <1>1
    <3> HIDE DEF y, q
    <3>4. y % Word = 0
      BY <1>1, <3>2, <3>3, RestIsUnique
    <3> QED BY <3>4 DEF y
  <2> QED BY <2>1
<1> HIDE DEF n, z
<1>7. n \in Nat /\ n <= b /\ n <= rest /\ (b = 0 \/ z = 0 => n = 0)
  BY <1>1, <1>3, <1>4, <1>5
<1> QED BY <1>6, <1>7 DEF n, z

(* A block of a run. *)
LEMMA ReadBlockMoves ==
  ASSUME StreamInv, NEW c \in Client, DataInv(vol, reader, k[c]), ReadBlock(c)
  PROVE  Moves(c)
<1> DEFINE s == k[c]
           total == Bytes(Run(s))
           n == MinDword(s.rbs, total - s.i)
           over == s.i + n >= total
           i1 == s.i + n
           w1 == s.written + n
           r1 == IF over THEN s.r + 1 ELSE s.r
           pc1 == IF over THEN "run" ELSE "blocks"
           u == [s EXCEPT !.rbs = n, !.i = i1, !.written = w1, !.pc = pc1, !.r = r1]
<1>1. /\ vol \in Volumes /\ s \in Stream(vol) /\ PlaceInv(vol, s) /\ s.pc = "blocks"
      /\ s.r \in Nat \ {0} /\ s.r \in DOMAIN s.attr.extents
      /\ s.attr.form = "runs" /\ IsAttribute(s.attr)
      /\ reader \in Reader /\ DataInv(vol, reader, s)
  BY Now, AtRunFacts DEF ReadBlock
<1>2. PICK x \in Read(reader, s.rbs) :
        /\ reader' = x.rd
        /\ IF x.ok THEN Touch(c, Yielded(u, SubSeq(x.data, 1, n)))
           ELSE Touch(c, Broken(s))
  BY DEF ReadBlock
<1>3. /\ s.rbs \in Nat /\ s.i \in Nat /\ s.written \in Nat /\ s.left \in Nat
  BY <1>1 DEF Stream
<1>4. total \in Nat /\ total = s.attr.extents[s.r].len * Cluster
  BY <1>1, BytesFacts
<1> HIDE DEF total
<1>5. n \in Nat /\ n <= s.rbs
  <2> DEFINE rest == total - s.i  b == s.rbs
  <2>1. rest \in Int /\ b \in Int /\ b \in Nat
    BY <1>3, <1>4
  <2> HIDE DEF rest, b
  <2>2. MinDword(b, rest) \in Nat /\ MinDword(b, rest) <= b
    BY <2>1, Dword
  <2> QED BY <2>2 DEF rest, b
<1>6. s.i < total /\ s.rbs < Word =>
        /\ n <= total - s.i
        /\ s.rbs = 0 \/ (total - s.i) % Word = 0 => n = 0
        /\ n < s.rbs => ((total - s.i) - n) % Word = 0
  <2>1. ASSUME s.i < total, s.rbs < Word
        PROVE  /\ n <= total - s.i
               /\ s.rbs = 0 \/ (total - s.i) % Word = 0 => n = 0
               /\ n < s.rbs => ((total - s.i) - n) % Word = 0
    <3>1. total - s.i \in Nat
      BY <1>3, <1>4, <2>1
    <3> QED BY <1>3, <2>1, <3>1, BlockFacts
  <2> QED BY <2>1
<1>7. /\ i1 \in Nat /\ w1 \in Nat /\ r1 \in Nat \ {0} /\ pc1 \in {"run", "blocks"}
      /\ i1 = s.i + n
      /\ \/ s.i + n >= total /\ pc1 = "run" /\ r1 = s.r + 1
         \/ ~(s.i + n >= total) /\ pc1 = "blocks" /\ r1 = s.r
  <2> HIDE DEF n
  <2> QED BY <1>1, <1>3, <1>5
<1> HIDE DEF n, over, i1, w1, r1, pc1
<1>8. /\ u \in Stream(vol) /\ u.pc = pc1 /\ u.r = r1 /\ Alike(s, u)
      /\ u.check = s.check /\ u.lost = s.lost /\ u.trust = s.trust
      /\ u.out = s.out /\ u.left = s.left /\ u.rec = s.rec /\ u.entries = s.entries
      /\ u.attr = s.attr /\ u.i = i1 /\ u.rbs = n
  BY <1>1, <1>5, <1>7 DEF Stream, StreamState, Alike
<1> HIDE DEF u, s
<1>9. CASE x.ok
  <2> DEFINE data == SubSeq(x.data, 1, n)
             all == All(vol, s)
             a == s.attr
             e == a.extents[s.r]
             b == PieceAt(vol, s)
             m == Begun(vol, s)
             xs == ExtentAt(a)
             o == Len(s.out)
  <2>1. /\ x.rd.pointer = reader.pointer + s.rbs
        /\ x.data \in Seq(Int) /\ Len(x.data) = s.rbs
        /\ \A j \in 1..s.rbs : x.data[j] = reader.pointer + j - 1
    <3> DEFINE rbs == s.rbs
    <3>1. /\ reader \in Reader /\ rbs \in Nat /\ x \in Read(reader, rbs) /\ x.ok
      BY <1>1, <1>3, <1>9
    <3> HIDE DEF rbs
    <3>2. /\ x.rd.pointer = reader.pointer + rbs
          /\ x.data \in Seq(Int) /\ Len(x.data) = rbs
      BY <3>1, ReadBrings
    <3>3. \A j \in 1..rbs : x.data[j] = reader.pointer + j - 1
      BY <3>1, ReadBrings
    <3> QED BY <3>2, <3>3 DEF rbs
  <2>2. data \in Seq(Int) /\ Len(data) = n
        /\ \A j \in 1..n : data[j] = reader.pointer + j - 1
    <3>1. \A j \in 1..n : j \in 1..s.rbs
      BY <1>3, <1>5
    <3>2. \A j \in 1..n : x.data[j] \in Int
      BY <2>1, <3>1, ElementOfSeq
    <3>3. 1 \in Int /\ n \in Int
      BY <1>5
    <3>4. data \in Seq(Int) /\ Len(data) = (IF 1 <= n THEN n - 1 + 1 ELSE 0)
          /\ \A j \in 1..(n - 1 + 1) : data[j] = x.data[1 + j - 1]
      BY <3>2, <3>3, SubSeqProperties
    <3>5. Len(data) = n /\ n - 1 + 1 = n
      <4> HIDE DEF data
      <4> QED BY <1>5, <3>4
    <3>6. \A j \in 1..n : 1 + j - 1 = j
      BY <1>5
    <3> HIDE DEF data
    <3> QED BY <2>1, <3>1, <3>4, <3>5, <3>6
  <2>3. Touch(c, Yielded(u, data))
    BY <1>2, <1>9
  <2> HIDE DEF data
  <2>4. ASSUME s.trust, ~Copied(s), Served(vol, s), InPlace(vol, reader, s)
        PROVE  /\ \A j \in 1..Len(data) : j <= s.left => data[j] = all[o + j]
               /\ s.left > Len(data) =>
                    /\ o + Len(data) = b[m] + InPiece(u) /\ InRun(reader', u)
                    /\ u.pc # "hole"
    <3>1. /\ b[m] \in Nat /\ o = b[m] + InPiece(s) /\ InRun(reader, s)
          /\ Len(a.extents) \in Nat /\ DOMAIN a.extents = 1..Len(a.extents)
      BY <1>1, <2>4, RunPlace
    <3>2. InPiece(s) = xs[s.r] + s.i
      BY <1>1 DEF InPiece
    <3>3. /\ e.kind = "data" /\ ~a.packed /\ s.i < total /\ s.rbs < Word
          /\ \/ s.rbs = 0 \/ (total - s.i) % Word = 0
             \/ reader.pointer = e.at * Cluster + s.i
      BY <1>1, <1>4, <3>1 DEF InRun
    <3>4. LengthOf(a, e) = total
      BY <1>4, <3>3 DEF LengthOf
    <3>5. /\ xs[s.r] \in Nat /\ xs[s.r + 1] = xs[s.r] + total
          /\ e \in Extent
          /\ \A j \in 1..total : all[(b[m] + xs[s.r]) + j] = e.at * Cluster + j - 1
      <4> DEFINE L == LengthOf(a, e)
      <4>1. /\ xs[s.r] \in Nat /\ xs[s.r + 1] = xs[s.r] + L /\ e \in Extent
            /\ \A j \in 1..L : all[(b[m] + xs[s.r]) + j] = e.at * Cluster + j - 1
        <5>1. xs[s.r] \in Nat /\ xs[s.r + 1] = xs[s.r] + L /\ e \in Extent
          BY <1>1, <2>4, RunExtent
        <5>2. \A j \in 1..L : all[(b[m] + xs[s.r]) + j] = e.at * Cluster + j - 1
          BY <1>1, <2>4, <3>3, RunExtent
        <5> QED BY <5>1, <5>2
      <4>2. L = total
        BY <3>4
      <4> HIDE DEF L, xs, e, b, m, all
      <4> QED BY <4>1, <4>2
    <3>6. e.at * Cluster \in Nat
      <4>1. e.at \in Nat /\ Cluster \in Nat
        <5> HIDE DEF e
        <5> QED BY <3>5, FileAssumption DEF Extent
      <4> QED BY <4>1
    <3>7. n # 0 => reader.pointer = e.at * Cluster + s.i
      BY <1>6, <3>3
    <3> DEFINE p == b[m] + xs[s.r]
               y == e.at * Cluster
    <3>8. /\ p \in Nat /\ y \in Nat /\ o = p + s.i
          /\ \A j \in 1..total : all[p + j] = y + j - 1
      <4>1. /\ \A j \in 1..total : all[p + j] = y + j - 1
        BY <3>5
      <4> HIDE DEF xs, b, m, o, e
      <4> QED BY <1>3, <3>1, <3>2, <3>5, <3>6, <4>1
    <3>9. ASSUME NEW j \in 1..n PROVE data[j] = all[o + j]
      <4>1. s.i + j \in 1..total /\ n # 0 /\ j \in Int
        BY <1>3, <1>4, <1>5, <1>6, <3>3
      <4>2. all[p + (s.i + j)] = y + (s.i + j) - 1
        BY <3>8, <4>1
      <4>3. data[j] = (y + s.i) + j - 1
        BY <2>2, <3>7, <4>1
      <4> HIDE DEF p, y, all, o
      <4>4. p + (s.i + j) = o + j /\ y + (s.i + j) - 1 = (y + s.i) + j - 1
        BY <1>3, <3>8, <4>1
      <4> QED BY <4>2, <4>3, <4>4
    <3>10. o + n = b[m] + InPiece(u) /\ InRun(reader', u) /\ u.pc # "hole"
      <4>1. CASE s.i + n >= total /\ pc1 = "run" /\ r1 = s.r + 1
        <5>1. InPiece(u) = xs[s.r + 1]
          BY <1>8, <4>1 DEF InPiece
        <5>2. s.i + n = total
          BY <1>3, <1>4, <1>5, <1>6, <3>3, <4>1
        <5>3. o + n = b[m] + InPiece(u)
          <6> DEFINE g == b[m]  h == xs[s.r]  w == InPiece(u)
          <6>1. g \in Int /\ h \in Int /\ o = (g + h) + s.i /\ w = h + total
            BY <3>1, <3>5, <3>8, <5>1
          <6> HIDE DEF g, h, w, o
          <6>2. o + n = g + w
            BY <1>3, <1>4, <1>5, <5>2, <6>1
          <6> QED BY <6>2 DEF g, w
        <5>4. r1 \in 1..(Len(a.extents) + 1) /\ r1 # 1
          BY <1>1, <3>1, <4>1
        <5>5. InRun(reader', u)
          BY <1>8, <3>3, <4>1, <5>4 DEF InRun
        <5> QED BY <1>8, <4>1, <5>3, <5>5
      <4>2. CASE ~(s.i + n >= total) /\ pc1 = "blocks" /\ r1 = s.r
        <5>1. InPiece(u) = xs[s.r] + i1
          BY <1>8, <4>2 DEF InPiece
        <5>2. i1 = s.i + n /\ i1 < total /\ n < Word
          <6>1. Word \in Nat
            BY StreamAssumption
          <6> QED BY <1>3, <1>4, <1>5, <1>7, <3>3, <4>2, <6>1
        <5>3. o + n = b[m] + InPiece(u)
          <6> DEFINE g == b[m]  h == xs[s.r]  w == InPiece(u)
          <6>1. g \in Int /\ h \in Int /\ o = (g + h) + s.i /\ w = h + i1
            BY <3>1, <3>5, <3>8, <5>1
          <6> HIDE DEF g, h, w, o
          <6>2. o + n = g + w
            BY <1>3, <1>4, <1>5, <5>2, <6>1
          <6> QED BY <6>2 DEF g, w
        <5>4. \/ n = 0 \/ (total - i1) % Word = 0
              \/ reader'.pointer = y + i1
          <6>1. CASE n < s.rbs
            <7>1. (total - s.i) - n = total - i1
              BY <1>3, <1>4, <1>5, <5>2
            <7> QED BY <1>6, <3>3, <6>1, <7>1
          <6>2. CASE n = s.rbs /\ n # 0
            <7>1. reader'.pointer = reader.pointer + n /\ reader.pointer = y + s.i
              BY <1>2, <2>1, <3>7, <6>2
            <7> HIDE DEF y
            <7> QED BY <1>3, <1>5, <3>8, <5>2, <7>1
          <6> QED BY <1>3, <1>5, <6>1, <6>2
        <5>5. InRun(reader', u)
          <6>1. u.attr.extents[u.r] = e /\ e.len * Cluster = total
            BY <1>4, <1>8, <4>2
          <6> HIDE DEF e
          <6> QED BY <1>8, <3>3, <4>2, <5>2, <5>4, <6>1 DEF InRun, y
        <5> QED BY <1>8, <4>2, <5>3, <5>5
      <4> QED BY <1>7, <4>1, <4>2
    <3> QED BY <2>2, <3>9, <3>10
  <2>5. Advance(vol, reader', s, Yielded(u, data))
    <3>1. u.pc \in {"run", "hole", "blocks"}
      BY <1>7, <1>8
    <3> HIDE DEF b, m, o, all
    <3> QED BY <1>1, <1>8, <2>2, <2>4, <3>1, YieldedOn DEF b, m, o, all
  <2> QED BY <2>3, <2>5, TouchMoves DEF s
<1>10. CASE ~x.ok
  <2>1. Touch(c, Broken(s))
    BY <1>2, <1>10
  <2>2. Alike(s, s)
    BY DEF Alike
  <2>3. Advance(vol, reader', s, Broken(s))
    BY <1>1, <2>2, BrokeOff
  <2> QED BY <2>1, <2>3, TouchMoves DEF s
<1> QED BY <1>9, <1>10

(* A unit, or a run of whole ones, of a compressed attribute. *)
LEMMA PackedRunMoves ==
  ASSUME StreamInv, NEW c \in Client, mft = "runs", DataInv(vol, reader, k[c]),
         PackedRun(c)
  PROVE  Moves(c)
<1> DEFINE s == k[c]
           r1 == s.r + 1
           o == Run(s).offset
           p == o * Cluster
           n == Bytes(Run(s)) % Word
           len == Run(s).length
<1>1. /\ vol \in Volumes /\ s \in Stream(vol) /\ PlaceInv(vol, s) /\ s.pc = "run"
      /\ s.attr.packed /\ o # s.last
      /\ s.r \in Nat \ {0} /\ s.r \in DOMAIN s.attr.extents
      /\ s.attr.form = "runs" /\ IsAttribute(s.attr)
      /\ reader \in Reader /\ Coherent(reader) /\ DataInv(vol, reader, s)
  BY Now, AtRunFacts DEF PackedRun, AtRun
<1>2. PICK x \in Seek(reader, p) : \E t \in Read(x.rd, n) :
        LET u == [s EXCEPT !.last = o, !.r = r1, !.trust = @ /\ x.ok]
        IN  /\ reader' = t.rd
            /\ \/ ~t.ok /\ Touch(c, Broken(u))
               \/ t.ok /\ len > Unit /\ Touch(c, Yielded(u, t.data))
               \/ /\ t.ok /\ len <= Unit
                  /\ \E d \in Decompress(u.attr, t.data) :
                       IF d.ok THEN Touch(c, Yielded(u, d.data))
                       ELSE Touch(c, Broken(u))
  BY DEF PackedRun
<1> DEFINE u == [s EXCEPT !.last = o, !.r = r1, !.trust = @ /\ x.ok]
<1>3. PICK t \in Read(x.rd, n) :
        /\ reader' = t.rd
        /\ \/ ~t.ok /\ Touch(c, Broken(u))
           \/ t.ok /\ len > Unit /\ Touch(c, Yielded(u, t.data))
           \/ /\ t.ok /\ len <= Unit
              /\ \E d \in Decompress(u.attr, t.data) :
                   IF d.ok THEN Touch(c, Yielded(u, d.data)) ELSE Touch(c, Broken(u))
  BY <1>2
<1>4. /\ p \in Nat /\ n \in Nat /\ o \in Nat /\ r1 \in Nat \ {0} /\ r1 = s.r + 1
      /\ p = o * Cluster /\ o = Runs(s)[s.r].offset
      /\ len = s.attr.extents[s.r].len /\ len \in Nat
      /\ n = (s.attr.extents[s.r].len * Cluster) % Word
  <2>1. p \in Nat /\ n \in Nat /\ o \in Nat /\ r1 \in Nat \ {0}
    BY <1>1, BytesFacts, StreamAssumption, ModRange
  <2>2. n = (s.attr.extents[s.r].len * Cluster) % Word
    BY <1>1, BytesFacts
  <2>3. len = s.attr.extents[s.r].len /\ len \in Nat
    BY <1>1, BytesFacts
  <2> QED BY <2>1, <2>2, <2>3 DEF Run
<1> HIDE DEF p, n, o, r1, len
<1>5. x.ok \in BOOLEAN /\ x.rd \in Reader /\ (x.ok => x.rd.pointer = p)
  BY <1>1, <1>4, SeekKeeps, SeekFinds
<1>6. t.ok => /\ t.data \in Seq(Int) /\ Len(t.data) = n
              /\ \A i \in 1..n : t.data[i] = x.rd.pointer + i - 1
  <2>1. ASSUME t.ok
        PROVE  /\ t.data \in Seq(Int) /\ Len(t.data) = n
               /\ \A i \in 1..n : t.data[i] = x.rd.pointer + i - 1
    <3> DEFINE rd == x.rd
    <3>1. rd \in Reader /\ t \in Read(rd, n)
      BY <1>3, <1>5
    <3> HIDE DEF rd
    <3>2. t.data \in Seq(Int) /\ Len(t.data) = n
      BY <1>4, <2>1, <3>1, ReadBrings
    <3>3. \A i \in 1..n : t.data[i] = rd.pointer + i - 1
      BY <1>4, <2>1, <3>1, ReadBrings
    <3> QED BY <3>2, <3>3 DEF rd
  <2> QED BY <2>1
<1> HIDE DEF s
<1>7. /\ u \in Stream(vol) /\ u.pc = "run" /\ u.r = r1 /\ Alike(s, u)
      /\ u.check = s.check /\ u.lost = s.lost /\ (u.trust => s.trust /\ x.ok)
      /\ u.out = s.out /\ u.left = s.left /\ u.rec = s.rec /\ u.entries = s.entries
      /\ u.attr = s.attr /\ u.last = o
  <2> DEFINE tr == s.trust /\ x.ok
             w == [s EXCEPT !.last = o, !.r = r1, !.trust = tr]
  <2>1. u = w
    OBVIOUS
  <2>2. tr \in BOOLEAN /\ (tr => s.trust /\ x.ok)
    OBVIOUS
  <2> HIDE DEF u, tr
  <2>3. w \in Stream(vol)
    BY <1>1, <1>4, <2>2 DEF Stream
  <2>4. /\ w.pc = "run" /\ w.r = r1 /\ Alike(s, w) /\ w.trust = tr
        /\ w.check = s.check /\ w.lost = s.lost
        /\ w.out = s.out /\ w.left = s.left /\ w.rec = s.rec /\ w.entries = s.entries
        /\ w.attr = s.attr /\ w.last = o
    BY <1>1 DEF Stream, Alike
  <2> HIDE DEF w
  <2> QED BY <2>1, <2>2, <2>3, <2>4
<1> HIDE DEF u
<1>8. Advance(vol, reader', s, Broken(u))
  BY <1>1, <1>7, BrokeOff
<1> DEFINE all == All(vol, s)
           a == s.attr
           e == a.extents[s.r]
           b == PieceAt(vol, s)
           m == Begun(vol, s)
           xs == ExtentAt(a)
           at == Len(s.out)
           size == LengthOf(a, e)
(* The run is there, and where it should be. *)
<1>9. ASSUME u.trust, ~Copied(s), Served(vol, s), InPlace(vol, reader, s)
      PROVE  /\ at \in Nat /\ size \in Nat /\ at + size = b[m] + InPiece(u)
             /\ InRun(reader', u)
             /\ e \in Extent /\ n = e.len * Cluster /\ p = e.at * Cluster
             /\ x.rd.pointer = p
             /\ IF len > Unit
                THEN size = n /\ \A i \in 1..size : all[at + i] = p + i - 1
                ELSE /\ e.kind = "packed" /\ Len(Unpacked(e.at)) = size
                     /\ \A i \in 1..size : all[at + i] = Unpacked(e.at)[i]
  <2>1. /\ b[m] \in Nat /\ at = b[m] + InPiece(s) /\ InRun(reader, s) /\ Laid(a)
        /\ Len(a.extents) \in Nat /\ DOMAIN a.extents = 1..Len(a.extents)
    BY <1>1, <1>9, RunPlace
  <2>2. e.len * Cluster < Word
    <3>1. \A j \in 1..Len(a.extents) : a.extents[j].len * Cluster < Word
      BY <1>1, <1>9, RunPlace
    <3> QED BY <1>1, <2>1, <3>1
  <2>3. InPiece(s) = xs[s.r] /\ InPiece(u) = xs[s.r + 1]
    BY <1>1, <1>4, <1>7 DEF InPiece
  <2>4. s.last = IF s.r = 1 THEN 0 ELSE Runs(s)[s.r - 1].offset
    BY <1>1, <2>1 DEF InRun
  <2>5. e.kind # "hole"
    <3>1. LET last == IF s.r = 1 THEN 0 ELSE Decoded(a)[s.r - 1].offset
          IN  Decoded(a)[s.r].offset = last <=> e.kind = "hole"
      BY <1>1, <2>1, PackedOffsets
    <3> QED BY <1>1, <1>4, <2>4, <3>1 DEF Runs
  <2>6. o = e.at
    <3>1. Decoded(a)[s.r].offset = e.at
      BY <1>1, <2>1, <2>5, OffsetFacts
    <3> QED BY <1>4, <3>1 DEF Runs
  <2>7. /\ e \in Extent /\ e.len * Cluster \in Nat /\ size \in Nat
        /\ xs[s.r] \in Nat /\ xs[s.r + 1] = xs[s.r] + size
        /\ e.kind = "data" => \A i \in 1..size :
              all[(b[m] + xs[s.r]) + i] = e.at * Cluster + i - 1
        /\ e.kind = "packed" => /\ Len(Unpacked(e.at)) = size
                                /\ \A i \in 1..size :
                                     all[(b[m] + xs[s.r]) + i] = Unpacked(e.at)[i]
    <3>1. /\ e \in Extent /\ e.len * Cluster \in Nat /\ size \in Nat
          /\ xs[s.r] \in Nat /\ xs[s.r + 1] = xs[s.r] + size
      BY <1>1, <1>9, RunExtent
    <3>2. e.kind = "data" => \A i \in 1..size :
              all[(b[m] + xs[s.r]) + i] = e.at * Cluster + i - 1
      BY <1>1, <1>9, RunExtent
    <3>3. e.kind = "packed" => Len(Unpacked(e.at)) = size
      BY <1>1, <1>9, RunExtent
    <3>4. e.kind = "packed" => \A i \in 1..size :
                                     all[(b[m] + xs[s.r]) + i] = Unpacked(e.at)[i]
      BY <1>1, <1>9, RunExtent
    <3> QED BY <3>1, <3>2, <3>3, <3>4
  <2>8. n = e.len * Cluster
    <3> DEFINE y == e.len * Cluster
    <3>1. y \in Nat /\ y < Word /\ n = y % Word /\ Word \in Nat
      BY <1>4, <2>2, <2>7, StreamAssumption
    <3> HIDE DEF y
    <3>2. n = y
      BY <3>1, ModRange
    <3> QED BY <3>2 DEF y
  <2>9. IF len > Unit THEN e.kind = "data" ELSE e.kind = "packed"
    <3>1. /\ e.kind = "packed" => e.len < Unit
          /\ e.kind = "data" => e.len > Unit
      BY <1>1, <2>1, PackedFacts
    <3>2. e.kind \in {"data", "packed", "hole"} /\ e.len \in Nat /\ Unit \in Nat
      <4> HIDE DEF e
      <4> QED BY <2>7, FileAssumption DEF Extent
    <3>3. len = e.len
      BY <1>4
    <3> HIDE DEF e
    <3> QED BY <2>5, <3>1, <3>2, <3>3
  <2>10. e.kind = "data" => size = e.len * Cluster
    BY DEF LengthOf
  <2>11. r1 \in 1..(Len(a.extents) + 1) /\ r1 # 1 /\ r1 - 1 = s.r
    BY <1>1, <1>4, <2>1
  <2>12. InRun(reader', u)
    <3>1. Runs(u)[r1 - 1].offset = u.last
      BY <1>4, <1>7, <2>11 DEF Runs
    <3> QED BY <1>7, <2>11, <3>1 DEF InRun
  <2>13. b[m] + xs[s.r] = at /\ at \in Nat /\ at + size = b[m] + InPiece(u)
    <3> DEFINE g == b[m]  h == xs[s.r]  h1 == xs[s.r + 1]  w == InPiece(u)  z == InPiece(s)
    <3>1. g \in Nat /\ h \in Nat /\ at = g + z /\ z = h /\ w = h1 /\ h1 = h + size
      BY <2>1, <2>3, <2>7
    <3> HIDE DEF g, h, h1, w, at, size, z
    <3>2. g + h = at /\ at \in Nat /\ at + size = g + w
      BY <2>7, <3>1
    <3> QED BY <3>2 DEF g, h, w
  <2>14. p = e.at * Cluster /\ x.rd.pointer = p
    BY <1>4, <1>5, <1>7, <1>9, <2>6
  <2> HIDE DEF at, b, m, xs, size, e, all
  <2> QED BY <2>7, <2>8, <2>9, <2>10, <2>12, <2>13, <2>14
<1>10. ASSUME t.ok, NEW data \in Seq(Int),
              u.trust /\ ~Copied(s) /\ Served(vol, s) /\ InPlace(vol, reader, s) =>
                Len(data) = size /\ \A i \in 1..size : data[i] = all[at + i]
       PROVE  Advance(vol, reader', s, Yielded(u, data))
  <2>1. ASSUME u.trust, ~Copied(s), Served(vol, s), InPlace(vol, reader, s)
        PROVE  /\ \A i \in 1..Len(data) : i <= s.left => data[i] = all[at + i]
               /\ s.left > Len(data) =>
                    at + Len(data) = b[m] + InPiece(u) /\ InRun(reader', u)
    <3>1. Len(data) = size /\ \A i \in 1..size : data[i] = all[at + i]
      BY <1>10, <2>1
    <3>2. at + size = b[m] + InPiece(u) /\ InRun(reader', u)
      BY <1>9, <2>1
    <3> HIDE DEF at, b, m, size, all
    <3> QED BY <3>1, <3>2
  <2> HIDE DEF at, b, m, size, all
  <2> QED BY <1>1, <1>7, <2>1, YieldedOn DEF at, b, m, all
<1>11. CASE Touch(c, Broken(u))
  BY <1>8, <1>11, TouchMoves DEF s
<1>12. CASE t.ok /\ len > Unit /\ Touch(c, Yielded(u, t.data))
  <2>1. ASSUME u.trust, ~Copied(s), Served(vol, s), InPlace(vol, reader, s)
        PROVE  Len(t.data) = size /\ \A i \in 1..size : t.data[i] = all[at + i]
    <3>1. /\ x.rd.pointer = p /\ size = n
          /\ \A i \in 1..size : all[at + i] = p + i - 1
      BY <1>9, <1>12, <2>1
    <3> HIDE DEF size, all, at
    <3> QED BY <1>6, <1>12, <3>1
  <2>2. t.data \in Seq(Int)
    BY <1>6, <1>12
  <2> HIDE DEF size, all, at
  <2>3. Advance(vol, reader', s, Yielded(u, t.data))
    BY <1>10, <1>12, <2>1, <2>2
  <2> QED BY <1>12, <2>3, TouchMoves DEF s
<1>13. CASE t.ok /\ len <= Unit /\ \E d \in Decompress(u.attr, t.data) :
              IF d.ok THEN Touch(c, Yielded(u, d.data)) ELSE Touch(c, Broken(u))
  <2>1. PICK d \in Decompress(u.attr, t.data) :
          IF d.ok THEN Touch(c, Yielded(u, d.data)) ELSE Touch(c, Broken(u))
    BY <1>13
  <2>2. d.data \in Seq(Int) /\ d.ok \in BOOLEAN
    BY <1>1, <1>6, <1>7, <1>13, DecompressFacts
  <2>3. CASE d.ok
    <3>1. ASSUME u.trust, ~Copied(s), Served(vol, s), InPlace(vol, reader, s)
          PROVE  Len(d.data) = size /\ \A i \in 1..size : d.data[i] = all[at + i]
      <4>1. ~(len > Unit)
        BY <1>4, <1>13, FileAssumption
      <4>2. /\ e \in Extent /\ n = e.len * Cluster /\ p = e.at * Cluster
            /\ x.rd.pointer = p /\ e.kind = "packed" /\ Len(Unpacked(e.at)) = size
            /\ \A i \in 1..size : all[at + i] = Unpacked(e.at)[i]
        BY <1>9, <3>1, <4>1
      <4>3. t.data[1] = p /\ Len(t.data) = n
        <5>1. n \in Nat \ {0}
          <6>1. e.len \in Nat \ {0} /\ Cluster \in Nat \ {0}
            <7> HIDE DEF e
            <7> QED BY <4>2, FileAssumption DEF Extent
          <6> DEFINE l == e.len  y == l * Cluster
          <6> HIDE DEF l
          <6>2. l * 1 <= l * Cluster
            BY <6>1, TimesGrows DEF l
          <6>3. l \in Nat \ {0}
            BY <6>1 DEF l
          <6>4. n = l * Cluster
            BY <4>2 DEF l
          <6> QED BY <1>4, <6>2, <6>3, <6>4
        <5>3. 1 \in 1..n
          BY <5>1
        <5>4. t.data[1] = x.rd.pointer + 1 - 1
          BY <1>6, <1>13, <5>3
        <5>2. t.data[1] = p + 1 - 1
          BY <4>2, <5>4
        <5> QED BY <1>4, <1>6, <1>13, <5>2
      <4> DEFINE hit == {j \in DOMAIN a.extents :
                           /\ a.extents[j].kind = "packed"
                           /\ a.extents[j].at * Cluster = t.data[1]
                           /\ a.extents[j].len * Cluster = Len(t.data)}
                 h == CHOOSE j \in hit : TRUE
      <4>4. s.r \in hit
        BY <1>1, <4>2, <4>3
      <4>5. h \in hit
        BY <4>4
      <4>6. d.data = Unpacked(a.extents[h].at)
        BY <1>7, <4>4 DEF Decompress
      <4>7. a.extents[h].at = e.at
        <5> DEFINE f == a.extents[h]
        <5>1. f \in Extent /\ f.at * Cluster = e.at * Cluster
          <6>1. f \in Extent
            <7>1. h \in 1..Len(a.extents) /\ a.extents \in Seq(Extent)
              BY <1>1, <4>5, RunFacts
            <7> HIDE DEF h
            <7> QED BY <7>1, ElementOfSeq
          <6> QED BY <4>2, <4>3, <4>5, <6>1
        <5>2. e.at \in Nat /\ f.at \in Nat
          <6> HIDE DEF e, f
          <6> QED BY <4>2, <5>1 DEF Extent
        <5> DEFINE y == e.at  z == f.at
        <5>3. y \in Nat /\ z \in Nat /\ z * Cluster = y * Cluster
          BY <5>1, <5>2
        <5> HIDE DEF y, z
        <5>4. y = z
          BY <5>3, FileAssumption, SameProduct
        <5> QED BY <5>4 DEF y, z
      <4> QED BY <4>2, <4>6, <4>7
    <3> HIDE DEF size, all, at
    <3>2. Advance(vol, reader', s, Yielded(u, d.data))
      BY <1>10, <1>13, <2>2, <3>1
    <3>3. Touch(c, Yielded(u, d.data))
      BY <2>1, <2>3
    <3> QED BY <3>2, <3>3, TouchMoves DEF s
  <2>4. CASE ~d.ok
    BY <1>11, <2>1, <2>4
  <2> QED BY <2>3, <2>4
<1> QED BY <1>3, <1>11, <1>12, <1>13

-----------------------------------------------------------------------------
(* A file kept in its record. *)
LEMMA ResidentPlace ==
  ASSUME NEW v \in Volumes, NEW s \in Stream(v), NEW rd, Served(v, s),
         s.pc = "resident", s.attr.form = "resident", InPlace(v, rd, s)
  PROVE  /\ Begun(v, s) = 1 /\ 1 <= Len(Pieces(v, s.name))
         /\ s.attr = Pieces(v, s.name)[1] /\ PieceAt(v, s)[1] = 0
         /\ Len(s.out) = s.i /\ FileSize(v, s) = Len(s.attr.value)
         /\ \A u \in 1..Len(s.attr.value) : All(v, s)[u] = s.attr.value[u]
<1> DEFINE ps == Pieces(v, s.name)
           m == Begun(v, s)
           b == PieceAt(v, s)
           all == All(v, s)
<1>1. m <= Len(ps) /\ m >= 1 /\ s.attr = ps[m] /\ Len(s.out) = b[m] + InPiece(s)
  BY DEF InPlace, InAttr
<1>2. Len(ps) \in Nat
  BY JoinedFacts
<1>3. m \in Nat
  <2>1. s.pc # "enter"
    OBVIOUS
  <2> DEFINE I == Holders(v, s.name) \cap 1..Taken(v, s)
  <2>2. IsFiniteSet(1..Len(v[Base].list))
    BY VisitedFacts, FS_Interval
  <2>3. I \subseteq 1..Len(v[Base].list)
    BY VisitedFacts
  <2>4. IsFiniteSet(I)
    BY <2>2, <2>3, FS_Subset
  <2>5. Cardinality(I) \in Nat
    BY <2>4, FS_CardinalityType
  <2>6. UpTo(Holders(v, s.name), Taken(v, s)) \in Nat
    BY <2>5 DEF UpTo
  <2> QED BY <2>1, <2>6 DEF Begun
<1>4. m \in 1..Len(ps) /\ ps[m].form = "resident"
  <2> HIDE DEF m, ps
  <2> QED BY <1>1, <1>2, <1>3
<1>5. s.mode \in {"process", "virtual", "data"} /\ s.i \in Nat
  BY DEF Stream
<1>6. m = 1 /\ Len(ps[m].value) = FileSize(v, s) /\ Allocated(ps[m]) = ps[m].value
  BY <1>4, <1>5, FileFacts
<1>7. /\ b[1] = 0 /\ Len(Allocated(ps[m])) \in Nat
      /\ \A u \in 1..Len(Allocated(ps[m])) : all[b[m] + u] = Allocated(ps[m])[u]
  <2>1. b[1] = 0
    BY JoinedFacts
  <2>2. \A j \in 1..Len(ps) :
          /\ Len(Allocated(ps[j])) \in Nat
          /\ \A u \in 1..Len(Allocated(ps[j])) : all[b[j] + u] = Allocated(ps[j])[u]
    BY JoinedFacts
  <2> HIDE DEF m, ps, b, all
  <2> QED BY <1>4, <2>1, <2>2
<1>8. InPiece(s) = s.i
  BY DEF InPiece
<1> DEFINE val == s.attr.value
<1>9. val = ps[m].value /\ Len(val) \in Nat
  BY <1>1, <1>6, <1>7
<1> HIDE DEF m, ps, b, all, val
<1>10. \A u \in 1..Len(val) : all[u] = val[u]
  <2>1. \A u \in 1..Len(val) : b[m] + u = u
    BY <1>6, <1>7, <1>9
  <2> QED BY <1>6, <1>7, <1>9, <2>1
<1>11. Len(s.out) = s.i
  BY <1>1, <1>5, <1>6, <1>7, <1>8
<1> QED BY <1>1, <1>6, <1>7, <1>9, <1>10, <1>11 DEF m, ps, b, all, val

LEMMA ResidentBlockMoves ==
  ASSUME StreamInv, NEW c \in Client, DataInv(vol, reader, k[c]), ResidentBlock(c)
  PROVE  Moves(c)
<1> DEFINE s == k[c]
           val == s.attr.value
           rest == Len(val) - s.i
           n == Min({Block, rest})
           t0 == [s EXCEPT !.pc = "next"]
           i1 == s.i + Block
           u == [s EXCEPT !.i = i1]
           data == SubSeq(val, s.i + 1, s.i + n)
           t == Yielded(u, data)
<1>1. /\ vol \in Volumes /\ s \in Stream(vol) /\ DataInv(vol, reader, s)
      /\ PlaceInv(vol, s) /\ s.pc = "resident" /\ reader' = reader
      /\ \/ n <= 0 /\ Keep(c, t0)
         \/ ~(n <= 0) /\ Keep(c, t)
  BY Now DEF ResidentBlock, Yield
<1>2. s.attr.form = "resident" /\ s.attr \in Attributes(vol)
  <2>1. s.attr.form = "resident" /\ s.attr \in Attributes(vol) \cup {NoAttr}
    BY <1>1 DEF PlaceInv, Stream
  <2>2. NoAttr.form = "none"
    BY DEF NoAttr
  <2> HIDE DEF s
  <2> QED BY <2>1, <2>2
<1>3. val \in Seq(Int)
  BY <1>1, <1>2, IsAttributeOf DEF IsAttribute
<1>4. s.i \in Nat /\ Block \in Nat \ {0} /\ i1 \in Nat /\ i1 = s.i + Block /\ s.left \in Nat
      /\ Len(s.out) \in Nat
  <2>1. s.out \in Seq(Int) /\ s.i \in Nat /\ s.left \in Nat
    BY <1>1 DEF Stream
  <2> QED BY <2>1, LenProperties, StreamAssumption
<1>5. Len(val) \in Nat /\ \A i \in 1..Len(val) : val[i] \in Int
  BY <1>3, LenProperties, ElementOfSeq
<1> HIDE DEF s, val, i1
<1>6. rest \in Int /\ n = IF Block <= rest THEN Block ELSE rest
  <2>1. rest \in Int
    BY <1>4, <1>5
  <2> HIDE DEF rest
  <2> QED BY <1>4, <2>1, MinOfTwo
<1> HIDE DEF n
<1>7. n \in Int /\ n <= rest /\ rest = Len(val) - s.i /\ (n < rest => n = Block)
  BY <1>4, <1>5, <1>6
<1> HIDE DEF rest
<1>8. CASE n <= 0 /\ Keep(c, t0)
  <2>1. /\ t0.pc = "next" /\ Alike(s, t0) /\ t0.check = s.check /\ t0.lost = s.lost
        /\ t0.out = s.out /\ t0.left = s.left /\ t0.rec = s.rec /\ t0.trust = s.trust
        /\ t0.entries = s.entries /\ t0.attr = s.attr
    BY <1>1 DEF Stream, StreamState, Alike
  <2> HIDE DEF t0
  <2>2. ASSUME Served(vol, s), Blockwise(vol, reader, s) PROVE Blockwise(vol, reader, t0)
    <3>1. /\ Beginning(All(vol, s), s.out) /\ Len(s.out) + s.left = FileSize(vol, s)
          /\ s.left = 0 \/ InPlace(vol, reader, s)
      BY <1>1, <2>2 DEF Blockwise
    <3>2. s.left = 0
      <4>1. ASSUME InPlace(vol, reader, s) PROVE s.left = 0
        <5>1. Len(s.out) = s.i /\ FileSize(vol, s) = Len(val)
          BY <1>1, <1>2, <2>2, <4>1, ResidentPlace DEF val
        <5>2. rest <= 0
          BY <1>4, <1>6, <1>7, <1>8
        <5> QED BY <1>4, <1>5, <1>7, <3>1, <5>1, <5>2
      <4> QED BY <3>1, <4>1
    <3>3. Beginning(All(vol, t0), t0.out) /\ Len(t0.out) + t0.left = FileSize(vol, t0)
      BY <2>1, <3>1, AlikeFacts
    <3>4. ~s.check => FileSize(vol, t0) = 0
      BY <2>1, <2>2, AlikeFacts DEF Blockwise
    <3> QED BY <2>1, <3>2, <3>3, <3>4 DEF Blockwise
  <2>3. Grown(s.out, t0.out)
    BY <2>1 DEF Grown
  <2>4. Advance(vol, reader, s, t0)
    BY <1>1, <2>1, <2>2, <2>3, WentOn
  <2> QED BY <1>1, <1>8, <2>4, KeepMoves DEF s
<1>9. CASE ~(n <= 0) /\ Keep(c, t)
  <2>1. /\ n \in Nat \ {0} /\ s.i + n <= Len(val)
    BY <1>4, <1>5, <1>7, <1>9
  <2>2. data \in Seq(Int) /\ Len(data) = n /\ \A j \in 1..n : data[j] = val[s.i + j]
    <3>1. \A i \in (s.i + 1)..(s.i + n) : val[i] \in Int
      BY <1>4, <1>5, <2>1
    <3> DEFINE p == s.i + 1  q == s.i + n
    <3>2. p \in Int /\ q \in Int /\ p <= q /\ q - p + 1 = n
      BY <1>4, <2>1
    <3> HIDE DEF p, q
    <3>3. data = SubSeq(val, p, q) /\ \A i \in p..q : val[i] \in Int
      BY <3>1 DEF p, q
    <3> HIDE DEF data
    <3>4. data \in Seq(Int) /\ Len(data) = (IF p <= q THEN q - p + 1 ELSE 0)
          /\ \A j \in 1..(q - p + 1) : data[j] = val[p + j - 1]
      BY <3>2, <3>3, SubSeqProperties
    <3>5. \A j \in 1..n : p + j - 1 = s.i + j
      BY <1>4, <2>1 DEF p
    <3> QED BY <3>2, <3>4, <3>5
  <2>3. /\ u \in Stream(vol) /\ Alike(s, u) /\ u.pc = "resident" /\ u.i = i1
        /\ u.check = s.check /\ u.lost = s.lost /\ u.trust = s.trust
        /\ u.out = s.out /\ u.left = s.left /\ u.rec = s.rec
        /\ u.entries = s.entries /\ u.attr = s.attr
    BY <1>1, <1>4 DEF Stream, Alike
  <2> HIDE DEF u, data
  <2>4. /\ t.pc = u.pc /\ t.rec = u.rec /\ t.entries = u.entries
        /\ t.attr = u.attr /\ t.check = u.check /\ t.lost = u.lost
    BY <2>2, <2>3, YieldedFacts
  <2>5. /\ Grown(u.out, t.out) /\ t.trust = u.trust /\ Alike(u, t) /\ t.i = u.i
    BY <2>2, <2>3, YieldAdds
  <2>6. Alike(s, t) /\ Grown(s.out, t.out)
    BY <2>3, <2>5 DEF Alike
  <2>7. ASSUME Served(vol, s), Blockwise(vol, reader, s), Begun(vol, t) = Begun(vol, s)
        PROVE  Blockwise(vol, reader, t)
    <3>1. /\ Len(s.out) + s.left = FileSize(vol, s)
          /\ s.left = 0 \/ InPlace(vol, reader, s)
      BY <1>1, <2>7 DEF Blockwise
    <3>2. s.check
      <4>1. ASSUME ~s.check PROVE FALSE
        <5>1. val = <<>>
          BY <1>1, <2>7, <4>1 DEF Blockwise, val
        <5>2. Len(val) = 0
          BY <5>1
        <5> QED BY <1>4, <2>1, <5>2
      <4>2. s.check \in BOOLEAN
        BY <1>1 DEF Stream
      <4> QED BY <4>1
    <3>3. ASSUME s.left # 0
          PROVE  /\ Begun(vol, s) = 1 /\ 1 <= Len(Pieces(vol, s.name))
                 /\ s.attr = Pieces(vol, s.name)[1] /\ PieceAt(vol, s)[1] = 0
                 /\ Len(s.out) = s.i /\ FileSize(vol, s) = Len(val)
                 /\ \A j \in 1..Len(val) : All(vol, s)[j] = val[j]
      <4>1. InPlace(vol, reader, s)
        BY <3>1, <3>3
      <4> QED BY <1>1, <1>2, <2>7, <4>1, ResidentPlace DEF val
    <3>4. s.left # 0 => \A j \in 1..Len(data) :
                          j <= s.left => data[j] = All(vol, s)[Len(s.out) + j]
      <4>1. ASSUME s.left # 0, NEW j \in 1..n PROVE data[j] = All(vol, s)[Len(s.out) + j]
        <5>1. s.i + j \in 1..Len(val)
          BY <1>4, <1>5, <2>1, <4>1
        <5> QED BY <2>2, <3>3, <4>1, <5>1
      <4> QED BY <2>2, <4>1
    <3>5. /\ Beginning(All(vol, t), t.out)
          /\ Len(t.out) + t.left = FileSize(vol, t) /\ t.left \in Nat
          /\ t.left = 0 \/ (s.left # 0 /\ Len(t.out) = Len(s.out) + Len(data))
      BY <1>1, <2>2, <2>3, <2>7, <3>2, <3>4, Handed
    <3>6. ASSUME t.left # 0 PROVE InPlace(vol, reader, t)
      <4>1. s.left # 0 /\ Len(t.out) = Len(s.out) + n
        BY <2>2, <3>5, <3>6
      <4>2. FileSize(vol, t) = FileSize(vol, s) /\ PieceAt(vol, t) = PieceAt(vol, s)
            /\ t.name = s.name
        BY <2>6, AlikeFacts DEF Alike
      <4>3. /\ Begun(vol, s) = 1 /\ 1 <= Len(Pieces(vol, s.name))
            /\ s.attr = Pieces(vol, s.name)[1] /\ PieceAt(vol, s)[1] = 0
            /\ Len(s.out) = s.i /\ FileSize(vol, s) = Len(val)
        BY <3>3, <4>1
      <4>4. Len(t.out) = i1
        <5> DEFINE x == Len(t.out)
        <5>1. x = s.i + n /\ x + t.left = Len(val) /\ t.left \in Nat \ {0}
          BY <3>5, <3>6, <4>1, <4>2, <4>3
        <5> HIDE DEF x, t
        <5>2. n < rest
          BY <1>4, <1>5, <1>7, <2>1, <5>1
        <5>3. x = i1
          BY <1>4, <1>7, <5>1, <5>2
        <5> QED BY <5>3 DEF x
      <4>5. t.pc = "resident" /\ t.i = i1
        BY <2>3, <2>4, <2>5
      <4>6. InPiece(t) = i1 /\ t.pc \in InAttr /\ InRun(reader, t)
        BY <4>5 DEF InPiece, InAttr, InRun
      <4>7. PieceAt(vol, t)[1] + InPiece(t) = i1
        BY <1>4, <4>2, <4>3, <4>6
      <4>8. Begun(vol, t) = 1 /\ t.attr = Pieces(vol, t.name)[1]
        BY <2>3, <2>4, <2>7, <4>2, <4>3
      <4> HIDE DEF t
      <4> QED BY <4>2, <4>3, <4>4, <4>5, <4>6, <4>7, <4>8 DEF InPlace
    <3> HIDE DEF t
    <3> QED BY <2>3, <2>4, <3>2, <3>5, <3>6 DEF Blockwise
  <2> HIDE DEF t
  <2>8. Advance(vol, reader, s, t)
    BY <1>1, <2>3, <2>4, <2>5, <2>6, <2>7, WentOn
  <2> QED BY <1>1, <1>9, <2>8, KeepMoves DEF s, t
<1> QED BY <1>1, <1>8, <1>9

-----------------------------------------------------------------------------
(* What a stream comes to is what it should.                               *)
LEMMA SamePrefix ==
  ASSUME NEW x, NEW y, Len(x) \in Nat, Len(y) \in Nat, IsPrefix(x, y) \/ IsPrefix(y, x),
         NEW j \in 1..Len(x), j <= Len(y)
  PROVE  x[j] = y[j]
<1>1. ASSUME NEW p, NEW q, Len(p) \in Nat, IsPrefix(p, q), NEW i \in 1..Len(p)
      PROVE  p[i] = q[i]
  <2> DEFINE n == Len(p)
             f == SubSeq(p, 1, n)
             g == SubSeq(q, 1, n)
  <2>1. f = g
    BY <1>1 DEF IsPrefix
  <2>2. n \in Nat /\ i \in 1..n /\ n - 1 + 1 = n /\ 1 + i - 1 = i
    BY <1>1
  <2>3. f[i] = p[1 + i - 1] /\ g[i] = q[1 + i - 1]
    <3> DEFINE S == {p[u] : u \in 1..n} \cup {q[u] : u \in 1..n}
    <3>1. \A u \in 1..n : p[u] \in S /\ q[u] \in S
      OBVIOUS
    <3> HIDE DEF n, S
    <3>2. 1 \in Int /\ n \in Int /\ i \in 1..(n - 1 + 1)
      BY <2>2
    <3>3. \A u \in 1..(n - 1 + 1) : f[u] = p[1 + u - 1]
      BY <3>1, <3>2, SubSeqProperties
    <3>4. \A u \in 1..(n - 1 + 1) : g[u] = q[1 + u - 1]
      BY <3>1, <3>2, SubSeqProperties
    <3> QED BY <3>2, <3>3, <3>4
  <2> HIDE DEF f, g, n
  <2> QED BY <2>1, <2>2, <2>3
<1>2. CASE IsPrefix(x, y)
  BY <1>1, <1>2
<1>3. CASE IsPrefix(y, x)
  <2>1. j \in 1..Len(y)
    OBVIOUS
  <2> QED BY <1>1, <1>3, <2>1
<1> QED BY <1>2, <1>3

(* An attribute of that name is a piece of the stream. *)
LEMMA VisitedPieces ==
  ASSUME NEW v \in Volumes, NEW name, NEW n \in DOMAIN v, HasStream(v[n], name),
         v[Base].list = <<>> => n = Base
  PROVE  \E j \in 1..Len(Pieces(v, name)) : Pieces(v, name)[j] = Find(v[n], name)
<1> DEFINE ps == Pieces(v, name)
           list == v[Base].list
           I == Named(list, name)
           es == Picked(list, I)
<1>1. CASE list = <<>>
  <2>1. n = Base
    BY <1>1
  <2>2. ps = <<Find(v[n], name)>>
    BY <1>1, <2>1 DEF Pieces
  <2> HIDE DEF ps
  <2>3. Len(ps) = 1 /\ ps[1] = Find(v[n], name)
    BY <2>2
  <2> QED BY <2>3 DEF ps
<1>2. CASE list # <<>>
  <2>1. Find(v[n], name) \in ToSet(v[n].data) /\ Find(v[n], name).name = name
    BY AttributeFacts
  <2>2. PICK j \in I : list[j].rec = n
    BY <1>2, <2>1, Typed DEF IsVolume
  <2>3. /\ list \in Seq([name : STRING, rec : DOMAIN v]) /\ I \in SUBSET DOMAIN list
        /\ Len(list) \in Nat /\ DOMAIN list = 1..Len(list)
    BY ListFacts
  <2>4. DOMAIN es = 1..Cardinality(I) /\ Cardinality(I) \in Nat
    <3> HIDE DEF I, list
    <3> QED BY <2>3, PickedFacts
  <2>5. I \in SUBSET (1..Len(list))
    BY <2>3
  <2> DEFINE u == UpTo(I, j)
  <2>6. u \in 1..Cardinality(I) /\ Nth(I, u) = j
    <3> HIDE DEF I, list
    <3> QED BY <2>2, <2>3, <2>5, NthFacts
  <2>7. es[u] = list[j]
    <3> HIDE DEF I, list, u
    <3> QED BY <2>6 DEF Picked
  <2>8. ps = [i \in DOMAIN es |-> Find(v[es[i].rec], name)]
    BY <1>2 DEF Pieces
  <2> HIDE DEF ps, es, I, list, u
  <2>9. Len(ps) = Cardinality(I) /\ ps[u] = Find(v[n], name)
    BY <2>2, <2>4, <2>6, <2>7, <2>8
  <2> QED BY <2>6, <2>9 DEF ps
<1> QED BY <1>1, <1>2

(* It comes to an attribute. *)
LEMMA EnterPlace ==
  ASSUME NEW v \in Volumes, NEW s \in Stream(v), NEW rd, NEW rd2, NEW t, Served(v, s),
         ~Copied(s), DataInv(v, rd, s), PlaceInv(v, s), s.pc = "enter",
         HasStream(v[s.rec], s.name), Blockwise(v, rd, s), Alike(s, t),
         t.pc \in {"resident", "run"}, t.attr = Find(v[s.rec], s.name),
         t.pc = IF t.attr.form = "resident" THEN "resident" ELSE "run",
         t.pc = "run" => t.attr.form = "runs" /\ t.attr.extents # <<>>,
         t.out = s.out, t.left = s.left, t.check = s.check, t.r = 1, t.i = 0,
         t.written = 0, t.last = 0, Begun(v, t) = Begun(v, s) + 1
  PROVE  Blockwise(v, rd2, t)
<1> DEFINE ps == Pieces(v, s.name)
           vs == Visited(v, s.name)
           m == Begun(v, s)
           b == PieceAt(v, s)
           all == All(v, s)
           a == t.attr
<1>1. /\ Beginning(all, s.out) /\ Len(s.out) + s.left = FileSize(v, s)
      /\ ~s.check => s.left = 0 /\ FileSize(v, s) = 0
      /\ s.left = 0 \/ InPlace(v, rd, s)
  BY DEF Blockwise
<1>2. /\ Beginning(All(v, t), t.out) /\ Len(t.out) + t.left = FileSize(v, t)
      /\ FileSize(v, t) = FileSize(v, s) /\ PieceAt(v, t) = b /\ t.name = s.name
  BY <1>1, AlikeFacts DEF Alike
<1>3. /\ Len(ps) \in Nat /\ b \in [1..(Len(ps) + 1) -> Nat] /\ Len(all) = b[Len(ps) + 1]
  BY JoinedFacts
<1>4. s.mode \in {"process", "virtual", "data"} /\ s.left \in Nat /\ Len(s.out) \in Nat
      /\ s.rec \in DOMAIN v
  BY LenProperties DEF Stream
<1>5. FileSize(v, s) <= Len(all) /\ Len(all) \in Nat /\ FileSize(v, s) \in Nat
  BY <1>4, FileFacts
<1>6. /\ m \in Nat /\ m + 1 <= Len(vs) /\ Len(vs) \in Nat /\ vs[m + 1] = a
  <2>1. ListInv(v, s) /\ s.mode # "data" /\ s.pc \in Running
    BY DEF DataInv, Running, InAttr
  <2> QED BY <2>1, BegunFacts
<1>7. ~s.check => t.pc # "run" /\ (t.pc = "resident" => t.attr.value = <<>>)
  <2>1. ASSUME ~s.check PROVE t.pc # "run" /\ (t.pc = "resident" => t.attr.value = <<>>)
    <3>1. PICK j \in 1..Len(ps) : ps[j] = a
      BY <1>4, VisitedPieces DEF PlaceInv
    <3>2. /\ ps[j].form = "runs" => ps[j].extents = <<>>
          /\ ps[j].form = "resident" => ps[j].value = <<>>
      BY <1>1, <1>4, <2>1, <3>1, EmptyFacts
    <3> QED BY <3>1, <3>2
  <2> QED BY <2>1
<1>8. ASSUME s.left # 0 PROVE InPlace(v, rd2, t)
  <2>1. m <= Len(ps) /\ Len(s.out) = b[m + 1] + 0
    BY <1>1, <1>8 DEF InPlace, InPiece, InAttr
  <2>2. m + 1 <= Len(ps)
    <3>1. ASSUME m = Len(ps) PROVE FALSE
      <4>1. Len(s.out) = Len(all) + 0
        BY <1>3, <2>1, <3>1
      <4> DEFINE x == Len(s.out)  y == Len(all)
      <4> HIDE DEF x, y
      <4>2. x \in Nat /\ y \in Nat /\ x = y + 0 /\ x + s.left = FileSize(v, s)
            /\ FileSize(v, s) <= y
        BY <1>1, <1>4, <1>5, <4>1 DEF x, y
      <4> QED BY <1>4, <1>5, <1>8, <4>2
    <3> HIDE DEF m, ps
    <3> QED BY <1>3, <1>6, <2>1, <3>1
  <2>3. m + 1 \in 1..Len(ps)
    <3> HIDE DEF m, ps
    <3> QED BY <1>3, <1>6, <2>2
  <2>4. ps[m + 1] = a
    <3>1. IsPrefix(ps, vs) \/ IsPrefix(vs, ps)
      BY DEF Served
    <3> DEFINE j == m + 1
    <3>2. j \in 1..Len(ps) /\ j <= Len(vs) /\ vs[j] = a
      BY <1>6, <2>3
    <3> HIDE DEF j, ps, vs, a
    <3>3. ps[j] = a
      BY <1>3, <1>6, <3>1, <3>2, SamePrefix
    <3> QED BY <3>3 DEF j
  <2>5. b[m + 1] \in Nat
    <3> DEFINE j == m + 1
    <3>1. j \in 1..(Len(ps) + 1)
      <4> HIDE DEF m, ps
      <4> QED BY <1>3, <1>6, <2>2
    <3> HIDE DEF j, ps, b
    <3>2. b[j] \in Nat
      BY <1>3, <3>1
    <3> QED BY <3>2 DEF j
  <2>6. InPiece(t) = 0 /\ InRun(rd2, t)
    <3>1. CASE t.pc = "resident"
      BY <3>1 DEF InPiece, InRun
    <3>2. CASE t.pc = "run"
      <4>1. Laid(a)
        <5>1. \A j \in 1..Len(ps) : ps[j].form = "runs" => Laid(ps[j])
          BY JoinedFacts
        <5>2. a.form = "runs"
          BY <3>2
        <5> HIDE DEF ps, m, a
        <5> QED BY <2>3, <2>4, <5>1, <5>2
      <4>2. ExtentAt(a)[1] = 0 /\ Len(a.extents) \in Nat
        BY <4>1, AllocatedFacts
      <4>3. InPiece(t) = 0
        BY <3>2, <4>2 DEF InPiece
      <4>4. 1 \in 1..(Len(a.extents) + 1)
        <5> HIDE DEF a
        <5> QED BY <4>2
      <4>5. InRun(rd2, t)
        BY <3>2, <4>4 DEF InRun
      <4> QED BY <4>3, <4>5
    <3> QED BY <3>1, <3>2
  <2>7. t.pc \in InAttr
    BY DEF InAttr
  <2>8. Begun(v, t) = m + 1 /\ Begun(v, t) >= 1 /\ Begun(v, t) <= Len(ps)
    <3>1. Begun(v, t) = m + 1
      OBVIOUS
    <3>2. m + 1 >= 1
      BY <1>6
    <3> HIDE DEF m, ps
    <3> QED BY <2>2, <3>1, <3>2
  <2>9. Len(t.out) = PieceAt(v, t)[Begun(v, t)] + InPiece(t)
    <3>1. Len(t.out) = b[m + 1] + 0 /\ PieceAt(v, t)[Begun(v, t)] = b[m + 1]
      BY <1>2, <2>1, <2>8
    <3> QED BY <2>6, <3>1
  <2>10. t.attr = Pieces(v, t.name)[Begun(v, t)]
    BY <1>2, <2>4, <2>8
  <2> HIDE DEF m, ps, b, all, a
  <2> QED BY <1>2, <2>6, <2>7, <2>8, <2>9, <2>10 DEF InPlace, ps
<1>9. t.pc \notin {"attr", "wof", "hole", "blocks"}
  OBVIOUS
<1> QED BY <1>1, <1>2, <1>7, <1>8, <1>9 DEF Blockwise

LEMMA UnpackedLen ==
  ASSUME NEW l
  PROVE  Len(Unpacked(l)) = Unit * Cluster /\ Unit * Cluster \in Nat
<1>1. Unit * Cluster \in Nat
  BY FileAssumption
<1> QED BY <1>1 DEF Unpacked

(* A buffer is allocated, nothing is in it. *)
LEMMA CopyBegins ==
  ASSUME NEW v \in Volumes, NEW t, Served(v, t), t.mode \in {"process", "virtual", "data"},
         Copied(t), t.pc = "attr", t.attr = Pieces(v, t.name)[1], t.out = <<>>,
         t.attr.form = "resident" => t.buf = t.attr.value,
         t.attr.form = "runs" => t.buf = Zeros(t.attr.alloc % Word),
         t.r = 1, t.readSize = 0
  PROVE  CopyInv(v, t)
<1> DEFINE ps == Pieces(v, t.name)
           all == Joined(ps)
           a == t.attr
<1>1. CASE a.form = "runs"
  <2>1. ps[1].form = "runs" /\ 1 \in 1..Len(ps) /\ DOMAIN ps = 1..Len(ps)
    BY <1>1, JoinedFacts
  <2>2. ps[1].alloc = Len(all) /\ Len(all) \in Nat
    BY <2>1, FileFacts DEF All
  <2>3. Laid(a)
    BY <2>1, JoinedFacts
  <2>4. a.alloc < Word
    <3>1. LayoutServed(ps, 1, t)
      BY <2>1 DEF Served
    <3>2. ~(a.packed /\ t.mode = "process")
      <4>1. ASSUME a.packed, t.mode = "process" PROVE FALSE
        <5>1. t.name = "wof"
          BY <4>1 DEF Copied
        <5>2. ~ps[1].packed
          BY <4>1, <5>1 DEF Served
        <5> QED BY <4>1, <5>2
      <4> QED BY <4>1
    <3> QED BY <1>1, <3>1, <3>2 DEF LayoutServed
  <2>5. a.alloc % Word = Len(all)
    <3> DEFINE y == a.alloc
    <3>1. y \in Nat /\ y < Word /\ y = Len(all) /\ Word \in Nat
      BY <2>2, <2>4, StreamAssumption
    <3> HIDE DEF y
    <3>2. y % Word = y
      BY <3>1, ModRange
    <3> QED BY <3>1, <3>2 DEF y
  <2>6. t.buf = Zeros(Len(all))
    BY <1>1, <2>5
  <2>7. Len(t.buf) = Len(all)
    BY <2>2, <2>6, ZerosIsSeq
  <2>8. Filled(a, 1) = 0
    BY <1>1, <2>3, FilledFacts DEF Laid
  <2>9. \A u \in 1..t.readSize : t.buf[u] = all[u]
    OBVIOUS
  <2> HIDE DEF all, ps, a
  <2> QED BY <1>1, <2>6, <2>7, <2>8, <2>9 DEF CopyInv, all, ps, a
<1>2. CASE a.form # "runs"
  BY <1>2 DEF CopyInv
<1> QED BY <1>1, <1>2

-----------------------------------------------------------------------------
(* Between two attributes.                                                 *)
LEMMA PassedOn ==
  ASSUME NEW v \in Volumes, NEW rd, NEW rd2, NEW s \in Stream(v), NEW t,
         DataInv(v, rd, s), Alike(s, t), t.trust => s.trust, s.lost => t.lost,
         s.pc \in {"enter", "next"}, t.pc \in {"enter", "next"},
         s.pc = "enter" \/ s.entries # <<>>,
         t.out = s.out, t.left = s.left, t.check = s.check,
         ListInv(v, t), Begun(v, t) = Begun(v, s)
  PROVE  Advance(v, rd2, s, t)
<1>1. s.pc \in Running /\ t.pc \in Running /\ s.pc \notin InAttr /\ t.pc \notin InAttr
      /\ s.mode # "data" /\ t.mode = s.mode /\ t.name = s.name
  BY DEF Running, InAttr, DataInv, Alike
<1>2. ASSUME t.trust, ~Copied(s) PROVE Blockwise(v, rd2, t)
  <2>1. Blockwise(v, rd, s)
    BY <1>1, <1>2 DEF DataInv, BlocksInv
  <2>2. /\ All(v, t) = All(v, s) /\ FileSize(v, t) = FileSize(v, s)
        /\ PieceAt(v, t) = PieceAt(v, s)
    BY AlikeFacts
  <2>3. s.left = 0 \/ InPlace(v, rd, s)
    BY <2>1 DEF Blockwise
  <2>4. InPlace(v, rd, s) => InPlace(v, rd2, t)
    <3>1. InPiece(s) = 0 /\ InPiece(t) = 0
      BY DEF InPiece
    <3>2. t.pc # "hole"
      OBVIOUS
    <3> QED BY <1>1, <2>2, <3>1, <3>2 DEF InPlace
  <2> QED BY <2>1, <2>2, <2>3, <2>4 DEF Blockwise
<1>3. WofInv(v, t)
  <2>1. WofInv(v, s)
    BY DEF DataInv
  <2> QED BY <1>1, <2>1 DEF WofInv
<1>4. Grown(s.out, t.out)
  BY DEF Grown
<1> QED BY <1>1, <1>2, <1>3, <1>4, Went

LEMMA EnterMoves ==
  ASSUME StreamInv, NEW c \in Client, DataInv(vol, reader, k[c]), Enter(c)
  PROVE  Moves(c)
<1> DEFINE s == k[c]
           rec == vol[s.rec]
           a == Find(rec, s.name)
           m == Begun(vol, s)
           ps == Pieces(vol, s.name)
<1>1. /\ vol \in Volumes /\ s \in Stream(vol) /\ PlaceInv(vol, s)
      /\ s.pc = "enter" /\ reader' = reader /\ DataInv(vol, reader, s)
  BY Now DEF Enter
<1>2. /\ s.rec \in DOMAIN vol /\ s.lost \in BOOLEAN /\ s.mode # "data"
      /\ s.mode \in {"process", "virtual", "data"} /\ s.pc \in Running
      /\ ListInv(vol, s) /\ s.trust \in BOOLEAN
  <2>1. s.pc \in Running /\ s.pc \in Running \ {"attr"}
    BY <1>1 DEF Running, InAttr
  <2>2. s.mode # "data" /\ ListInv(vol, s)
    BY <1>1, <2>1 DEF DataInv
  <2> QED BY <1>1, <2>1, <2>2 DEF Stream
<1>3. s.trust => Served(vol, s)
  BY <1>1 DEF DataInv
(* A record without the stream. *)
<1>4. CASE ~HasStream(rec, s.name)
  <2> DEFINE es == IF s.rec = Base THEN rec.list ELSE s.entries
             t == [s EXCEPT !.pc = "next", !.entries = es]
  <2>1. Keep(c, t)
    BY <1>4 DEF Enter
  <2>2. es = IF s.rec = Base THEN vol[Base].list ELSE s.entries
    OBVIOUS
  <2> HIDE DEF es
  <2>3. /\ t.pc = "next" /\ t.entries = es /\ t.rec = s.rec /\ Alike(s, t)
        /\ t.check = s.check /\ t.trust = s.trust
        /\ t.lost = s.lost /\ t.out = s.out /\ t.left = s.left
    BY <1>1 DEF Stream, StreamState, Alike
  <2> HIDE DEF t
  <2>4. ListInv(vol, t) /\ Begun(vol, t) = m
    BY <1>1, <1>2, <1>4, <2>2, <2>3, ListPasses
  <2> HIDE DEF s
  <2>5. Advance(vol, reader, s, t)
    BY <1>1, <2>3, <2>4, PassedOn
  <2> QED BY <1>1, <2>1, <2>5, KeepMoves DEF s
(* A record with it. *)
<1>5. CASE HasStream(rec, s.name)
  <2> DEFINE u == [s EXCEPT !.attr = a, !.r = 1, !.i = 0, !.written = 0, !.last = 0]
             z == Zeros(a.alloc % Word)
             t1 == [u EXCEPT !.pc = "resident"]
             t2 == [u EXCEPT !.pc = "run"]
             t3 == [u EXCEPT !.pc = "next", !.lost = TRUE]
             t4 == [u EXCEPT !.pc = "attr", !.readSize = 0, !.buf = z]
             t5 == [u EXCEPT !.pc = "threw", !.lost = TRUE]
  <2>1. Keep(c, IF a.form = "resident" THEN t1
                ELSE IF a.extents = <<>> THEN t5
                ELSE IF s.name # "wof" \/ a.packed THEN t2
                ELSE IF vol[Base].wof = None THEN t3 ELSE t4)
    BY <1>5 DEF Enter
  <2>2. a \in Attributes(vol) /\ IsAttribute(a) /\ a.form \in {"resident", "runs"}
    <3>1. a \in Attributes(vol) /\ IsAttribute(a)
      BY <1>1, <1>2, <1>5, AttributeFacts, IsAttributeOf
    <3> QED BY <3>1 DEF IsAttribute
  <2>3. /\ u \in Stream(vol)
        /\ u.attr = a /\ u.r = 1 /\ u.i = 0 /\ u.written = 0 /\ u.last = 0 /\ u.rec = s.rec
        /\ u.entries = s.entries /\ Alike(s, u) /\ u.trust = s.trust
        /\ u.check = s.check /\ u.lost = s.lost /\ u.out = s.out /\ u.left = s.left
    BY <1>1, <2>2 DEF Stream, Alike
  <2>4. a = Find(vol[s.rec], s.name) /\ HasStream(vol[s.rec], s.name)
    BY <1>5
  <2> HIDE DEF u, z, a, rec
  <2>5. ASSUME NEW t, t.pc \in {"resident", "run", "next", "attr"}, t.attr = a,
               t.rec = s.rec, t.entries = s.entries, Alike(s, t)
        PROVE  ListInv(vol, t) /\ Begun(vol, t) = m + 1
    <3>1. t.pc \in InAttr \cup {"next"}
      BY <2>5 DEF InAttr
    <3> HIDE DEF s
    <3> QED BY <1>1, <1>2, <2>4, <2>5, <3>1, ListEnters
  (* The stream of a file compressed as a whole has one piece, this one. *)
  <2>6. ASSUME s.trust, s.name = "wof"
        PROVE  /\ Served(vol, s) /\ m = 0 /\ s.out = <<>> /\ Len(ps) = 1 /\ a = ps[1]
               /\ a.form = "runs" /\ ~a.packed /\ vol[Base].wof = "xpress"
    <3>1. Served(vol, s)
      BY <1>3, <2>6
    <3>2. /\ Len(ps) = 1 /\ Visited(vol, s.name) = ps /\ ps[1].form = "runs"
          /\ ~ps[1].packed /\ WofServed(vol, ps[1])
      BY <1>2, <2>6, <3>1 DEF Served
    <3>3. /\ m \in Nat /\ m + 1 <= Len(Visited(vol, s.name))
          /\ Visited(vol, s.name)[m + 1] = a
      BY <1>1, <1>2, <2>4, BegunFacts
    <3>4. m = 0
      <4> DEFINE vs == Visited(vol, s.name)
      <4>1. Len(vs) = 1
        BY <3>2
      <4>2. m \in Nat /\ m + 1 <= 1
        BY <3>3, <4>1
      <4> HIDE DEF m
      <4> QED BY <4>2
    <3>5. a = ps[1]
      BY <3>2, <3>3, <3>4
    <3>6. s.out = <<>>
      BY <1>1, <1>2, <2>6, <3>4 DEF DataInv, WofInv
    <3> QED BY <3>1, <3>2, <3>4, <3>5, <3>6 DEF WofServed
  <2>7. ASSUME NEW t, Alike(s, t), t.trust = s.trust, t.lost = s.lost, t.attr = a,
               t.rec = s.rec, t.entries = s.entries, t.check = s.check, t.out = s.out,
               t.left = s.left, t.r = 1, t.i = 0, t.written = 0, t.last = 0,
               t.pc \in {"resident", "run"},
               t.pc = IF a.form = "resident" THEN "resident" ELSE "run",
               a.form = "runs" => a.extents # <<>> /\ (s.name # "wof" \/ a.packed),
               Keep(c, t)
        PROVE  Moves(c)
    <3>1. ListInv(vol, t) /\ Begun(vol, t) = m + 1
      BY <2>5, <2>7
    <3>2. ASSUME t.trust, ~Copied(s) PROVE Blockwise(vol, reader, t)
      <4>1. Blockwise(vol, reader, s)
        BY <1>1, <1>2, <2>7, <3>2 DEF DataInv, BlocksInv
      <4>2. Served(vol, s)
        BY <1>3, <2>7, <3>2
      <4>3. t.pc = "run" => t.attr.form = "runs" /\ t.attr.extents # <<>>
        BY <2>2, <2>7
      <4>4. t.attr = Find(vol[s.rec], s.name)
            /\ t.pc = IF t.attr.form = "resident" THEN "resident" ELSE "run"
        BY <2>4, <2>7
      <4> HIDE DEF s
      <4> QED BY <1>1, <2>4, <2>7, <3>1, <3>2, <4>1, <4>2, <4>3, <4>4, EnterPlace
    <3>3. WofInv(vol, t)
      <4>1. ~(t.trust /\ t.name = "wof")
        <5>1. ASSUME t.trust, t.name = "wof" PROVE FALSE
          <6>1. s.trust /\ s.name = "wof"
            BY <2>7, <5>1 DEF Alike
          <6>2. a.form = "runs" /\ ~a.packed
            BY <2>6, <6>1
          <6> QED BY <2>7, <6>1, <6>2
        <5> QED BY <5>1
      <4> QED BY <4>1 DEF WofInv
    <3>4. Grown(s.out, t.out)
      BY <2>7 DEF Grown
    <3> HIDE DEF s
    <3>5. Advance(vol, reader, s, t)
      BY <1>1, <1>2, <2>7, <3>1, <3>2, <3>3, <3>4, Went
    <3> QED BY <1>1, <2>7, <3>5, KeepMoves DEF s
  <2>8. CASE a.form = "resident"
    <3>1. Keep(c, t1)
      BY <2>1, <2>8
    <3> HIDE DEF s
    <3>2. /\ Alike(s, t1) /\ t1.trust = s.trust /\ t1.lost = s.lost /\ t1.attr = a
          /\ t1.rec = s.rec /\ t1.entries = s.entries /\ t1.check = s.check
          /\ t1.out = s.out /\ t1.left = s.left /\ t1.r = 1 /\ t1.i = 0
          /\ t1.written = 0 /\ t1.last = 0 /\ t1.pc = "resident"
      BY <2>3 DEF Stream, Alike
    <3> HIDE DEF t1
    <3> QED BY <2>7, <2>8, <3>1, <3>2
  <2>9. CASE a.form = "runs" /\ a.extents # <<>> /\ (s.name # "wof" \/ a.packed)
    <3>1. Keep(c, t2)
      BY <2>1, <2>9
    <3> HIDE DEF s
    <3>2. /\ Alike(s, t2) /\ t2.trust = s.trust /\ t2.lost = s.lost /\ t2.attr = a
          /\ t2.rec = s.rec /\ t2.entries = s.entries /\ t2.check = s.check
          /\ t2.out = s.out /\ t2.left = s.left /\ t2.r = 1 /\ t2.i = 0
          /\ t2.written = 0 /\ t2.last = 0 /\ t2.pc = "run"
      BY <2>3 DEF Stream, Alike
    <3> HIDE DEF t2
    <3> QED BY <2>7, <2>9, <3>1, <3>2
  <2>10. CASE /\ a.form = "runs" /\ a.extents # <<>> /\ ~(s.name # "wof" \/ a.packed)
              /\ vol[Base].wof = None
    <3>1. Keep(c, t3)
      BY <2>1, <2>10
    <3>2. /\ Alike(s, t3) /\ t3.trust = s.trust /\ t3.lost = TRUE /\ t3.attr = a
          /\ t3.rec = s.rec /\ t3.entries = s.entries /\ t3.check = s.check
          /\ t3.out = s.out /\ t3.left = s.left /\ t3.pc = "next"
      <4> HIDE DEF s
      <4> QED BY <2>3 DEF Stream, Alike
    <3> HIDE DEF t3
    <3>3. ListInv(vol, t3)
      BY <2>5, <3>2
    <3>4. ~s.trust
      <4>1. ASSUME s.trust PROVE FALSE
        <5>1. vol[Base].wof = "xpress"
          BY <2>6, <2>10, <4>1
        <5> QED BY <2>10, <5>1 DEF None
      <4> QED BY <4>1
    <3>5. WofInv(vol, t3)
      BY <3>2, <3>4 DEF WofInv
    <3>6. Grown(s.out, t3.out)
      BY <3>2 DEF Grown
    <3> HIDE DEF s
    <3>7. Advance(vol, reader, s, t3)
      BY <1>1, <1>2, <3>2, <3>3, <3>4, <3>5, <3>6, Went
    <3> QED BY <1>1, <3>1, <3>7, KeepMoves DEF s
  <2>11. CASE /\ a.form = "runs" /\ a.extents # <<>> /\ ~(s.name # "wof" \/ a.packed)
              /\ vol[Base].wof # None
    <3> DEFINE t == t4
    <3>1. Keep(c, t)
      BY <2>1, <2>11
    <3>2. /\ Alike(s, t) /\ t.trust = s.trust /\ t.lost = s.lost /\ t.attr = a
          /\ t.rec = s.rec /\ t.entries = s.entries /\ t.check = s.check
          /\ t.out = s.out /\ t.left = s.left /\ t.pc = "attr" /\ t.r = 1
          /\ t.readSize = 0 /\ t.buf = z
      <4> HIDE DEF s
      <4> QED BY <2>3 DEF Stream, Alike
    <3> HIDE DEF t4
    <3>3. ListInv(vol, t)
      BY <2>5, <3>2
    <3>4. t.name = "wof" /\ t.mode # "data" /\ s.name = "wof"
      BY <1>2, <2>11, <3>2 DEF Alike
    <3>5. ASSUME t.trust
          PROVE  Served(vol, t) /\ CopyInv(vol, t) /\ WofInv(vol, t)
      <4>1. /\ Served(vol, s) /\ s.out = <<>> /\ a = ps[1] /\ a.form = "runs"
        BY <2>6, <2>11, <3>2, <3>4, <3>5
      <4>2. Served(vol, t)
        BY <3>2, <4>1, AlikeFacts
      <4>3. ps = Pieces(vol, t.name)
        BY <3>2 DEF Alike
      <4>4. CopyInv(vol, t)
        <5>2. t.mode \in {"process", "virtual", "data"} /\ Copied(t)
          BY <1>2, <3>2, <3>4 DEF Alike, Copied
        <5>3. t.attr = Pieces(vol, t.name)[1] /\ t.out = <<>> /\ t.attr.form = "runs"
              /\ t.buf = Zeros(t.attr.alloc % Word)
          BY <3>2, <4>1, <4>3 DEF z
        <5> HIDE DEF t
        <5> QED BY <1>1, <3>2, <4>2, <5>2, <5>3, CopyBegins
      <4>5. WofInv(vol, t)
        <5>1. \A f : Len(f) \in Nat => Beginning(f, <<>>)
          <6>1. Len(<<>>) = 0
            OBVIOUS
          <6> QED BY <6>1 DEF Beginning
        <5>2. Len(Unpacked(Pieces(vol, "wof")[1].extents[1].at + 1)) \in Nat
          BY UnpackedLen
        <5>3. Beginning(Unpacked(Pieces(vol, "wof")[1].extents[1].at + 1), t.out)
          BY <3>2, <4>1, <5>1, <5>2
        <5> QED BY <3>2, <5>3 DEF WofInv
      <4> QED BY <4>2, <4>4, <4>5
    <3>6. ~t.lost => Whole(vol, t)
      BY <1>1, <3>2, AlikeFacts DEF DataInv
    <3>7. DataInv(vol, reader, t)
      <4>1. t.pc # "idle" /\ Copied(t)
        BY <3>2, <3>4 DEF Copied
      <4>2. CopyInv(vol, t) /\ WofInv(vol, t)
        BY <3>5 DEF CopyInv, WofInv
      <4> HIDE DEF t
      <4> QED BY <3>3, <3>4, <3>5, <3>6, <4>1, <4>2 DEF DataInv, BlocksInv
    <3>8. t.pc \in Running /\ Grown(s.out, t.out)
      BY <3>2 DEF Running, InAttr, Grown
    <3> HIDE DEF s
    <3>9. Advance(vol, reader, s, t)
      BY <1>2, <3>2, <3>7, <3>8 DEF Advance
    <3> QED BY <1>1, <3>1, <3>9, KeepMoves DEF s
  <2>12. CASE a.form = "runs" /\ a.extents = <<>>
    <3>1. Keep(c, t5)
      BY <2>1, <2>12
    <3> HIDE DEF s
    <3>2. /\ Alike(s, t5) /\ t5.trust = s.trust /\ t5.lost = TRUE
          /\ t5.out = s.out /\ t5.pc = "threw"
      BY <2>3 DEF Stream, Alike
    <3> HIDE DEF t5
    <3>3. Advance(vol, reader, s, t5)
      BY <1>1, <1>2, <3>2, EndsAsItIs DEF Endings
    <3> QED BY <1>1, <3>1, <3>3, KeepMoves DEF s
  <2> QED BY <2>2, <2>8, <2>9, <2>10, <2>11, <2>12
<1> QED BY <1>4, <1>5

LEMMA NextPieceMoves ==
  ASSUME StreamInv, NEW c \in Client, DataInv(vol, reader, k[c]), NextPiece(c)
  PROVE  Moves(c)
<1> DEFINE s == k[c]
           n == Head(s.entries).rec
           es == Tail(s.entries)
           t0 == [s EXCEPT !.entries = es]
           t1 == [t0 EXCEPT !.pc = "enter", !.rec = n]
           t2 == [t0 EXCEPT !.pc = "threw", !.lost = TRUE]
<1>1. /\ vol \in Volumes /\ s \in Stream(vol) /\ DataInv(vol, reader, s)
      /\ s.pc = "next" /\ s.entries # <<>>
  BY Now DEF NextPiece
<1>2. /\ s.pc \in Running /\ s.mode # "data" /\ ListInv(vol, s)
  <2>1. s.pc \in Running /\ s.pc \in Running \ {"attr"}
    BY <1>1 DEF Running, InAttr
  <2> QED BY <1>1, <2>1 DEF DataInv
<1>3. \/ n = Base /\ Keep(c, t0) /\ reader' = reader
      \/ /\ n # Base
         /\ \E x \in RecordFromNumber(reader, n) :
              reader' = x.rd /\ Touch(c, IF x.ok THEN t1 ELSE t2)
  BY DEF NextPiece
<1>4. es = Tail(s.entries) /\ n = Head(s.entries).rec
  OBVIOUS
<1> HIDE DEF s, n, es
<1>5. CASE n = Base /\ Keep(c, t0) /\ reader' = reader
  <2>1. /\ Alike(s, t0) /\ t0.pc = "next" /\ t0.entries = es /\ t0.rec = s.rec
        /\ t0.trust = s.trust /\ t0.lost = s.lost /\ t0.out = s.out
        /\ t0.left = s.left /\ t0.check = s.check
    BY <1>1 DEF Stream, Alike
  <2> HIDE DEF t0
  <2>2. ListInv(vol, t0) /\ Begun(vol, t0) = Begun(vol, s)
    BY <1>1, <1>2, <1>4, <1>5, <2>1, ListTakes
  <2>3. Advance(vol, reader, s, t0)
    BY <1>1, <2>1, <2>2, PassedOn
  <2> QED BY <1>5, <2>3, KeepMoves DEF s
<1>6. CASE /\ n # Base
           /\ \E x \in RecordFromNumber(reader, n) :
                reader' = x.rd /\ Touch(c, IF x.ok THEN t1 ELSE t2)
  <2>1. Touch(c, t1) \/ Touch(c, t2)
    BY <1>6
  <2>2. /\ Alike(s, t1) /\ t1.pc = "enter" /\ t1.entries = es /\ t1.rec = n
        /\ t1.trust = s.trust /\ t1.lost = s.lost /\ t1.out = s.out
        /\ t1.left = s.left /\ t1.check = s.check
    BY <1>1 DEF Stream, StreamState, Alike
  <2>3. /\ Alike(s, t2) /\ t2.pc = "threw" /\ t2.trust = s.trust /\ t2.lost = TRUE
        /\ t2.out = s.out
    BY <1>1 DEF Stream, StreamState, Alike
  <2> HIDE DEF t1, t2
  <2>4. ListInv(vol, t1) /\ Begun(vol, t1) = Begun(vol, s)
    BY <1>1, <1>2, <1>4, <1>6, <2>2, ListTakes
  <2>5. Advance(vol, reader', s, t1)
    BY <1>1, <2>2, <2>4, PassedOn
  <2>6. Advance(vol, reader', s, t2)
    BY <1>1, <1>2, <2>3, EndsAsItIs DEF Endings
  <2> QED BY <2>1, <2>5, <2>6, TouchMoves DEF s
<1> QED BY <1>3, <1>5, <1>6

(* The end: a stream that has lost nothing has come to all of its pieces.  *)
LEMMA AllVisited ==
  ASSUME NEW v \in Volumes, NEW s \in Stream(v), Served(v, s), Whole(v, s),
         ListInv(v, s), s.pc = "next", s.entries = <<>>, s.mode # "data"
  PROVE  Begun(v, s) >= Len(Pieces(v, s.name)) /\ Len(Pieces(v, s.name)) >= 1
<1> DEFINE ps == Pieces(v, s.name)
           vs == Visited(v, s.name)
<1>1. Begun(v, s) = Len(vs) /\ Len(vs) \in Nat
  BY BegunFacts DEF Running
<1>2. Len(ps) \in Nat /\ 1 \in 1..Len(ps)
  BY JoinedFacts
<1>3. Len(ps) <= Len(vs)
  BY DEF Whole, IsPrefix
<1> HIDE DEF ps, vs
<1>4. Len(ps) >= 1
  BY <1>2
<1> QED BY <1>1, <1>2, <1>3, <1>4 DEF ps

LEMMA StreamEndMoves ==
  ASSUME StreamInv, NEW c \in Client, DataInv(vol, reader, k[c]), StreamEnd(c)
  PROVE  Moves(c)
<1> DEFINE s == k[c]
           t == [s EXCEPT !.pc = "done"]
<1>1. /\ vol \in Volumes /\ s \in Stream(vol) /\ DataInv(vol, reader, s)
      /\ s.pc = "next" /\ s.entries = <<>> /\ Keep(c, t) /\ reader' = reader
  BY Now DEF StreamEnd
<1>2. /\ s.pc \in Running /\ s.mode # "data" /\ ListInv(vol, s) /\ s.lost \in BOOLEAN
      /\ s.mode \in {"process", "virtual", "data"} /\ s.left \in Nat
      /\ s.out \in Seq(Int) /\ Len(s.out) \in Nat
  <2>1. s.pc \in Running /\ s.pc \in Running \ {"attr"}
    BY <1>1 DEF Running, InAttr
  <2>2. s.out \in Seq(Int)
    BY <1>1 DEF Stream
  <2> QED BY <1>1, <2>1, <2>2, LenProperties DEF DataInv, Stream
<1>3. /\ Alike(s, t) /\ t.pc = "done" /\ t.trust = s.trust /\ t.lost = s.lost
      /\ t.out = s.out /\ t.mode = s.mode /\ t.name = s.name
  BY <1>1 DEF Stream, StreamState, Alike
<1> HIDE DEF s, t
<1>4. CASE s.lost
  <2>1. Advance(vol, reader, s, t)
    BY <1>1, <1>2, <1>3, <1>4, EndsAsItIs DEF Endings
  <2> QED BY <1>1, <2>1, KeepMoves DEF s
<1>5. CASE ~s.lost
  <2>1. ASSUME s.trust PROVE s.out = FileAt(vol, s)
    <3>1. Served(vol, s) /\ Whole(vol, s)
      BY <1>1, <1>5, <2>1 DEF DataInv
    <3>2. Begun(vol, s) >= Len(Pieces(vol, s.name)) /\ Len(Pieces(vol, s.name)) >= 1
      BY <1>1, <1>2, <3>1, AllVisited
    <3>3. CASE s.name = "wof"
      <4>1. Begun(vol, s) = 0
        BY <1>1, <1>2, <1>5, <2>1, <3>3 DEF DataInv, WofInv
      <4>2. Len(Pieces(vol, s.name)) = 1
        BY <1>2, <3>1, <3>3 DEF Served
      <4> DEFINE x == Len(Pieces(vol, s.name))
      <4>3. 0 >= x /\ x = 1
        BY <3>2, <4>1, <4>2
      <4> HIDE DEF x
      <4> QED BY <4>3
    <3>4. CASE s.name # "wof"
      <4> DEFINE all == All(vol, s)
                 size == FileSize(vol, s)
                 ps == Pieces(vol, s.name)
                 f == SubSeq(all, 1, size)
      <4>1. Blockwise(vol, reader, s)
        BY <1>1, <1>2, <2>1, <3>4 DEF DataInv, BlocksInv, Copied
      <4>2. /\ Beginning(all, s.out) /\ Len(s.out) + s.left = size
            /\ s.left = 0 \/ InPlace(vol, reader, s)
        BY <1>5, <4>1 DEF Blockwise
      <4>3. /\ size \in Nat /\ size <= Len(all) /\ Len(all) \in Nat /\ Len(f) = size
            /\ f \in Seq(Int) /\ \A u \in 1..size : f[u] = all[u]
            /\ FileAt(vol, s) = f
        BY <1>1, <1>2, <3>1, <3>4, FileFacts DEF FileAt
      <4>4. ASSUME s.left # 0 PROVE FALSE
        <5>1. InPlace(vol, reader, s)
          BY <4>2, <4>4
        <5>2. InPiece(s) = 0 /\ s.pc \notin InAttr
          BY <1>1 DEF InPiece, InAttr
        <5> DEFINE m == Begun(vol, s)
        <5>3. m <= Len(ps) /\ Len(s.out) = PieceAt(vol, s)[m + 1] + 0
          BY <5>1, <5>2 DEF InPlace
        <5>4. Len(ps) \in Nat /\ Len(all) = PieceAt(vol, s)[Len(ps) + 1]
          BY <1>1, <3>1, JoinedFacts
        <5>5. m \in Nat
          BY <1>1, <1>2, BegunFacts
        <5>6. m >= Len(ps)
          BY <3>2
        <5> HIDE DEF m, all, size, ps
        <5>7. m = Len(ps)
          BY <5>3, <5>4, <5>5, <5>6
        <5>8. Len(s.out) = Len(all) + 0
          BY <5>3, <5>4, <5>7
        <5> QED BY <1>2, <4>2, <4>3, <4>4, <5>8
      <4> HIDE DEF all, size, f
      <4>5. Len(s.out) = size
        BY <1>2, <4>2, <4>3, <4>4
      <4>6. \A u \in 1..size : s.out[u] = f[u]
        BY <4>2, <4>3, <4>5 DEF Beginning
      <4>7. s.out = f
        BY <1>2, <4>3, <4>5, <4>6, SeqEqual
      <4> QED BY <4>3, <4>7
    <3> QED BY <3>3, <3>4
  <2>2. t.trust => Whither(vol, t)
    BY <1>3, <1>5, <2>1 DEF Whither, FileAt
  <2>3. s.pc # "idle" /\ t.pc # "idle" /\ t.pc \notin Running /\ t.pc \in Endings
    BY <1>1, <1>3 DEF Running, InAttr, Endings
  <2>4. DataInv(vol, reader, t)
    <3>1. /\ t.trust => Served(vol, t) /\ Served(vol, s)
          /\ ~t.lost => Whole(vol, t)
      BY <1>1, <1>3, <2>3, DataSame
    <3>2. t.pc \notin {"attr", "wof"}
      BY <1>3
    <3> QED BY <2>3, <3>1, <3>2 DEF DataInv, ListInv, BlocksInv, CopyInv, WofInv
  <2>5. Advance(vol, reader, s, t)
    BY <1>2, <1>3, <2>2, <2>3, <2>4 DEF Advance
  <2> QED BY <1>1, <2>5, KeepMoves DEF s
<1> QED BY <1>2, <1>4, <1>5

-----------------------------------------------------------------------------
(* An attribute that is copied into a buffer.                              *)
LEMMA CopyPlace ==
  ASSUME NEW v \in Volumes, NEW q, Served(v, q), Copied(q),
         q.mode \in {"process", "virtual", "data"}, Pieces(v, q.name)[1].form = "runs"
  PROVE  LET ps == Pieces(v, q.name)  a == ps[1]  all == All(v, q)
         IN  /\ 1 \in 1..Len(ps) /\ Laid(a) /\ ~a.packed
             /\ a.alloc < Word /\ a.alloc = Len(all) /\ Len(all) \in Nat
             /\ a.size \in Nat /\ a.size <= Len(all)
             /\ Len(a.extents) \in Nat /\ DOMAIN a.extents = 1..Len(a.extents)
             /\ \A j \in DOMAIN a.extents :
                  LET e == a.extents[j]
                  IN  IF e.kind = "hole" THEN j = 1 ELSE e.kind = "data" /\ e.at # 0
<1> DEFINE ps == Pieces(v, q.name)
           a == ps[1]
           all == All(v, q)
<1>1. 1 \in 1..Len(ps) /\ DOMAIN ps = 1..Len(ps) /\ Laid(a)
  BY JoinedFacts
<1>2. /\ a.alloc = Len(all) /\ Len(all) \in Nat
      /\ a.size \in Nat /\ a.size <= Len(all)
  BY FileFacts
<1>3. LayoutServed(ps, 1, q)
  BY <1>1 DEF Served
<1>4. ~(a.packed /\ q.mode = "process")
  <2>1. ASSUME a.packed, q.mode = "process" PROVE FALSE
    <3>1. q.name = "wof"
      BY <2>1 DEF Copied
    <3>2. ~ps[1].packed
      BY <2>1, <3>1 DEF Served
    <3> QED BY <2>1, <3>2
  <2> QED BY <2>1
<1>5. ~a.packed /\ a.alloc < Word /\ PlainLayout(a, 1, 1 = 1 /\ HolesServed(a, q))
  BY <1>3, <1>4 DEF LayoutServed
<1>6. a.extents \in Seq(Extent) /\ Len(a.extents) \in Nat
      /\ DOMAIN a.extents = 1..Len(a.extents)
  BY <1>1, RunFacts DEF Laid
<1>7. ASSUME NEW j \in DOMAIN a.extents
      PROVE  LET e == a.extents[j]
             IN  IF e.kind = "hole" THEN j = 1 ELSE e.kind = "data" /\ e.at # 0
  <2> DEFINE e == a.extents[j]
  <2>1. e \in Extent
    BY <1>6, ElementOfSeq
  <2>2. e.kind \in {"data", "packed", "hole"}
    <3> HIDE DEF e
    <3> QED BY <2>1 DEF Extent
  <2>3. e.kind # "packed"
    BY <1>1, <1>5 DEF Laid, IsAttribute
  <2>4. IF e.kind = "hole" THEN j = 1 ELSE e.at # 0
    BY <1>5 DEF PlainLayout
  <2> QED BY <2>2, <2>3, <2>4
<1> QED BY <1>1, <1>2, <1>5, <1>6, <1>7

(* Where extent r is a hole the data is zeros. *)
HoleCopied(v, q, r) ==
  LET a == Pieces(v, q.name)[1]  n == a.extents[r].len * Cluster
  IN  a.extents[r].kind = "hole" => \A u \in 1..n : All(v, q)[Filled(a, r) + u] = Zero

(* The extents of it, and where they are in the buffer. *)
LEMMA CopyExtent ==
  ASSUME NEW v \in Volumes, NEW q, Served(v, q), Copied(q),
         q.mode \in {"process", "virtual", "data"}, Pieces(v, q.name)[1].form = "runs",
         NEW r \in DOMAIN Pieces(v, q.name)[1].extents
  PROVE  LET a == Pieces(v, q.name)[1]  e == a.extents[r]  all == All(v, q)
             n == e.len * Cluster  x == Filled(a, r)
         IN  /\ x \in Nat /\ n \in Nat /\ n < Word /\ e.at \in Nat
             /\ Filled(a, 1) = 0 /\ Filled(a, r + 1) = x + n /\ x + n <= Len(all)
             /\ e.kind = "data" =>
                  /\ Decoded(a)[r].offset = e.at
                  /\ \A u \in 1..n : all[x + u] = e.at * Cluster + u - 1
             /\ HoleCopied(v, q, r)
             /\ Decoded(a)[r].offset = 0 <=> e.kind = "hole"
<1> DEFINE ps == Pieces(v, q.name)
           a == ps[1]
           e == a.extents[r]
           all == All(v, q)
           n == e.len * Cluster
           x == Filled(a, r)
           b == PieceAt(v, q)
<1>1. /\ 1 \in 1..Len(ps) /\ Laid(a) /\ ~a.packed /\ a.alloc < Word
      /\ a.alloc = Len(all) /\ Len(all) \in Nat
      /\ Len(a.extents) \in Nat /\ DOMAIN a.extents = 1..Len(a.extents)
      /\ IF e.kind = "hole" THEN r = 1 ELSE e.kind = "data" /\ e.at # 0
  BY CopyPlace
<1>2. b[1] = 0
  BY JoinedFacts
<1>13. ps[1].form = "runs" /\ 1 \in 1..Len(Pieces(v, q.name))
  BY <1>1
<1>3. /\ e \in Extent /\ n \in Nat /\ ExtentAt(a)[r] \in Nat
      /\ ExtentAt(a)[r + 1] = ExtentAt(a)[r] + LengthOf(a, e)
      /\ b[1] + ExtentAt(a)[r + 1] <= Len(all)
      /\ e.kind = "data" => \A u \in 1..LengthOf(a, e) :
           all[b[1] + ExtentAt(a)[r] + u] = e.at * Cluster + u - 1
      /\ e.kind = "hole" => \A u \in 1..LengthOf(a, e) :
           all[b[1] + ExtentAt(a)[r] + u] = Zero
  <2>1. r \in 1..Len(a.extents)
    BY <1>1
  <2>2. e \in Extent /\ n \in Nat /\ ExtentAt(a)[r] \in Nat
    BY <1>13, <2>1, ExtentIsPart
  <2>5. /\ ExtentAt(a)[r + 1] = ExtentAt(a)[r] + LengthOf(a, e)
        /\ b[1] + ExtentAt(a)[r + 1] <= Len(all)
    BY <1>13, <2>1, ExtentIsPart
  <2>3. e.kind = "data" => \A u \in 1..LengthOf(a, e) :
          all[b[1] + ExtentAt(a)[r] + u] = e.at * Cluster + u - 1
    BY <1>13, <2>1, ExtentIsPart
  <2>4. e.kind = "hole" => \A u \in 1..LengthOf(a, e) :
          all[b[1] + ExtentAt(a)[r] + u] = Zero
    BY <1>13, <2>1, ExtentIsPart
  <2> QED BY <2>2, <2>3, <2>4, <2>5
<1>4. LengthOf(a, e) = n
  BY <1>1 DEF LengthOf
<1>5. ExtentAt(a)[r] = x /\ ExtentAt(a)[r + 1] = Filled(a, r + 1) /\ Filled(a, 1) = 0
  <2>1. r \in 1..(Len(a.extents) + 1) /\ r + 1 \in 1..(Len(a.extents) + 1)
    BY <1>1
  <2>2. \A i \in 1..(Len(a.extents) + 1) : ExtentAt(a)[i] = Filled(a, i)
    BY <1>1, PlainPlaces
  <2>3. Filled(a, 1) = 0
    BY <1>1, FilledFacts DEF Laid
  <2> QED BY <2>1, <2>2, <2>3
<1>6. /\ e.kind # "hole" => Decoded(a)[r].offset = e.at
      /\ e.kind = "hole" => Decoded(a)[r].offset = IF r = 1 THEN 0
                                                   ELSE Decoded(a)[r - 1].offset
  BY <1>1, OffsetFacts
<1>7. Decoded(a)[r].offset = 0 <=> e.kind = "hole"
  BY <1>1, <1>6
<1>8. e.at \in Nat
  <2> HIDE DEF e
  <2> QED BY <1>3 DEF Extent
<1>9. x \in Nat
  BY <1>3, <1>5
<1> DEFINE y == Filled(a, r + 1)
           l == Len(all)
<1>10. /\ y = x + n /\ 0 + y <= l /\ l < Word /\ l \in Nat
  BY <1>1, <1>2, <1>3, <1>4, <1>5
<1>11. ASSUME NEW u \in 1..n
       PROVE  /\ e.kind = "data" => all[x + u] = e.at * Cluster + u - 1
              /\ e.kind = "hole" => all[x + u] = Zero
  <2>1. b[1] + ExtentAt(a)[r] + u = x + u
    <3> DEFINE g == ExtentAt(a)[r]  f == b[1]
    <3>1. f = 0 /\ g = x
      BY <1>2, <1>5
    <3> HIDE DEF f, g, x, n
    <3>2. u \in Nat
      BY <1>3
    <3>3. f + g + u = x + u
      BY <1>9, <3>1, <3>2
    <3> QED BY <3>3 DEF f, g
  <2> QED BY <1>3, <1>4, <2>1
<1>12. x + n <= l /\ n < Word
  <2> HIDE DEF x, n, y, l
  <2> QED BY <1>3, <1>9, <1>10, StreamAssumption
<1>14. HoleCopied(v, q, r)
  BY <1>11 DEF HoleCopied
<1> QED BY <1>3, <1>5, <1>6, <1>7, <1>8, <1>9, <1>10, <1>11, <1>12, <1>14

(* How much an extent adds, and what a hole is. *)
LEMMA CopyRoom ==
  ASSUME NEW v \in Volumes, NEW q, Served(v, q), Copied(q),
         q.mode \in {"process", "virtual", "data"}, Pieces(v, q.name)[1].form = "runs",
         NEW r \in DOMAIN Pieces(v, q.name)[1].extents
  PROVE  LET a == Pieces(v, q.name)[1]  n == a.extents[r].len * Cluster
         IN  n \in Nat /\ Filled(a, r + 1) = Filled(a, r) + n
BY CopyExtent

LEMMA CopyHole ==
  ASSUME NEW v \in Volumes, NEW q, Served(v, q), Copied(q),
         q.mode \in {"process", "virtual", "data"}, Pieces(v, q.name)[1].form = "runs",
         NEW r \in DOMAIN Pieces(v, q.name)[1].extents
  PROVE  LET a == Pieces(v, q.name)[1]  n == a.extents[r].len * Cluster
         IN  a.extents[r].kind = "hole" =>
               \A u \in 1..n : All(v, q)[Filled(a, r) + u] = Zero
<1>1. HoleCopied(v, q, r)
  BY CopyExtent
<1> QED BY <1>1 DEF HoleCopied

LEMMA CopyData ==
  ASSUME NEW v \in Volumes, NEW q, Served(v, q), Copied(q),
         q.mode \in {"process", "virtual", "data"}, Pieces(v, q.name)[1].form = "runs",
         NEW r \in DOMAIN Pieces(v, q.name)[1].extents
  PROVE  LET a == Pieces(v, q.name)[1]  e == a.extents[r]  n == e.len * Cluster
         IN  e.kind = "data" =>
               \A u \in 1..n : All(v, q)[Filled(a, r) + u] = e.at * Cluster + u - 1
BY CopyExtent

LEMMA CopyAt ==
  ASSUME NEW v \in Volumes, NEW q, Served(v, q), Copied(q),
         q.mode \in {"process", "virtual", "data"}, Pieces(v, q.name)[1].form = "runs",
         NEW r \in DOMAIN Pieces(v, q.name)[1].extents
  PROVE  LET a == Pieces(v, q.name)[1]  e == a.extents[r]  n == e.len * Cluster
         IN  /\ Filled(a, r) \in Nat /\ n < Word /\ Filled(a, r) + n <= Len(All(v, q))
             /\ e.kind = "data" => Decoded(a)[r].offset = e.at
             /\ Decoded(a)[r].offset = 0 <=> e.kind = "hole"
BY CopyExtent

LEMMA Fills ==
  ASSUME NEW size \in Nat, NEW there \in Nat, there <= size, NEW n \in Nat
  PROVE  LET now == there + Min({size - there, n})
         IN  /\ now \in Nat /\ there <= now /\ now <= size /\ now <= there + n
             /\ now = size \/ now = there + n
<1> DEFINE g == size - there
<1>1. g \in Int /\ g >= 0 /\ g + there = size
  OBVIOUS
<1> HIDE DEF g
<1>2. Min({g, n}) = IF g <= n THEN g ELSE n
  BY <1>1, MinOfTwo
<1>3. g = size - there
  BY DEF g
<1>4. CASE g <= n
  BY <1>1, <1>2, <1>3, <1>4
<1>5. CASE ~(g <= n)
  BY <1>1, <1>2, <1>3, <1>5
<1> QED BY <1>4, <1>5

(* It is read on, or done with. *)
LEMMA CopiesOn ==
  ASSUME NEW v \in Volumes, NEW rd, NEW rd2, NEW s \in Stream(v), NEW t,
         DataInv(v, rd, s), PlaceInv(v, s), Alike(s, t), t.trust => s.trust,
         s.lost => t.lost, s.pc = "attr", t.pc \in {"attr", "wof"},
         t.pc = "wof" => s.mode # "data",
         t.rec = s.rec, t.entries = s.entries, t.attr = s.attr, t.out = s.out,
         t.trust /\ Served(v, s) /\ Copied(s) /\ CopyInv(v, s) => CopyInv(v, t)
  PROVE  Advance(v, rd2, s, t)
<1>1. /\ s.pc \in Running /\ s.pc \in InAttr /\ t.pc \in Running /\ t.pc \in InAttr
      /\ s.pc # "idle" /\ t.pc # "idle" /\ t.mode = s.mode /\ t.name = s.name
      /\ s.rec \in DOMAIN v
  BY DEF Running, InAttr, Alike, Stream
<1>2. Copied(s) /\ Copied(t)
  <2>1. ASSUME s.mode # "data" PROVE s.name = "wof"
    <3>1. s.attr.name = "wof"
      BY <2>1 DEF PlaceInv
    <3>2. HasStream(v[s.rec], s.name) /\ s.attr = Find(v[s.rec], s.name)
      BY <1>1, <2>1 DEF DataInv, ListInv
    <3> QED BY <1>1, <3>1, <3>2, AttributeFacts
  <2> QED BY <1>1, <2>1 DEF Copied
<1>3. /\ t.trust => Served(v, t) /\ Served(v, s)
      /\ ~t.lost => Whole(v, t)
  BY <1>1, DataSame
<1>4. ListInv(v, t)
  <2>1. CASE s.mode = "data"
    BY <1>1, <2>1 DEF ListInv
  <2>2. CASE s.mode # "data"
    BY <1>1, <2>2, ListStays DEF DataInv
  <2> QED BY <2>1, <2>2
<1>5. CopyInv(v, t)
  <2>1. CASE t.trust
    BY <1>2, <1>3, <2>1 DEF DataInv
  <2>2. CASE ~t.trust
    BY <2>2 DEF CopyInv
  <2> QED BY <2>1, <2>2
<1>6. WofInv(v, t)
  BY <1>1 DEF DataInv, WofInv
<1>7. BlocksInv(v, rd2, t)
  BY <1>2 DEF BlocksInv
<1>8. t.mode = "data" => t.pc \notin Running \ {"attr"}
  BY <1>1
<1>9. DataInv(v, rd2, t)
  BY <1>1, <1>3, <1>4, <1>5, <1>6, <1>7, <1>8 DEF DataInv
<1> QED BY <1>1, <1>9 DEF Advance, Grown

(* What is in the buffer once it has been filled on. *)
LEMMA BufferFilled ==
  ASSUME NEW v \in Volumes, NEW s, NEW t, Served(v, s), Copied(s), Alike(s, t),
         s.mode \in {"process", "virtual", "data"},
         s.pc = "attr", t.pc = "attr", s.trust, CopyInv(v, s), s.attr.form = "runs",
         s.r \in DOMAIN s.attr.extents, s.readSize \in Nat, s.readSize <= s.attr.size,
         t.attr = s.attr, t.out = s.out, t.r = s.r + 1,
         LET n == s.attr.extents[s.r].len * Cluster
         IN  /\ t.readSize = s.readSize + Min({s.attr.size - s.readSize, n})
             /\ Len(t.buf) = Len(s.buf)
             /\ \A u \in 1..s.readSize : t.buf[u] = s.buf[u]
             /\ s.readSize = Filled(s.attr, s.r) =>
                  \A u \in 1..n : u <= Len(s.buf) - s.readSize =>
                    t.buf[s.readSize + u] = All(v, s)[s.readSize + u]
  PROVE  CopyInv(v, t)
<1> DEFINE ps == Pieces(v, s.name)
           all == All(v, s)
           a == s.attr
           n == a.extents[s.r].len * Cluster
           there == s.readSize
           now == t.readSize
           size == a.size
           l == Len(all)
<1>1. /\ a = ps[1] /\ s.out = <<>> /\ Len(s.buf) = l
      /\ \A u \in 1..there : s.buf[u] = all[u]
      /\ there = size \/ s.r > Len(a.extents) \/ there = Filled(a, s.r)
  BY DEF CopyInv, All
<1>2. /\ size \in Nat /\ size <= l /\ l \in Nat /\ Len(a.extents) \in Nat
      /\ DOMAIN a.extents = 1..Len(a.extents)
  <2> DEFINE f == ps[1]
  <2>1. f.form = "runs"
    BY <1>1
  <2>2. /\ f.size \in Nat /\ f.size <= l /\ l \in Nat /\ Len(f.extents) \in Nat
        /\ DOMAIN f.extents = 1..Len(f.extents)
    BY <2>1, CopyPlace
  <2> HIDE DEF f, l
  <2> QED BY <1>1, <2>2 DEF f
<1>3. n \in Nat /\ Filled(a, s.r + 1) = Filled(a, s.r) + n
  <2> DEFINE f == ps[1]
             e == f.extents[s.r]
  <2>1. f.form = "runs" /\ s.r \in DOMAIN f.extents
    BY <1>1
  <2>2. e.len * Cluster \in Nat /\ Filled(f, s.r + 1) = Filled(f, s.r) + e.len * Cluster
    BY <2>1, CopyRoom
  <2> HIDE DEF ps
  <2> QED BY <1>1, <2>2
<1>4. s.r \in Nat \ {0} /\ ~(s.r > Len(a.extents)) /\ t.r # 1
  BY <1>2
<1>5. now = there + Min({size - there, n})
  OBVIOUS
<1>6. \A u \in 1..there : t.buf[u] = s.buf[u]
  OBVIOUS
<1>7. there = Filled(a, s.r) => \A u \in 1..n : u <= l - there =>
        t.buf[there + u] = all[there + u]
  BY <1>1
<1>8. there \in Nat /\ there <= size
  OBVIOUS
<1>14. t.r = s.r + 1 /\ t.attr = a /\ t.name = s.name
  BY DEF Alike
<1> HIDE DEF n, there, now, size, l, a, all
<1>9. /\ now \in Nat /\ there <= now /\ now <= size /\ now <= there + n
      /\ now = size \/ now = there + n
  <2> DEFINE g == Min({size - there, n})
  <2>1. LET x == there + Min({size - there, n})
        IN  /\ x \in Nat /\ there <= x /\ x <= size /\ x <= there + n
            /\ x = size \/ x = there + n
    BY <1>2, <1>3, <1>8, Fills
  <2> QED BY <1>5, <2>1
<1>10. ASSUME NEW u \in 1..now PROVE t.buf[u] = all[u]
  <2>1. CASE u <= there
    <3>1. u \in 1..there
      BY <1>8, <1>9, <2>1
    <3> QED BY <1>1, <1>6, <3>1
  <2>2. CASE u > there
    <3>1. there = Filled(a, s.r)
      BY <1>1, <1>4, <1>8, <1>9, <2>2
    <3> DEFINE i == u - there
    <3>2. i \in 1..n /\ i <= l - there /\ there + i = u
      BY <1>2, <1>3, <1>8, <1>9, <2>2
    <3> HIDE DEF i
    <3> QED BY <1>7, <3>1, <3>2
  <2> QED BY <1>8, <1>9, <2>1, <2>2
<1>11. now = size \/ now = Filled(a, t.r)
  <2>1. CASE now = size
    BY <2>1
  <2>2. CASE now # size
    <3>1. there = Filled(a, s.r)
      <4>1. there # size
        BY <1>8, <1>9, <2>2
      <4> QED BY <1>1, <1>4, <4>1
    <3>2. now = Filled(a, s.r) + n
      BY <1>9, <2>2, <3>1
    <3> QED BY <1>3, <1>14, <3>2
  <2> QED BY <2>1, <2>2
<1>12. Len(t.buf) = l
  BY <1>1
<1>13. t.r # 1 /\ t.out = <<>> /\ a = Pieces(v, t.name)[1] /\ a.form = "runs"
  BY <1>1, <1>4, <1>14 DEF a
<1> HIDE DEF ps
<1> QED BY <1>10, <1>11, <1>12, <1>13, <1>14 DEF CopyInv, now, size, l, all, All

LEMMA AttrHoleMoves ==
  ASSUME StreamInv, NEW c \in Client, DataInv(vol, reader, k[c]), AttrHole(c)
  PROVE  Moves(c)
<1> DEFINE s == k[c]
           n == Bytes(Run(s))
           r1 == s.r + 1
           now == s.readSize + Min({RoomLeft(s), n})
           t == [s EXCEPT !.r = r1, !.readSize = now]
<1>1. /\ s.pc = "attr" /\ s.attr.form = "runs" /\ s.r <= Len(Runs(s))
      /\ Run(s).offset = 0 /\ Keep(c, t) /\ reader' = reader
  BY DEF AttrHole
<1>2. /\ vol \in Volumes /\ s \in Stream(vol) /\ DataInv(vol, reader, s)
      /\ IsAttribute(s.attr) /\ PlaceInv(vol, s)
      /\ s.r \in Nat /\ s.r \in DOMAIN s.attr.extents /\ s.readSize \in Nat
  BY <1>1, CopyFacts
<1>3. n = s.attr.extents[s.r].len * Cluster
  BY <1>2, BytesFacts
<1>4. now = s.readSize + Min({s.attr.size - s.readSize, n}) /\ r1 = s.r + 1
  BY DEF RoomLeft
<1>5. s.mode \in {"process", "virtual", "data"} /\ s.readSize <= s.attr.size
  BY <1>1, <1>2 DEF Stream, PlaceInv
<1>6. Run(s).offset = Decoded(s.attr)[s.r].offset
  BY DEF Run, Runs
<1> HIDE DEF n, now, r1, s
<1>7. /\ Alike(s, t) /\ t.pc = "attr" /\ t.r = r1 /\ t.readSize = now
      /\ t.trust = s.trust /\ t.lost = s.lost /\ t.buf = s.buf
      /\ t.out = s.out /\ t.rec = s.rec /\ t.entries = s.entries /\ t.attr = s.attr
  BY <1>1, <1>2 DEF Stream, Alike
<1> HIDE DEF t
<1>8. ASSUME t.trust, Served(vol, s), Copied(s), CopyInv(vol, s) PROVE CopyInv(vol, t)
  <2> DEFINE all == All(vol, s)
             a == s.attr
             y == Filled(a, s.r)
  <2>1. a = Pieces(vol, s.name)[1] /\ s.trust
    BY <1>1, <1>7, <1>8 DEF CopyInv
  <2>2. /\ a.extents[s.r].kind = "hole" => \A u \in 1..n : all[y + u] = Zero
        /\ Decoded(a)[s.r].offset = 0 <=> a.extents[s.r].kind = "hole"
    <3>1. /\ vol \in Volumes /\ Served(vol, s) /\ Copied(s)
          /\ s.mode \in {"process", "virtual", "data"}
          /\ Pieces(vol, s.name)[1].form = "runs"
      BY <1>1, <1>2, <1>5, <1>8, <2>1
    <3>2. s.r \in DOMAIN Pieces(vol, s.name)[1].extents
      BY <1>2, <2>1
    <3> HIDE DEF a, n
    <3>3. LET e == Pieces(vol, s.name)[1].extents[s.r]
              p == Pieces(vol, s.name)[1]
          IN  e.kind = "hole" =>
                \A u \in 1..(e.len * Cluster) : all[Filled(p, s.r) + u] = Zero
      BY <3>1, <3>2, CopyHole
    <3>4. LET p == Pieces(vol, s.name)[1]
          IN  Decoded(p)[s.r].offset = 0 <=> p.extents[s.r].kind = "hole"
      BY <3>1, <3>2, CopyAt
    <3> QED BY <1>3, <2>1, <3>3, <3>4 DEF a
  <2>3. /\ a.extents[s.r].kind = "hole" => s.r = 1
        /\ Len(all) \in Nat
    <3>1. /\ vol \in Volumes /\ Served(vol, s) /\ Copied(s)
          /\ s.mode \in {"process", "virtual", "data"}
          /\ Pieces(vol, s.name)[1].form = "runs"
      BY <1>1, <1>2, <1>5, <1>8, <2>1
    <3>2. \A j \in DOMAIN Pieces(vol, s.name)[1].extents :
            Pieces(vol, s.name)[1].extents[j].kind = "hole" => j = 1
      BY <3>1, CopyPlace
    <3>3. Len(all) \in Nat
      BY <3>1, CopyPlace
    <3> HIDE DEF a, all
    <3> QED BY <1>2, <2>1, <3>2, <3>3 DEF a
  <2>4. s.r = 1 /\ \A u \in 1..n : all[y + u] = Zero
    BY <1>1, <1>6, <2>2, <2>3
  <2>5. s.buf = Zeros(Len(all)) /\ Len(s.buf) = Len(all)
    BY <1>1, <1>7, <1>8, <2>4 DEF CopyInv, All
  <2>6. ASSUME s.readSize = Filled(a, s.r), NEW u \in 1..n, u <= Len(s.buf) - s.readSize
        PROVE  t.buf[s.readSize + u] = all[s.readSize + u]
    <3> DEFINE i == s.readSize + u  l == Len(all)
    <3>1. all[i] = Zero
      BY <2>4, <2>6
    <3>2. i \in 1..l
      <4>1. n \in Nat
        BY <1>2, <1>3, BytesFacts DEF n
      <4>2. u \in Nat \ {0} /\ u <= l - s.readSize /\ l \in Nat
        BY <2>3, <2>5, <2>6, <4>1
      <4> HIDE DEF l
      <4> QED BY <1>2, <4>2
    <3> HIDE DEF i
    <3>3. t.buf[i] = Zero
      BY <1>7, <2>5, <3>2 DEF Zeros
    <3> QED BY <3>1, <3>3 DEF i
  <2>7. \A u \in 1..s.readSize : t.buf[u] = s.buf[u]
    BY <1>7
  <2>8. t.readSize = s.readSize + Min({s.attr.size - s.readSize, n}) /\ t.r = s.r + 1
    BY <1>4, <1>7
  <2>9. Len(t.buf) = Len(s.buf)
    BY <1>7
  <2> HIDE DEF all, a, y
  <2> QED BY <1>1, <1>2, <1>3, <1>5, <1>7, <1>8, <2>1, <2>6, <2>7, <2>8, <2>9, BufferFilled
          DEF a, all
<1>9. Advance(vol, reader, s, t)
  BY <1>1, <1>2, <1>7, <1>8, CopiesOn
<1> QED BY <1>1, <1>9, KeepMoves DEF s

LEMMA AttrRunMoves ==
  ASSUME StreamInv, NEW c \in Client, mft = "runs", DataInv(vol, reader, k[c]), AttrRun(c)
  PROVE  Moves(c)
<1> DEFINE s == k[c]
           m == Bytes(Run(s))
           n == m % Word
           p == Run(s).offset * Cluster
           r1 == s.r + 1
           r2 == Len(Runs(s)) + 1
           now == s.readSize + Min({RoomLeft(s), n})
           at == s.readSize % Word
           Buf(x) == [u \in DOMAIN s.buf |-> IF u \in (at + 1)..(at + n)
                                            THEN x.data[u - at] ELSE s.buf[u]]
           over == [s EXCEPT !.pc = "overrun"]
           off == [s EXCEPT !.r = r2, !.lost = TRUE]
<1>1. s.pc = "attr" /\ s.attr.form = "runs" /\ s.r <= Len(Runs(s)) /\ Run(s).offset # 0
  BY DEF AttrRun
<1>2. PICK y \in Seek(reader, p) : \E x \in Read(y.rd, n) :
        /\ reader' = x.rd
        /\ \/ x.ok /\ Touch(c, [s EXCEPT !.r = r1, !.trust = @ /\ y.ok,
                                         !.buf = Buf(x), !.readSize = now])
           \/ Touch(c, over)
           \/ Touch(c, off)
  BY DEF AttrRun
<1>3. PICK x \in Read(y.rd, n) :
        /\ reader' = x.rd
        /\ \/ x.ok /\ Touch(c, [s EXCEPT !.r = r1, !.trust = @ /\ y.ok,
                                         !.buf = Buf(x), !.readSize = now])
           \/ Touch(c, over)
           \/ Touch(c, off)
  BY <1>2
<1>4. /\ vol \in Volumes /\ s \in Stream(vol) /\ DataInv(vol, reader, s)
      /\ IsAttribute(s.attr) /\ PlaceInv(vol, s)
      /\ s.r \in Nat /\ s.r \in DOMAIN s.attr.extents /\ s.readSize \in Nat
      /\ reader \in Reader /\ Coherent(reader)
      /\ Len(Runs(s)) = Len(s.attr.extents) /\ Len(s.attr.extents) \in Nat
      /\ DOMAIN s.attr.extents = 1..Len(s.attr.extents)
  BY <1>1, CopyFacts
<1>5. /\ p \in Nat /\ m \in Nat /\ m = s.attr.extents[s.r].len * Cluster
  BY <1>4, BytesFacts
<1>6. s.mode \in {"process", "virtual", "data"} /\ s.readSize <= s.attr.size
      /\ s.trust \in BOOLEAN /\ s.pc \in Running
  BY <1>1, <1>4 DEF Stream, PlaceInv, Running, InAttr
<1>7. /\ Run(s).offset = Decoded(s.attr)[s.r].offset /\ r1 = s.r + 1 /\ r1 # 1
      /\ r2 = Len(s.attr.extents) + 1 /\ r2 # 1
      /\ p = Decoded(s.attr)[s.r].offset * Cluster
  BY <1>4 DEF Run, Runs
<1>8. n = m % Word /\ at = s.readSize % Word /\ Word \in Nat \ {0} /\ n \in Nat
  BY <1>5, StreamAssumption, ModRange
<1>9. now = s.readSize + Min({s.attr.size - s.readSize, n})
  BY DEF RoomLeft
<1> HIDE DEF m, n, p, at, now, r1, r2
<1>10. /\ y.rd \in Reader /\ y.ok \in BOOLEAN
  BY <1>4, <1>5, SeekKeeps
<1>11. CASE /\ x.ok /\ Touch(c, [s EXCEPT !.r = r1, !.trust = @ /\ y.ok,
                                          !.buf = Buf(x), !.readSize = now])
  <2> DEFINE b1 == Buf(x)
             t == [s EXCEPT !.r = r1, !.trust = @ /\ y.ok, !.buf = b1, !.readSize = now]
  <2>1. Touch(c, t)
    BY <1>11
  <2>2. /\ Len(s.buf) \in Nat /\ DOMAIN s.buf = 1..Len(s.buf)
    <3>1. s.buf \in Seq(Int)
      BY <1>4 DEF Stream
    <3> QED BY <3>1, LenProperties
  <2>3. /\ DOMAIN b1 = DOMAIN s.buf
        /\ \A u \in DOMAIN s.buf : b1[u] = IF u \in (at + 1)..(at + n)
                                           THEN x.data[u - at] ELSE s.buf[u]
    OBVIOUS
  <2> HIDE DEF s, b1
  <2>4. /\ Alike(s, t) /\ t.pc = "attr" /\ t.r = r1 /\ t.readSize = now
        /\ t.trust = (s.trust /\ y.ok) /\ t.lost = s.lost /\ t.buf = b1
        /\ t.out = s.out /\ t.rec = s.rec /\ t.entries = s.entries /\ t.attr = s.attr
    BY <1>1, <1>4 DEF Stream, Alike
  <2>5. Len(t.buf) = Len(s.buf)
    BY <2>2, <2>3, <2>4
  <2> HIDE DEF t
  <2>6. ASSUME t.trust, Served(vol, s), Copied(s), CopyInv(vol, s) PROVE CopyInv(vol, t)
    <3> DEFINE all == All(vol, s)
               a == s.attr
               z == Filled(a, s.r)
               there == s.readSize
               l == Len(all)
    <3>1. a = Pieces(vol, s.name)[1] /\ s.trust /\ y.ok /\ Len(s.buf) = l
      BY <1>1, <1>6, <1>10, <2>4, <2>6 DEF CopyInv, All
    <3>2. /\ vol \in Volumes /\ Served(vol, s) /\ Copied(s)
          /\ s.mode \in {"process", "virtual", "data"}
          /\ Pieces(vol, s.name)[1].form = "runs"
      BY <1>1, <1>4, <1>6, <2>6, <3>1
    <3>3. /\ a.size \in Nat /\ a.size <= l /\ a.alloc < Word /\ a.alloc = l /\ l \in Nat
          /\ LET e == a.extents[s.r]
             IN  e.kind # "hole" => e.kind = "data"
      <4>1. s.r \in DOMAIN Pieces(vol, s.name)[1].extents
        BY <1>4, <3>1
      <4> HIDE DEF a
      <4>2. LET b == Pieces(vol, s.name)[1]
            IN  /\ b.alloc < Word /\ b.alloc = Len(all) /\ Len(all) \in Nat
                /\ b.size \in Nat /\ b.size <= Len(all)
                /\ \A j \in DOMAIN b.extents :
                     LET e == b.extents[j]
                     IN  IF e.kind = "hole" THEN j = 1 ELSE e.kind = "data" /\ e.at # 0
        BY <3>2, CopyPlace
      <4> QED BY <3>1, <4>1, <4>2
    <3>4. /\ z \in Nat /\ m < Word /\ z + m <= l
          /\ a.extents[s.r].kind = "data" =>
               /\ Decoded(a)[s.r].offset = a.extents[s.r].at
               /\ \A u \in 1..m : all[z + u] = a.extents[s.r].at * Cluster + u - 1
          /\ Decoded(a)[s.r].offset = 0 <=> a.extents[s.r].kind = "hole"
      <4>1. s.r \in DOMAIN Pieces(vol, s.name)[1].extents
        BY <1>4, <3>1
      <4> HIDE DEF a
      <4>2. LET b == Pieces(vol, s.name)[1]  e == b.extents[s.r]
                w == e.len * Cluster  x0 == Filled(b, s.r)
            IN  /\ x0 \in Nat /\ w < Word /\ x0 + w <= Len(all)
                /\ e.kind = "data" => Decoded(b)[s.r].offset = e.at
                /\ Decoded(b)[s.r].offset = 0 <=> e.kind = "hole"
        BY <3>2, <4>1, CopyAt
      <4>3. LET b == Pieces(vol, s.name)[1]  e == b.extents[s.r]
            IN  e.kind = "data" => \A u \in 1..(e.len * Cluster) :
                  all[Filled(b, s.r) + u] = e.at * Cluster + u - 1
        BY <3>2, <4>1, CopyData
      <4> QED BY <1>5, <3>1, <4>2, <4>3 DEF a
    <3>5. \A u \in 1..m : all[z + u] = p + u - 1
      <4>1. a.extents[s.r].kind = "data"
        BY <1>1, <1>7, <3>3, <3>4
      <4> DEFINE d == a.extents[s.r].at * Cluster
      <4>2. p = d
        BY <1>7, <3>4, <4>1
      <4>3. \A u \in 1..m : all[z + u] = d + u - 1
        BY <3>4, <4>1
      <4> HIDE DEF d, all, z
      <4> QED BY <4>2, <4>3
    <3>6. n = m
      <4>1. m \in Nat /\ m < Word
        BY <1>5, <3>4
      <4>2. m \in 0..(Word - 1)
        BY <1>8, <4>1
      <4> QED BY <1>8, <4>2, ModRange
    <3>7. at = there
      <4>1. there \in Nat /\ there <= a.size
        BY <1>4, <1>6
      <4> HIDE DEF there, a, l
      <4>2. there \in 0..(Word - 1)
        BY <1>8, <3>3, <4>1
      <4> QED BY <1>8, <4>2, ModRange DEF there
    <3>8. y.rd.pointer = p
      BY <1>4, <1>5, <3>1, SeekFinds
    <3>9. \A i \in 1..n : x.data[i] = p + i - 1
      BY <1>8, <1>10, <1>11, <3>8, ReadBrings
    <3>10. there \in Nat
      BY <1>4
    <3> HIDE DEF there, a, z, l, all
    <3>11. ASSUME NEW u \in 1..there PROVE t.buf[u] = s.buf[u]
      <4>1. u \in DOMAIN s.buf
        BY <1>4, <1>6, <2>2, <3>1, <3>3, <3>10 DEF there, a
      <4>2. u \notin (at + 1)..(at + n)
        BY <3>7, <3>10
      <4> QED BY <2>3, <2>4, <4>1, <4>2
    <3>12. ASSUME there = z, NEW u \in 1..m, u <= Len(s.buf) - there
           PROVE  t.buf[there + u] = all[there + u]
      <4> DEFINE i == there + u
      <4>1. /\ i \in 1..l /\ i \in (at + 1)..(at + n) /\ i - at = u
        BY <1>5, <3>1, <3>3, <3>6, <3>7, <3>10, <3>12
      <4> HIDE DEF i
      <4>2. t.buf[i] = x.data[u]
        BY <2>2, <2>3, <2>4, <3>1, <4>1
      <4>3. x.data[u] = p + u - 1
        BY <3>6, <3>9
      <4> QED BY <3>5, <3>12, <4>2, <4>3 DEF i
    <3>13. t.readSize = s.readSize + Min({s.attr.size - s.readSize, m}) /\ t.r = s.r + 1
      BY <1>7, <1>9, <2>4, <3>6
    <3> QED BY <1>1, <1>4, <1>5, <1>6, <2>4, <2>5, <2>6, <3>1, <3>11, <3>12, <3>13, BufferFilled
            DEF there, a, z, all
  <2>7. Advance(vol, reader', s, t)
    BY <1>1, <1>4, <2>4, <2>6, CopiesOn
  <2> QED BY <2>1, <2>7, TouchMoves DEF s
<1>12. CASE Touch(c, off)
  <2>1. /\ Alike(s, off) /\ off.pc = "attr" /\ off.r = r2 /\ off.readSize = s.readSize
        /\ off.trust = s.trust /\ off.lost = TRUE /\ off.buf = s.buf
        /\ off.out = s.out /\ off.rec = s.rec /\ off.entries = s.entries
        /\ off.attr = s.attr
    BY <1>1, <1>4 DEF Stream, Alike
  <2> HIDE DEF off, s
  <2>2. off.r > Len(off.attr.extents) /\ off.r # 1 /\ off.name = s.name
    BY <1>4, <1>7, <2>1 DEF Alike
  <2>3. ASSUME off.trust, CopyInv(vol, s) PROVE CopyInv(vol, off)
    BY <1>1, <2>1, <2>2, <2>3 DEF CopyInv
  <2>4. Advance(vol, reader', s, off)
    BY <1>1, <1>4, <2>1, <2>3, CopiesOn
  <2> QED BY <1>12, <2>4, TouchMoves DEF s
<1>13. CASE Touch(c, over)
  <2>1. /\ Alike(s, over) /\ over.pc = "overrun" /\ over.trust = s.trust
        /\ over.lost = s.lost /\ over.out = s.out
    BY <1>1, <1>4 DEF Stream, StreamState, Alike
  <2> HIDE DEF over, s
  <2>2. Advance(vol, reader', s, over)
    BY <1>4, <1>6, <2>1, EndsAsItIs DEF Endings
  <2> QED BY <1>13, <2>2, TouchMoves DEF s
<1> QED BY <1>3, <1>11, <1>12, <1>13

(* It ends, and has handed out all of it. *)
LEMMA Finished ==
  ASSUME NEW v \in Volumes, NEW rd, NEW rd2, NEW s \in Stream(v), NEW t,
         DataInv(v, rd, s), Alike(s, t), t.trust => s.trust, s.lost => t.lost,
         s.pc \in Running, t.pc = "done",
         t.trust => t.out = FileAt(v, s) /\ Len(FileAt(v, s)) \in Nat
  PROVE  Advance(v, rd2, s, t)
<1>1. s.pc # "idle" /\ t.pc # "idle" /\ t.pc \notin Running /\ t.pc \in Endings
  BY DEF Running, InAttr, Endings
<1>2. DataInv(v, rd2, t)
  <2>1. /\ t.trust => Served(v, t) /\ Served(v, s)
        /\ ~t.lost => Whole(v, t)
    BY <1>1, DataSame
  <2>2. t.pc \notin {"attr", "wof"}
    OBVIOUS
  <2> QED BY <1>1, <2>1, <2>2 DEF DataInv, ListInv, BlocksInv, CopyInv, WofInv
<1>3. t.trust => Whither(v, t)
  <2>1. FileAt(v, t) = FileAt(v, s)
    BY DEF FileAt, Alike
  <2> QED BY <2>1 DEF Whither, Beginning
<1> QED BY <1>1, <1>2, <1>3 DEF Advance

(* The file and the contents of its only piece. *)
LEMMA OnePiece ==
  ASSUME NEW v \in Volumes, NEW q, Served(v, q), Len(Pieces(v, q.name)) = 1
  PROVE  LET x == Allocated(Pieces(v, q.name)[1])  all == All(v, q)
         IN  /\ x \in Seq(Int) /\ all \in Seq(Int) /\ Len(all) \in Nat
             /\ Len(x) = Len(all) /\ x = all
<1> DEFINE ps == Pieces(v, q.name)
           x == Allocated(ps[1])
           all == All(v, q)
           b == PieceAt(v, q)
<1>1. /\ Len(ps) = 1 /\ 1 \in 1..Len(ps)
      /\ all \in Seq(Int) /\ Len(all) = b[Len(ps) + 1] /\ b[1] = 0
  BY JoinedFacts
<1>2. \A j \in 1..Len(ps) :
        /\ Allocated(ps[j]) \in Seq(Int) /\ Len(Allocated(ps[j])) \in Nat
        /\ b[j + 1] = b[j] + Len(Allocated(ps[j]))
        /\ \A u \in 1..Len(Allocated(ps[j])) : all[b[j] + u] = Allocated(ps[j])[u]
  BY JoinedFacts
<1>3. /\ x \in Seq(Int) /\ Len(x) \in Nat /\ b[1 + 1] = b[1] + Len(x)
      /\ \A u \in 1..Len(x) : all[b[1] + u] = x[u]
  <2> HIDE DEF b, all
  <2> QED BY <1>1, <1>2
<1> HIDE DEF ps, x, all, b
<1>4. Len(all) = Len(x)
  BY <1>1, <1>3
<1>5. \A u \in 1..Len(x) : all[u] = x[u]
  BY <1>1, <1>3
<1>6. x = all
  BY <1>1, <1>3, <1>4, <1>5, SeqEqual
<1> QED BY <1>1, <1>3, <1>4, <1>6 DEF x, all, ps

LEMMA AttrEndMoves ==
  ASSUME StreamInv, NEW c \in Client, DataInv(vol, reader, k[c]), AttrEnd(c)
  PROVE  Moves(c)
<1> DEFINE s == k[c]
           a == s.attr
           full == Shrunk(s.buf, a.size)
           cut == s.lost \/ a.size >= Word
           t1 == [s EXCEPT !.pc = "crashed"]
           t2 == [s EXCEPT !.pc = "done", !.out = s.buf]
           t3 == [s EXCEPT !.pc = "done", !.out = full, !.lost = cut]
           t4 == [s EXCEPT !.pc = "wof", !.buf = full, !.lost = cut]
           all == All(vol, s)
           size == a.size
<1>1. /\ s.pc = "attr" /\ reader' = reader
      /\ \/ Keep(c, t1)
         \/ a.form = "resident" /\ Keep(c, t2)
         \/ a.form # "resident" /\ s.readSize = a.size /\ s.mode = "data" /\ Keep(c, t3)
         \/ a.form # "resident" /\ s.readSize = a.size /\ s.mode # "data" /\ Keep(c, t4)
  BY DEF AttrEnd
<1>2. /\ vol \in Volumes /\ s \in Stream(vol) /\ DataInv(vol, reader, s)
      /\ PlaceInv(vol, s) /\ IsAttribute(a) /\ a.form \in {"resident", "runs"}
  BY <1>1, CopyFacts
<1>3. /\ s.mode \in {"process", "virtual", "data"} /\ s.pc \in Running /\ s.pc # "idle"
      /\ s.lost \in BOOLEAN
  BY <1>1, <1>2 DEF Stream, Running, InAttr
<1>4. ASSUME s.trust
      PROVE  Served(vol, s) /\ CopyInv(vol, s) /\ a = Pieces(vol, s.name)[1]
  <2>1. Served(vol, s) /\ CopyInv(vol, s)
    BY <1>2, <1>3, <1>4 DEF DataInv
  <2> QED BY <1>1, <1>4, <2>1 DEF CopyInv
<1>5. s.lost => cut
  OBVIOUS
(* Under trust the buffer is the file. *)
<1>6. ASSUME s.trust, a.form # "resident", s.readSize = size, Copied(s)
      PROVE  /\ full = SubSeq(all, 1, size) /\ size \in Nat
             /\ Len(SubSeq(all, 1, size)) = size
  <2>1. a.form = "runs" /\ Pieces(vol, s.name)[1].form = "runs"
    BY <1>2, <1>4, <1>6
  <2>2. /\ size \in Nat /\ size <= Len(all) /\ a.alloc < Word /\ a.alloc = Len(all)
        /\ Len(all) \in Nat
    BY <1>2, <1>3, <1>4, <1>6, <2>1, CopyPlace
  <2>3. Len(s.buf) = Len(all) /\ \A u \in 1..s.readSize : s.buf[u] = all[u]
    BY <1>1, <1>4, <1>6, <2>1 DEF CopyInv, All
  <2>4. s.buf \in Seq(Int)
    BY <1>2 DEF Stream
  <2> HIDE DEF all, size, a, full
  <2>5. size % Word = size
    <3>1. Word \in Nat \ {0} /\ size \in 0..(Word - 1)
      BY <2>2, StreamAssumption
    <3> QED BY <2>2, <3>1, ModRange
  <2>6. DOMAIN s.buf = 1..Len(all)
    BY <2>3, <2>4, LenProperties
  <2>7. full = [u \in 1..size |-> s.buf[u]]
    <3>1. full = [u \in 1..size |-> IF u \in DOMAIN s.buf THEN s.buf[u] ELSE Garbage]
      BY <2>5 DEF full, Shrunk, size
    <3>2. \A u \in 1..size : u \in DOMAIN s.buf
      BY <2>2, <2>6
    <3> QED BY <3>1, <3>2
  <2>8. /\ SubSeq(all, 1, size) \in Seq(Int) /\ Len(SubSeq(all, 1, size)) = size
        /\ \A u \in 1..size : SubSeq(all, 1, size)[u] = all[u]
    <3>1. all \in Seq(Int)
      BY <1>2, <1>4, <1>6, JoinedFacts DEF all
    <3>2. \A i \in 1..size : all[i] \in Int
      BY <2>2, <3>1, ElementOfSeq
    <3>3. 1 \in Int /\ size \in Int /\ size - 1 + 1 = size
          /\ (IF 1 <= size THEN size ELSE 0) = size
      BY <2>2
    <3>4. /\ SubSeq(all, 1, size) \in Seq(Int)
          /\ Len(SubSeq(all, 1, size)) = IF 1 <= size THEN size - 1 + 1 ELSE 0
          /\ \A i \in 1..(size - 1 + 1) : SubSeq(all, 1, size)[i] = all[1 + i - 1]
      BY <3>2, <3>3, SubSeqProperties
    <3>5. \A i \in 1..size : 1 + i - 1 = i
      BY <2>2
    <3> QED BY <3>3, <3>4, <3>5
  <2>9. full \in Seq(Int) /\ Len(full) = size /\ \A u \in 1..size : full[u] = all[u]
    <3>1. \A u \in 1..size : s.buf[u] \in Int
      BY <2>2, <2>4, <2>6, ElementOfSeq
    <3>2. full \in [1..size -> Int]
      BY <2>7, <3>1
    <3>3. full \in Seq(Int) /\ Len(full) = size
      BY <2>2, <3>2, SeqDef, LenProperties
    <3> QED BY <1>6, <2>3, <2>7, <3>3
  <2>10. full = SubSeq(all, 1, size)
    BY <2>8, <2>9, SeqEqual
  <2> QED BY <2>2, <2>8, <2>10
<1> HIDE DEF full, cut, s
<1>7. CASE Keep(c, t1)
  <2>1. /\ Alike(s, t1) /\ t1.pc = "crashed" /\ t1.trust = s.trust /\ t1.lost = s.lost
        /\ t1.out = s.out
    BY <1>2 DEF Stream, StreamState, Alike
  <2> HIDE DEF t1
  <2>2. Advance(vol, reader, s, t1)
    BY <1>2, <1>3, <2>1, EndsAsItIs DEF Endings
  <2> QED BY <1>1, <1>7, <2>2, KeepMoves DEF s
<1>8. CASE a.form = "resident" /\ Keep(c, t2)
  <2>1. /\ Alike(s, t2) /\ t2.pc = "done" /\ t2.trust = s.trust /\ t2.lost = s.lost
        /\ t2.out = s.buf
    BY <1>2 DEF Stream, StreamState, Alike
  <2> HIDE DEF t2
  <2>2. s.mode = "data"
    BY <1>1, <1>2, <1>8 DEF PlaceInv
  <2>3. ASSUME s.trust PROVE s.buf = FileAt(vol, s) /\ Len(FileAt(vol, s)) \in Nat
    <3> DEFINE z == FileSize(vol, s)
               f == SubSeq(all, 1, z)
               x == Allocated(Pieces(vol, s.name)[1])
    <3>1. s.buf = a.value /\ a = Pieces(vol, s.name)[1] /\ Served(vol, s)
      BY <1>1, <1>4, <1>8, <2>3 DEF CopyInv
    <3>2. x = a.value
      BY <1>8, <3>1 DEF Allocated
    <3>3. /\ Len(Pieces(vol, s.name)) = 1 /\ Len(all) = z
          /\ z \in Nat /\ Len(f) = z /\ f \in Seq(Int) /\ \A u \in 1..z : f[u] = all[u]
      <4>1. 1 \in 1..Len(Pieces(vol, s.name)) /\ Pieces(vol, s.name)[1].form = "resident"
        BY <1>2, <1>8, <3>1, JoinedFacts
      <4> HIDE DEF a, x
      <4> QED BY <1>2, <1>3, <3>1, <4>1, FileFacts
    <3>4. x \in Seq(Int) /\ x = all
      BY <1>2, <3>1, <3>3, OnePiece
    <3>5. FileAt(vol, s) = f
      BY <1>2, <1>3, <2>2, <3>1, FileFacts DEF FileAt
    <3> HIDE DEF f, z, x, all
    <3>6. x = f
      BY <3>3, <3>4, SeqEqual
    <3> QED BY <3>1, <3>2, <3>3, <3>5, <3>6
  <2>4. Advance(vol, reader, s, t2)
    BY <1>2, <1>3, <2>1, <2>3, Finished
  <2> QED BY <1>1, <1>8, <2>4, KeepMoves DEF s
<1>9. CASE a.form # "resident" /\ s.readSize = size /\ s.mode = "data" /\ Keep(c, t3)
  <2>1. /\ Alike(s, t3) /\ t3.pc = "done" /\ t3.trust = s.trust /\ t3.lost = cut
        /\ t3.out = full
    BY <1>2 DEF Stream, StreamState, Alike
  <2> HIDE DEF t3
  <2>2. ASSUME s.trust PROVE full = FileAt(vol, s) /\ Len(FileAt(vol, s)) \in Nat
    <3>1. /\ full = SubSeq(all, 1, size) /\ size \in Nat
          /\ Len(SubSeq(all, 1, size)) = size
      BY <1>6, <1>9, <2>2 DEF Copied
    <3>2. FileAt(vol, s) = SubSeq(all, 1, FileSize(vol, s))
      BY <1>2, <1>3, <1>4, <1>9, <2>2, FileFacts DEF FileAt
    <3>3. FileSize(vol, s) = size
      BY <1>2, <1>4, <1>9, <2>2 DEF FileSize, SizeOf
    <3> QED BY <3>1, <3>2, <3>3
  <2>3. Advance(vol, reader, s, t3)
    BY <1>2, <1>3, <1>5, <2>1, <2>2, Finished
  <2> QED BY <1>1, <1>9, <2>3, KeepMoves DEF s
<1>10. CASE a.form # "resident" /\ s.readSize = size /\ s.mode # "data" /\ Keep(c, t4)
  <2>1. /\ Alike(s, t4) /\ t4.pc = "wof" /\ t4.trust = s.trust /\ t4.lost = cut
        /\ t4.buf = full /\ t4.rec = s.rec /\ t4.entries = s.entries /\ t4.attr = a
        /\ t4.out = s.out
    BY <1>2 DEF Stream, StreamState, Alike
  <2> HIDE DEF t4
  <2>2. ASSUME t4.trust, Served(vol, s), Copied(s), CopyInv(vol, s) PROVE CopyInv(vol, t4)
    <3>1. /\ full = SubSeq(all, 1, size)
      BY <1>6, <1>10, <2>1, <2>2
    <3>2. Len(Pieces(vol, s.name)) = 1 /\ a = Pieces(vol, s.name)[1]
      BY <1>4, <1>10, <2>1, <2>2 DEF Copied, Served
    <3>3. Allocated(a) = all
      BY <1>2, <2>2, <3>2, OnePiece
    <3>4. t4.buf = SubSeq(Allocated(a), 1, a.size)
      BY <2>1, <3>1, <3>3
    <3>5. a = Pieces(vol, t4.name)[1] /\ t4.out = <<>>
      BY <1>1, <2>1, <2>2, <3>2 DEF Alike, CopyInv
    <3> HIDE DEF a
    <3> QED BY <2>1, <3>4, <3>5 DEF CopyInv
  <2>3. Advance(vol, reader, s, t4)
    BY <1>1, <1>2, <1>5, <1>10, <2>1, <2>2, CopiesOn
  <2> QED BY <1>1, <1>10, <2>3, KeepMoves DEF s
<1> QED BY <1>1, <1>7, <1>8, <1>9, <1>10

(* What decompress_xpress() makes of a stream it gets right. *)
LEMMA XpressServes ==
  ASSUME NEW v \in Volumes, NEW a, IsAttribute(a), a.form = "runs", IsWof(v, a),
         WofServed(v, a)
  PROVE  LET data == Xpress(v, a, a.window)  f == Unpacked(a.extents[1].at + 1)
         IN  Len(data) \in Nat /\ Len(data) <= Len(f) /\ Len(f) \in Nat
             /\ \A i \in 1..Len(data) : data[i] = f[i]
<1> DEFINE whole == Find(v[Base], Unnamed)
           window == a.window
           stored == {j \in DOMAIN a.chunks : a.chunks[j] >= window}
           f == Unpacked(a.extents[1].at + 1)
           data == Xpress(v, a, window)
           w == whole.size
<1>1. a.window \in Nat /\ a.chunks \in Seq(Nat) /\ w <= Unit * Cluster
  BY DEF IsWof
<1>2. w \in Nat
  BY XpressIsSeq
<1>3. stored = {}
  <2>1. \A j \in DOMAIN a.chunks : a.chunks[j] < window /\ a.chunks[j] \in Nat
    BY <1>1, ElementOfSeq, LenProperties DEF WofServed
  <2> HIDE DEF window
  <2>2. \A j \in DOMAIN a.chunks : ~(a.chunks[j] >= window)
    BY <1>1, <2>1 DEF window
  <2> QED BY <2>2
<1>4. TableLength(a, window) = Len(a.chunks) - 1
  BY DEF WofServed
<1>5. data = [i \in 1..w |-> IF i <= w THEN f[i] ELSE Zero]
  BY <1>3, <1>4 DEF Xpress
<1>6. Len(f) = Unit * Cluster /\ Unit * Cluster \in Nat
  BY UnpackedLen
<1> HIDE DEF w, data, f
<1>7. \A i \in 1..w : i <= w
  BY <1>2
<1>8. data = [i \in 1..w |-> f[i]]
  BY <1>5, <1>7
<1>9. Len(data) = w
  BY <1>2, <1>8
<1>10. \A i \in 1..w : data[i] = f[i]
  BY <1>8
<1> QED BY <1>1, <1>2, <1>6, <1>9, <1>10 DEF data, f

LEMMA WofBlockMoves ==
  ASSUME StreamInv, NEW c \in Client, DataInv(vol, reader, k[c]), WofBlock(c)
  PROVE  Moves(c)
<1> DEFINE s == k[c]
           a == s.attr
           u == [s EXCEPT !.pc = "next", !.lost = TRUE]
           whole == Find(vol[Base], Unnamed)
           there == s.buf = SubSeq(Allocated(a), 1, a.size)
           data == IF vol[Base].wof = "lzx" THEN Lzx(vol)
                   ELSE IF there THEN Xpress(vol, a, a.window)
                   ELSE [i \in 1..whole.size |-> Garbage]
           t == Yielded(u, data)
<1>1. s.pc = "wof" /\ Keep(c, t) /\ reader' = reader
  BY DEF WofBlock, Yield
<1>2. /\ vol \in Volumes /\ s \in Stream(vol) /\ DataInv(vol, reader, s)
      /\ PlaceInv(vol, s)
  BY Now
<1>3. /\ a # NoAttr /\ a.name = "wof" /\ a.form = "runs" /\ a \in Attributes(vol)
  BY <1>1, <1>2 DEF PlaceInv, Stream
<1>4. IsAttribute(a) /\ IsWof(vol, a)
  <2> HIDE DEF a
  <2> QED BY <1>2, <1>3, IsAttributeOf
<1>5. /\ Xpress(vol, a, a.window) \in Seq(Int)
      /\ whole.size \in Nat /\ whole.alloc \in Nat
  <2> HIDE DEF a
  <2> QED BY <1>2, <1>3, <1>4, XpressIsSeq
<1>6. data \in Seq(Int)
  <2>1. Lzx(vol) \in Seq(Int)
    BY <1>5, ZerosIsSeq DEF Lzx
  <2> DEFINE n == whole.size
             f == [i \in 1..n |-> Garbage]
  <2>2. n \in Nat
    BY <1>5
  <2> HIDE DEF whole, there, n
  <2>3. f \in [1..n -> Int]
    BY DEF Garbage
  <2> HIDE DEF f
  <2>4. f \in Seq(Int)
    BY <2>2, <2>3, SeqDef
  <2> QED BY <1>5, <2>1, <2>4 DEF f, n
<1>7. s.pc \in Running /\ s.pc \in InAttr /\ s.mode # "data" /\ s.rec \in DOMAIN vol
  BY <1>1, <1>2 DEF DataInv, Running, InAttr, Stream
<1>8. s.name = "wof" /\ Copied(s)
  <2>1. HasStream(vol[s.rec], s.name) /\ a = Find(vol[s.rec], s.name)
    BY <1>2, <1>7 DEF DataInv, ListInv
  <2> QED BY <1>2, <1>3, <1>7, <2>1, AttributeFacts DEF Copied
<1>9. ASSUME s.trust
      PROVE  /\ Served(vol, s) /\ s.out = <<>> /\ a = Pieces(vol, s.name)[1]
             /\ data = Xpress(vol, a, a.window) /\ WofServed(vol, a)
             /\ Len(Visited(vol, s.name)) = 1
  <2>1. Served(vol, s) /\ CopyInv(vol, s)
    BY <1>1, <1>2, <1>9 DEF DataInv
  <2>2. a = Pieces(vol, s.name)[1] /\ s.out = <<>> /\ there
    BY <1>1, <1>9, <2>1 DEF CopyInv
  <2>3. WofServed(vol, a) /\ Len(Visited(vol, s.name)) = 1
    BY <1>7, <1>8, <2>1, <2>2 DEF Served
  <2>4. vol[Base].wof # "lzx"
    BY <2>3 DEF WofServed
  <2> HIDE DEF a, there
  <2> QED BY <2>1, <2>2, <2>3, <2>4
<1> HIDE DEF data
<1>10. /\ u \in Stream(vol) /\ u.pc = "next" /\ u.rec = s.rec /\ u.entries = s.entries
       /\ Alike(s, u) /\ u.lost = TRUE /\ u.out = s.out /\ u.trust = s.trust
  BY <1>2 DEF Stream, StreamState, Alike
<1> HIDE DEF u
<1> DEFINE n == IF u.check /\ Len(data) > u.left THEN u.left ELSE Len(data)
<1>11. /\ Grown(s.out, t.out) /\ t.trust = s.trust /\ Alike(s, t)
       /\ n \in 0..Len(data) /\ Len(data) \in Nat
       /\ Len(t.out) = Len(s.out) + n
       /\ \A i \in 1..n : t.out[Len(s.out) + i] = data[i]
  <2>1. /\ Grown(u.out, t.out) /\ t.trust = u.trust /\ Alike(u, t)
        /\ n \in 0..Len(data) /\ Len(data) \in Nat
        /\ Len(t.out) = Len(u.out) + n
        /\ \A i \in 1..n : t.out[Len(u.out) + i] = data[i]
    BY <1>6, <1>10, YieldAdds
  <2> HIDE DEF n, t, s
  <2> QED BY <1>10, <2>1 DEF Alike
<1>12. /\ t.pc = "next" /\ t.rec = s.rec /\ t.entries = s.entries /\ t.lost = TRUE
  BY <1>6, <1>10, YieldedFacts
<1> HIDE DEF n, t, s
<1>13. ListInv(vol, t) /\ Begun(vol, t) = Begun(vol, s)
  BY <1>2, <1>7, <1>11, <1>12, ListStays DEF DataInv, InAttr
<1>14. WofInv(vol, t)
  <2> DEFINE f == Unpacked(a.extents[1].at + 1)
  <2> SUFFICES ASSUME t.trust PROVE WofInv(vol, t)
    BY DEF WofInv
  <2>1. s.trust
    BY <1>11
  <2>2. Begun(vol, t) = 1
    <3>1. Begun(vol, s) \in Nat /\ Begun(vol, s) >= 1 /\ Begun(vol, s) <= 1
      BY <1>2, <1>7, <1>9, <2>1, BegunFacts DEF DataInv
    <3> QED BY <1>13, <3>1
  <2>3. /\ Len(data) <= Len(f) /\ Len(f) \in Nat
        /\ \A i \in 1..Len(data) : data[i] = f[i]
    <3> HIDE DEF a
    <3> QED BY <1>2, <1>3, <1>4, <1>9, <2>1, XpressServes
  <2>4. a = Pieces(vol, "wof")[1] /\ s.out = <<>>
    BY <1>8, <1>9, <2>1
  <2> DEFINE g == Unpacked(Pieces(vol, "wof")[1].extents[1].at + 1)
  <2>5. g = f
    BY <2>4
  <2> HIDE DEF f, a, g
  <2>6. Len(t.out) = n /\ n \in Nat /\ n <= Len(data)
    BY <1>11, <2>4
  <2>7. \A i \in 1..n : t.out[i] = data[i] /\ i \in 1..Len(data)
    <3>0. Len(s.out) = 0
      BY <2>4
    <3>1. \A i \in 1..n : Len(s.out) + i = i
      BY <2>6, <3>0
    <3>2. \A i \in 1..n : t.out[Len(s.out) + i] = data[i]
      BY <1>11
    <3>3. Len(data) \in Nat
      BY <1>11
    <3> DEFINE l == Len(data)  o == Len(s.out)
    <3>4. \A i \in 1..n : t.out[i] = data[i]
      <4>1. \A i \in 1..n : o + i = i /\ t.out[o + i] = data[i]
        BY <3>1, <3>2
      <4> HIDE DEF o
      <4> QED BY <4>1
    <3>5. \A i \in 1..n : i \in 1..l
      <4>1. l \in Nat /\ n \in Nat /\ n <= l
        BY <2>6, <3>3
      <4> HIDE DEF l
      <4> QED BY <4>1
    <3> QED BY <3>4, <3>5
  <2>8. Beginning(g, t.out)
    BY <1>11, <2>3, <2>5, <2>6, <2>7 DEF Beginning
  <2> QED BY <1>12, <2>2, <2>8 DEF WofInv, g
<1>15. Advance(vol, reader, s, t)
  <2>1. t.trust => s.trust
    BY <1>11
  <2>2. t.trust /\ ~Copied(s) => Blockwise(vol, reader, t)
    BY <1>8
  <2> QED BY <1>2, <1>7, <1>11, <1>12, <1>13, <1>14, <2>1, <2>2, Went
<1> QED BY <1>1, <1>15, KeepMoves DEF s

-----------------------------------------------------------------------------
(* A stream begins, or is given up at once.                                *)
Opens(c) ==
  /\ k[c].pc = "idle" /\ k'[c].out = <<>>
  /\ DataInv(vol, reader', k'[c])
  /\ k'[c].pc \in Running \cup (Endings \ {"done"})
  /\ \A d \in Client \ {c} : \/ k'[d] = k[d] /\ reader' = reader
                             \/ k'[d] = Disturbed(k[d])
Opened(v, rd, t) ==
  DataInv(v, rd, t) /\ t.out = <<>> /\ t.pc \in Running \cup (Endings \ {"done"})

LEMMA KeepOpens ==
  ASSUME StreamInv, NEW c \in Client, NEW t, Keep(c, t), reader' = reader,
         k[c].pc = "idle", Opened(vol, reader, t)
  PROVE  Opens(c)
<1>1. k \in [Client -> Stream(vol)]
  BY Now
<1>2. k'[c] = t /\ \A d \in Client \ {c} : k'[d] = k[d]
  BY <1>1 DEF Keep
<1> QED BY <1>2 DEF Opens, Opened

LEMMA TouchOpens ==
  ASSUME NEW c \in Client, NEW t, Touch(c, t), k[c].pc = "idle",
         Opened(vol, reader', t)
  PROVE  Opens(c)
<1>1. k'[c] = t /\ \A d \in Client \ {c} : k'[d] = Disturbed(k[d])
  BY DEF Touch
<1> QED BY <1>1 DEF Opens, Opened

(* What a stream knows of its request. *)
LEMMA AskedFor ==
  ASSUME vol \in Volumes, NEW q \in Request(vol), NEW size \in Nat, NEW pc \in StreamState
  PROVE  LET s == Start(q, size, pc)
         IN  /\ s \in Stream(vol) /\ Alike(q, s) /\ s.pc = pc /\ s.rec = Base
             /\ s.entries = <<>> /\ s.left = size /\ s.check = (size # 0)
             /\ s.out = <<>> /\ s.r = 1 /\ s.readSize = 0
             /\ s.trust = Served(vol, q) /\ s.lost = ~Whole(vol, q)
             /\ q.mode \in {"process", "virtual", "data"}
<1> DEFINE trust == Served(vol, q)  lost == ~Whole(vol, q)
           check == (size # 0)
           s == Start(q, size, pc)
<1>1. /\ s \in Stream(vol) /\ s.pc = pc /\ s.mode = q.mode /\ s.name = q.name
      /\ s.r = 1 /\ s.rec = Base /\ s.entries = <<>> /\ s.attr = NoAttr
      /\ s.readSize = 0 /\ s.left = size /\ s.check = (size # 0)
      /\ s.out = <<>>
  BY StartFacts
<1>2. s = [Fresh EXCEPT !.pc = pc, !.mode = q.mode, !.name = q.name, !.skip = q.skip,
                !.left = size, !.check = check, !.trust = trust, !.lost = lost]
  BY DEF Start
<1>3. q.mode \in {"process", "virtual", "data"}
  BY Typed
<1> HIDE DEF trust, lost, check, s
<1>4. s.skip = q.skip /\ s.trust = trust /\ s.lost = lost
  BY <1>2 DEF Fresh
<1> QED BY <1>1, <1>3, <1>4 DEF s, trust, lost, Alike

(* An attribute to be copied. *)
LEMMA AskedForCopy ==
  ASSUME vol \in Volumes, NEW q \in Request(vol)
  PROVE  LET s == Start(q, 0, "attr")
         IN  /\ s \in Stream(vol) /\ Alike(q, s) /\ s.pc = "attr"
             /\ s.out = <<>> /\ s.r = 1 /\ s.readSize = 0
             /\ s.trust = Served(vol, q) /\ s.lost = ~Whole(vol, q)
<1> DEFINE s(pc) == Start(q, 0, pc)
<1>1. ASSUME NEW pc \in StreamState
      PROVE  /\ s(pc) \in Stream(vol) /\ Alike(q, s(pc)) /\ s(pc).pc = pc
             /\ s(pc).out = <<>> /\ s(pc).r = 1 /\ s(pc).readSize = 0
             /\ s(pc).trust = Served(vol, q) /\ s(pc).lost = ~Whole(vol, q)
  <2> DEFINE z == 0
  <2>1. z \in Nat
    OBVIOUS
  <2> HIDE DEF z
  <2>2. LET t == Start(q, z, pc)
        IN  /\ t \in Stream(vol) /\ Alike(q, t) /\ t.pc = pc
            /\ t.out = <<>> /\ t.r = 1 /\ t.readSize = 0
            /\ t.trust = Served(vol, q) /\ t.lost = ~Whole(vol, q)
    BY <2>1, AskedFor
  <2> QED BY <2>2 DEF z
<1>2. "attr" \in StreamState
  BY DEF StreamState
<1> HIDE DEF s
<1>3. /\ s("attr") \in Stream(vol) /\ Alike(q, s("attr")) /\ s("attr").pc = "attr"
      /\ s("attr").out = <<>> /\ s("attr").r = 1 /\ s("attr").readSize = 0
      /\ s("attr").trust = Served(vol, q) /\ s("attr").lost = ~Whole(vol, q)
  BY <1>1, <1>2
<1> QED BY <1>3 DEF s

(* Nothing comes of it. *)
LEMMA OpensInVain ==
  ASSUME vol \in Volumes, NEW q \in Request(vol), NEW pc \in {"threw", "null", "overflow"},
         NEW rd
  PROVE  Opened(vol, rd, [Start(q, 0, pc) EXCEPT !.lost = TRUE])
<1> DEFINE s == Start(q, 0, pc)
           t == [s EXCEPT !.lost = TRUE]
<1>0. pc \in StreamState
  BY DEF StreamState
<1>1. /\ s \in Stream(vol) /\ Alike(q, s) /\ s.pc = pc /\ s.out = <<>>
      /\ s.trust = Served(vol, q)
  BY <1>0, AskedFor
<1> HIDE DEF s
<1>2. /\ Alike(q, t) /\ t.pc = pc /\ t.out = <<>> /\ t.trust = Served(vol, q)
      /\ t.lost = TRUE
  BY <1>1 DEF Stream, Alike
<1> HIDE DEF t
<1>3. t.pc \notin Running /\ t.pc \in Endings \ {"done"} /\ t.pc # "idle"
      /\ t.pc \notin {"attr", "wof"}
  BY <1>2 DEF Running, InAttr, Endings
<1>4. t.trust => Served(vol, t)
  BY <1>2, AlikeFacts
<1>5. DataInv(vol, rd, t)
  BY <1>2, <1>3, <1>4 DEF DataInv, ListInv, BlocksInv, CopyInv, WofInv
<1> QED BY <1>2, <1>3, <1>5 DEF Opened, t, s

(* The size of what is read is that of the first piece. *)
LEMMA OpensBlocks ==
  ASSUME vol \in Volumes, NEW q \in Request(vol), NEW size \in Nat, q.mode # "data",
         size = SizeOf(Pieces(vol, q.name)[1], q.mode = "virtual"), NEW rd
  PROVE  Opened(vol, rd, Start(q, size, "enter"))
<1> DEFINE s == Start(q, size, "enter")
<1>0. "enter" \in StreamState
  BY DEF StreamState
<1>1. /\ s \in Stream(vol) /\ Alike(q, s) /\ s.pc = "enter" /\ s.rec = Base
      /\ s.entries = <<>> /\ s.left = size /\ s.check = (size # 0)
      /\ s.out = <<>> /\ s.trust = Served(vol, q) /\ s.lost = ~Whole(vol, q)
      /\ q.mode \in {"process", "virtual", "data"}
  BY <1>0, AskedFor
<1> HIDE DEF s
<1>2. /\ s.mode = q.mode /\ s.name = q.name
      /\ s.trust => Served(vol, s)
      /\ ~s.lost => Whole(vol, s)
  BY <1>1, AlikeFacts DEF Alike
<1>3. s.pc \in Running /\ s.pc \notin InAttr /\ Begun(vol, s) = 0
  BY <1>1 DEF Running, InAttr, Begun
<1>4. ListInv(vol, s)
  BY <1>1, <1>3 DEF ListInv
<1>5. BlocksInv(vol, rd, s)
  <2> DEFINE all == All(vol, s)
             ps == Pieces(vol, s.name)
             b == PieceAt(vol, s)
  <2> SUFFICES ASSUME s.trust PROVE Blockwise(vol, rd, s)
    BY DEF BlocksInv
  <2>1. all \in Seq(Int) /\ b[1] = 0 /\ Len(ps) \in Nat
    BY <1>2, JoinedFacts
  <2>2. FileSize(vol, s) = size
    BY <1>2 DEF FileSize
  <2> HIDE DEF all, b, ps
  <2>3. Len(s.out) = 0 /\ Len(all) \in Nat
    BY <1>1, <2>1, LenProperties
  <2>4. Beginning(all, s.out)
    BY <2>3 DEF Beginning
  <2>5. InPlace(vol, rd, s)
    <3>1. InPiece(s) = 0
      BY <1>1 DEF InPiece
    <3>2. b[0 + 1] = 0 /\ 0 <= Len(ps)
      BY <2>1
    <3> QED BY <1>1, <1>3, <2>3, <3>1, <3>2 DEF InPlace, b, ps
  <2>6. Len(s.out) + s.left = FileSize(vol, s)
    BY <1>1, <2>2, <2>3
  <2> QED BY <1>1, <2>2, <2>4, <2>5, <2>6 DEF Blockwise, all
<1>6. CopyInv(vol, s)
  BY <1>1 DEF CopyInv
<1>7. WofInv(vol, s)
  <2> DEFINE f == Unpacked(Pieces(vol, "wof")[1].extents[1].at + 1)
  <2>1. Len(f) \in Nat
    BY UnpackedLen
  <2> HIDE DEF f
  <2>2. Len(s.out) = 0
    BY <1>1
  <2>3. Beginning(f, s.out)
    BY <2>1, <2>2 DEF Beginning
  <2> QED BY <1>1, <1>3, <2>3 DEF WofInv, f
<1>8. DataInv(vol, rd, s)
  BY <1>1, <1>2, <1>4, <1>5, <1>6, <1>7 DEF DataInv
<1> QED BY <1>1, <1>3, <1>8 DEF Opened, s

LEMMA BeginOpens ==
  ASSUME StreamInv, NEW c \in Client, NEW q \in Request(vol), Begin(c, q)
  PROVE  Opens(c)
<1> DEFINE base == vol[Base]
           named == Seen(base, q.name)
           away == named # <<>> /\ named[1].rec # Base
           virtual == q.mode = "virtual"
           Threw(s) == [s EXCEPT !.pc = "threw", !.lost = TRUE]
           none == Threw(Start(q, 0, "threw"))
<1>1. vol \in Volumes /\ Base \in DOMAIN vol /\ k[c].pc = "idle" /\ q.mode # "data"
  BY Now, ListFacts DEF Begin
<1>2. ASSUME NEW rd PROVE Opened(vol, rd, none)
  <2> DEFINE s == Start(q, 0, "threw")
  <2>1. Opened(vol, rd, [s EXCEPT !.lost = TRUE])
    BY <1>1, OpensInVain
  <2>2. "threw" \in StreamState
    BY DEF StreamState
  <2>3. s \in Stream(vol) /\ s.pc = "threw"
    BY <1>1, <2>2, AskedFor
  <2> HIDE DEF s
  <2>4. [s EXCEPT !.pc = "threw", !.lost = TRUE] = [s EXCEPT !.lost = TRUE]
    BY <2>3 DEF Stream
  <2> QED BY <2>1, <2>4 DEF s
<1>3. /\ \/ /\ HasStream(base, q.name) /\ reader' = reader
            /\ Keep(c, Start(q, SizeOf(Find(base, q.name), virtual), "enter"))
         \/ Keep(c, none) /\ reader' = reader
         \/ /\ away
            /\ \E t \in RecordFromNumber(reader, named[1].rec) :
                 /\ reader' = t.rd
                 /\ Touch(c, LET ext == vol[named[1].rec]
                             IN  IF t.ok /\ HasStream(ext, q.name)
                                 THEN Start(q, SizeOf(Find(ext, q.name), virtual),
                                            "enter")
                                 ELSE none)
  BY DEF Begin
<1> HIDE DEF none
<1>4. ASSUME NEW rd, NEW n \in DOMAIN vol, HasStream(vol[n], q.name),
             Pieces(vol, q.name)[1] = Find(vol[n], q.name)
      PROVE  Opened(vol, rd, Start(q, SizeOf(Find(vol[n], q.name), virtual), "enter"))
  <2> DEFINE size == SizeOf(Find(vol[n], q.name), virtual)
  <2>1. size \in Nat
    BY <1>1, <1>4, SizeFacts
  <2>2. size = SizeOf(Pieces(vol, q.name)[1], q.mode = "virtual")
    BY <1>4
  <2> HIDE DEF size
  <2>3. Opened(vol, rd, Start(q, size, "enter"))
    BY <1>1, <2>1, <2>2, OpensBlocks
  <2> QED BY <2>3 DEF size
<1>5. CASE /\ HasStream(base, q.name) /\ reader' = reader
           /\ Keep(c, Start(q, SizeOf(Find(base, q.name), virtual), "enter"))
  <2>1. Pieces(vol, q.name)[1] = Find(base, q.name)
    BY <1>1, <1>5, PiecesFacts
  <2>2. Opened(vol, reader, Start(q, SizeOf(Find(base, q.name), virtual), "enter"))
    BY <1>1, <1>4, <1>5, <2>1
  <2> HIDE DEF base, virtual
  <2> QED BY <1>1, <1>5, <2>2, KeepOpens
<1>6. CASE Keep(c, none) /\ reader' = reader
  BY <1>1, <1>2, <1>6, KeepOpens
<1>7. CASE /\ away
           /\ \E t \in RecordFromNumber(reader, named[1].rec) :
                /\ reader' = t.rd
                /\ Touch(c, LET ext == vol[named[1].rec]
                            IN  IF t.ok /\ HasStream(ext, q.name)
                                THEN Start(q, SizeOf(Find(ext, q.name), virtual),
                                           "enter")
                                ELSE none)
  <2> DEFINE n == named[1].rec
             good == Start(q, SizeOf(Find(vol[n], q.name), virtual), "enter")
  <2>1. PICK t \in RecordFromNumber(reader, n) :
          /\ reader' = t.rd
          /\ Touch(c, IF t.ok /\ HasStream(vol[n], q.name) THEN good ELSE none)
    BY <1>7
  <2>2. n \in DOMAIN vol /\ Pieces(vol, q.name)[1] = Find(vol[n], q.name)
    BY <1>1, <1>7, SeenFacts
  <2> HIDE DEF n, named
  <2>3. HasStream(vol[n], q.name) => Opened(vol, reader', good)
    BY <1>4, <2>2
  <2> HIDE DEF good
  <2>4. \E s : Opened(vol, reader', s) /\ Touch(c, s)
    BY <1>2, <2>1, <2>3
  <2> QED BY <1>1, <2>4, TouchOpens
<1> HIDE DEF base, named, away, virtual
<1> QED BY <1>3, <1>5, <1>6, <1>7

(* data(): the attribute it comes to is the first piece, if all is well. *)
LEMMA FirstVisited ==
  ASSUME NEW v \in Volumes, NEW q, Served(v, q), NEW n \in DOMAIN v,
         HasStream(v[n], q.name),
         \/ n = Base
         \/ /\ ~HasStream(v[Base], q.name) /\ v[Base].list # <<>>
            /\ n = v[Base].list[1].rec /\ n # Base
  PROVE  Find(v[n], q.name) = Pieces(v, q.name)[1]
<1> DEFINE ps == Pieces(v, q.name)
           vs == Visited(v, q.name)
           list == v[Base].list
           H == Holders(v, q.name)
<1>1. CASE n = Base
  BY <1>1, PiecesFacts
<1>2. CASE ~HasStream(v[Base], q.name) /\ list # <<>> /\ n = list[1].rec /\ n # Base
  <2>1. /\ Len(vs) \in Nat /\ Len(list) \in Nat /\ DOMAIN list = 1..Len(list)
        /\ H \in SUBSET (1..Len(list)) /\ list \in Seq([name : STRING, rec : DOMAIN v])
        /\ \A j \in H : /\ UpTo(H, j) \in 1..Len(vs)
                        /\ vs[UpTo(H, j)] = Find(v[list[j].rec], q.name)
    BY <1>2, VisitedFacts
  <2>2. 1 \in 1..Len(list)
    <3> HIDE DEF list
    <3>1. Len(list) # 0
      BY <1>2, <2>1
    <3> QED BY <2>1, <3>1
  <2>3. 1 \in H
    BY <1>2, <2>1, <2>2 DEF Holders
  <2>4. UpTo(H, 1) = 1
    <3> HIDE DEF H, list
    <3>1. UpTo(H, 0) = 0 /\ UpTo(H, 1) = UpTo(H, 1 - 1) + 1
      BY <2>1, <2>2, <2>3, UpToFacts
    <3>2. 1 - 1 = 0
      OBVIOUS
    <3> QED BY <3>1, <3>2
  <2>5. 1 \in 1..Len(vs) /\ vs[1] = Find(v[n], q.name)
    <3> HIDE DEF H, list, vs
    <3> QED BY <1>2, <2>1, <2>3, <2>4
  <2>6. Len(ps) \in Nat /\ 1 \in 1..Len(ps)
    BY JoinedFacts
  <2>7. IsPrefix(ps, vs) \/ IsPrefix(vs, ps)
    BY DEF Served
  <2> HIDE DEF ps, vs
  <2>8. ps[1] = vs[1]
    BY <2>1, <2>5, <2>6, <2>7, SamePrefix
  <2> QED BY <2>5, <2>8 DEF ps
<1> QED BY <1>1, <1>2

LEMMA OpensCopy ==
  ASSUME vol \in Volumes, NEW q \in Request(vol), q.mode = "data", NEW rd,
         NEW n \in DOMAIN vol, HasStream(vol[n], q.name),
         Served(vol, q) => Find(vol[n], q.name) = Pieces(vol, q.name)[1]
  PROVE  LET a == Find(vol[n], q.name)
         IN  Opened(vol, rd, [Start(q, 0, "attr") EXCEPT !.attr = a,
               !.buf = IF a.form = "resident" THEN a.value ELSE Zeros(a.alloc % Word)])
<1> DEFINE a == Find(vol[n], q.name)
           buf == IF a.form = "resident" THEN a.value ELSE Zeros(a.alloc % Word)
           s == Start(q, 0, "attr")
           t == [s EXCEPT !.attr = a, !.buf = buf]
<1>1. /\ s \in Stream(vol) /\ Alike(q, s) /\ s.pc = "attr"
      /\ s.out = <<>> /\ s.r = 1 /\ s.readSize = 0
      /\ s.trust = Served(vol, q) /\ s.lost = ~Whole(vol, q)
  BY AskedForCopy
<1> HIDE DEF s, buf, a
<1>2. /\ Alike(q, t) /\ t.pc = "attr" /\ t.out = <<>> /\ t.r = 1 /\ t.readSize = 0
      /\ t.trust = Served(vol, q) /\ t.lost = ~Whole(vol, q)
      /\ t.attr = a /\ t.buf = buf
  BY <1>1 DEF Stream, Alike
<1> HIDE DEF t
<1>3. /\ t.mode = "data" /\ t.name = q.name /\ Copied(t)
      /\ t.trust => Served(vol, t)
      /\ ~t.lost => Whole(vol, t)
  BY <1>2, AlikeFacts DEF Alike, Copied
<1>4. t.pc \in Running
  BY <1>2 DEF Running, InAttr
<1>5. CopyInv(vol, t)
  <2>1. CASE t.trust
    <3>1. /\ Served(vol, t) /\ t.attr = Pieces(vol, t.name)[1]
          /\ t.attr.form = "resident" => t.buf = t.attr.value
          /\ t.attr.form = "runs" => t.buf = Zeros(t.attr.alloc % Word)
      BY <1>2, <1>3, <2>1 DEF a, buf
    <3> QED BY <1>2, <1>3, <3>1, CopyBegins
  <2>2. CASE ~t.trust
    BY <2>2 DEF CopyInv
  <2> QED BY <2>1, <2>2
<1>6. DataInv(vol, rd, t)
  BY <1>2, <1>3, <1>5 DEF DataInv, ListInv, BlocksInv, WofInv
<1> QED BY <1>2, <1>4, <1>6 DEF Opened, t, s, buf, a

LEMMA BeginDataOpens ==
  ASSUME StreamInv, NEW c \in Client, NEW q \in Request(vol), BeginData(c, q)
  PROVE  Opens(c)
<1> DEFINE base == vol[Base]
           Ended(pc) == [Start(q, 0, pc) EXCEPT !.lost = TRUE]
           Copying(rec) ==
             LET a == Find(rec, q.name)
             IN  IF a.form = "runs" /\ a.extents = <<>> THEN Ended("threw")
                 ELSE [Start(q, 0, "attr") EXCEPT !.attr = a,
                         !.buf = IF a.form = "resident" THEN a.value
                                 ELSE Zeros(a.alloc % Word)]
           n == base.list[1].rec
           next(t) == IF ~t.ok THEN Ended("threw")
                      ELSE IF n = Base THEN Ended("overflow")
                      ELSE LET ext == vol[n]
                           IN IF HasStream(ext, q.name)
                              THEN Copying(ext) ELSE Ended("null")
<1>1. vol \in Volumes /\ Base \in DOMAIN vol /\ k[c].pc = "idle" /\ q.mode = "data"
  <2> HIDE DEF base, Ended, Copying, n, next
  <2>1. vol \in Volumes /\ Base \in DOMAIN vol
    BY Now, ListFacts
  <2>2. k[c].pc = "idle" /\ q.mode = "data"
    BY DEF BeginData
  <2> QED BY <2>1, <2>2
<1>2. \/ HasStream(base, q.name) /\ Keep(c, Copying(base)) /\ reader' = reader
      \/ Keep(c, Ended("null")) /\ reader' = reader
      \/ /\ base.seen # 0 /\ ~HasStream(base, q.name)
         /\ \E t \in RecordFromNumber(reader, n) : reader' = t.rd /\ Touch(c, next(t))
  BY DEF BeginData
<1>3. ASSUME NEW rd, NEW pc \in {"threw", "overflow", "null"}
      PROVE  Opened(vol, rd, Ended(pc))
  BY <1>1, OpensInVain
<1>4. ASSUME NEW rd, NEW m \in DOMAIN vol, HasStream(vol[m], q.name),
             \/ m = Base
             \/ ~HasStream(base, q.name) /\ base.list # <<>> /\ m = n /\ m # Base
      PROVE  Opened(vol, rd, Copying(vol[m]))
  <2>1. Served(vol, q) => Find(vol[m], q.name) = Pieces(vol, q.name)[1]
    BY <1>1, <1>4, FirstVisited
  <2> DEFINE a == Find(vol[m], q.name)
  <2>2. Opened(vol, rd, [Start(q, 0, "attr") EXCEPT !.attr = a,
               !.buf = IF a.form = "resident" THEN a.value ELSE Zeros(a.alloc % Word)])
    BY <1>1, <1>4, <2>1, OpensCopy
  <2>3. Opened(vol, rd, Ended("threw"))
    BY <1>3
  <2> QED BY <2>2, <2>3
<1> HIDE DEF Copying, Ended
<1>5. CASE HasStream(base, q.name) /\ Keep(c, Copying(base)) /\ reader' = reader
  <2>1. Opened(vol, reader, Copying(base))
    BY <1>1, <1>4, <1>5
  <2> HIDE DEF base
  <2> QED BY <1>1, <1>5, <2>1, KeepOpens
<1>6. CASE Keep(c, Ended("null")) /\ reader' = reader
  BY <1>1, <1>3, <1>6, KeepOpens
<1>7. CASE /\ base.seen # 0 /\ ~HasStream(base, q.name)
           /\ \E t \in RecordFromNumber(reader, n) : reader' = t.rd /\ Touch(c, next(t))
  <2>1. PICK t \in RecordFromNumber(reader, n) : reader' = t.rd /\ Touch(c, next(t))
    BY <1>7
  <2>2. n \in DOMAIN vol /\ base.list # <<>>
    BY <1>1, <1>7, ListFacts
  <2>3. ASSUME n # Base, HasStream(vol[n], q.name)
        PROVE  Opened(vol, reader', Copying(vol[n]))
    BY <1>4, <1>7, <2>2, <2>3
  <2> HIDE DEF n
  <2>4. Opened(vol, reader', next(t))
    BY <1>3, <2>3
  <2> HIDE DEF next
  <2> QED BY <1>1, <2>1, <2>4, TouchOpens
<1> HIDE DEF base, n, next
<1> QED BY <1>2, <1>5, <1>6, <1>7

-----------------------------------------------------------------------------
(* Nothing but its own block depends on where the reader is. *)
LEMMA DataLeft ==
  ASSUME NEW v, NEW rd, NEW rd2, NEW s, DataInv(v, rd, s), s.pc # "blocks"
  PROVE  DataInv(v, rd2, s)
<1>1. InRun(rd, s) => InRun(rd2, s)
  BY Zenon DEF InRun
<1>2. InPlace(v, rd, s) => InPlace(v, rd2, s)
  BY <1>1 DEF InPlace
<1>3. BlocksInv(v, rd2, s)
  BY <1>2 DEF DataInv, BlocksInv, Blockwise
<1> QED BY <1>3 DEF DataInv

LEMMA DataDisturbed ==
  ASSUME NEW v, NEW rd, NEW rd2, NEW s \in Stream(v), DataInv(v, rd, s)
  PROVE  DataInv(v, rd2, Disturbed(s))
<1> DEFINE t == Disturbed(s)
<1>1. CASE s.pc # "blocks"
  <2>1. t = s
    BY <1>1 DEF Disturbed, MidRun, Stream
  <2> QED BY <1>1, <2>1, DataLeft
<1>2. CASE s.pc = "blocks"
  <2>1. /\ Alike(s, t) /\ t.trust = FALSE /\ t.pc = "blocks" /\ t.lost = s.lost
        /\ t.entries = s.entries /\ t.rec = s.rec /\ t.attr = s.attr
    BY <1>2 DEF Disturbed, MidRun, Stream, Alike
  <2> HIDE DEF t
  <2>2. t.pc # "idle" /\ s.pc # "idle"
    BY <1>2, <2>1
  <2>3. ~t.lost => Whole(v, t)
    BY <1>2, <2>1, <2>2, DataSame
  <2>4. s.pc \in Running /\ s.pc \in InAttr /\ s.pc \notin {"attr"}
    BY <1>2 DEF Running, InAttr
  <2>5. s.mode # "data"
    BY <2>4 DEF DataInv
  <2>6. ListInv(v, t)
    BY <1>2, <2>1, <2>4, <2>5, ListStays DEF DataInv
  <2>7. t.mode # "data"
    BY <2>1, <2>5 DEF Alike
  <2>8. ~t.trust
    BY <2>1
  <2>9. BlocksInv(v, rd2, t) /\ CopyInv(v, t) /\ WofInv(v, t)
    BY <2>8 DEF BlocksInv, CopyInv, WofInv
  <2>10. DataInv(v, rd2, t)
    BY <2>2, <2>3, <2>6, <2>7, <2>8, <2>9 DEF DataInv
  <2> QED BY <2>10 DEF t
<1> QED BY <1>1, <1>2

DataAll == \A c \in Client : DataInv(vol, reader, k[c])
RefineInv == StreamInv /\ DataAll

LEMMA StepMoves ==
  ASSUME RefineInv, NEW c \in Client, Step(c)
  PROVE  Moves(c)
<1>1. StreamInv /\ DataInv(vol, reader, k[c])
  BY DEF RefineInv, DataAll
<1>2. mft = "runs"
  BY <1>1, StepGoes
<1>3. CASE Enter(c)
  BY <1>1, <1>3, EnterMoves
<1>4. CASE NextPiece(c)
  BY <1>1, <1>4, NextPieceMoves
<1>5. CASE StreamEnd(c)
  BY <1>1, <1>5, StreamEndMoves
<1>6. CASE ResidentBlock(c)
  BY <1>1, <1>6, ResidentBlockMoves
<1>7. CASE RunsEnd(c)
  BY <1>1, <1>7, RunsEndMoves
<1>8. CASE HoleRun(c)
  BY <1>1, <1>8, HoleRunMoves
<1>9. CASE HoleBlock(c)
  BY <1>1, <1>9, HoleBlockMoves
<1>10. CASE SeekRun(c)
  BY <1>1, <1>2, <1>10, SeekRunMoves
<1>11. CASE ReadBlock(c)
  BY <1>1, <1>11, ReadBlockMoves
<1>12. CASE Padding(c)
  BY <1>1, <1>12, PaddingMoves
<1>13. CASE PackedRun(c)
  BY <1>1, <1>2, <1>13, PackedRunMoves
<1>14. CASE AttrHole(c)
  BY <1>1, <1>14, AttrHoleMoves
<1>15. CASE AttrRun(c)
  BY <1>1, <1>2, <1>15, AttrRunMoves
<1>16. CASE AttrEnd(c)
  BY <1>1, <1>16, AttrEndMoves
<1>17. CASE WofBlock(c)
  BY <1>1, <1>17, WofBlockMoves
<1> QED BY <1>3, <1>4, <1>5, <1>6, <1>7, <1>8, <1>9, <1>10, <1>11, <1>12, <1>13,
           <1>14, <1>15, <1>16, <1>17 DEF Step

(* Every stream but c's is left alone or disturbed. *)
LEMMA OthersKeep ==
  ASSUME RefineInv, vol' = vol, NEW c \in Client, DataInv(vol, reader', k'[c]),
         \A d \in Client \ {c} : \/ k'[d] = k[d] /\ reader' = reader
                                 \/ k'[d] = Disturbed(k[d])
  PROVE  DataAll'
<1>1. ASSUME NEW d \in Client \ {c} PROVE DataInv(vol, reader', k'[d])
  <2>1. k[d] \in Stream(vol) /\ DataInv(vol, reader, k[d])
    BY Now DEF RefineInv, DataAll
  <2> QED BY <2>1, DataDisturbed
<1> QED BY <1>1 DEF DataAll

LEMMA DataNext == RefineInv /\ [Next]_vars => RefineInv'
<1> SUFFICES ASSUME RefineInv, [Next]_vars PROVE RefineInv'
  OBVIOUS
<1>1. StreamInv'
  BY StreamNext DEF RefineInv
<1>2. CASE OpenReader \/ LoadMft
  <2>1. mft = "absent" /\ vol' = vol /\ k' = k
    BY <1>2 DEF OpenReader, LoadMft
  <2>2. \A c \in Client : k[c].pc = "idle" /\ DataInv(vol, reader, k[c])
    BY <2>1 DEF RefineInv, StreamInv, MftInv, DataAll
  <2>3. \A c \in Client : DataInv(vol, reader', k[c])
    BY <2>2, DataLeft
  <2> QED BY <1>1, <2>1, <2>3 DEF RefineInv, DataAll
<1>3. CASE LookUp
  <2>1. vol' = vol /\ \A c \in Client : k'[c] = Disturbed(k[c])
    BY <1>3 DEF LookUp
  <2>2. \A c \in Client : k[c] \in Stream(vol) /\ DataInv(vol, reader, k[c])
    BY Now DEF RefineInv, DataAll
  <2>3. \A c \in Client : DataInv(vol, reader', k'[c])
    BY <2>1, <2>2, DataDisturbed
  <2> QED BY <1>1, <2>1, <2>3 DEF RefineInv, DataAll
<1>4. ASSUME NEW c \in Client, NEW q \in Request(vol), Begin(c, q) \/ BeginData(c, q)
      PROVE  RefineInv'
  <2>1. vol' = vol
    BY <1>4 DEF Begin, BeginData
  <2>2. Opens(c)
    BY <1>4, BeginOpens, BeginDataOpens DEF RefineInv
  <2> QED BY <1>1, <2>1, <2>2, OthersKeep DEF Opens, RefineInv
<1>5. ASSUME NEW c \in Client, Step(c) PROVE RefineInv'
  <2>1. vol' = vol
    BY <1>5, StepGoes DEF RefineInv
  <2>2. Moves(c)
    BY <1>5, StepMoves
  <2> QED BY <1>1, <2>1, <2>2, OthersKeep DEF Moves, Advance, RefineInv
<1>6. CASE (\E c \in Client : Resume(c)) \/ UNCHANGED vars
  <2>1. vol' = vol /\ reader' = reader /\ k' = k
    BY <1>6 DEF Resume, vars
  <2> QED BY <1>1, <2>1 DEF RefineInv, DataAll
<1> QED BY <1>2, <1>3, <1>4, <1>5, <1>6 DEF Next

LEMMA DataInit == Init => RefineInv
<1> SUFFICES ASSUME Init PROVE RefineInv
  OBVIOUS
<1>1. StreamInv /\ k = [c \in Client |-> Fresh]
  BY StreamInit DEF Init
<1>2. /\ Fresh.pc = "idle" /\ Fresh.out = <<>> /\ Fresh.trust = FALSE
      /\ Fresh.mode = "process"
  BY DEF Fresh
<1>3. Fresh.pc \notin Running /\ Fresh.pc \notin {"attr", "wof"}
  BY <1>2 DEF Running, InAttr
<1>4. DataInv(vol, reader, Fresh)
  BY <1>2, <1>3 DEF DataInv, ListInv, BlocksInv, CopyInv, WofInv
<1> QED BY <1>1, <1>4 DEF RefineInv, DataAll

-----------------------------------------------------------------------------
(* What FileRead sees of a step.                                           *)
LEMMA BeginningIsSubSeq ==
  ASSUME NEW S, NEW f \in Seq(S), NEW T, NEW x \in Seq(T), Beginning(f, x)
  PROVE  Len(x) \in 0..Len(f) /\ x = SubSeq(f, 1, Len(x))
<1> DEFINE n == Len(x)
           g == SubSeq(f, 1, n)
<1>1. /\ n \in Nat /\ Len(f) \in Nat /\ n <= Len(f) /\ \A u \in 1..n : x[u] = f[u]
      /\ DOMAIN x = 1..n /\ x \in [1..n -> T]
  BY LenProperties DEF Beginning
<1>2. \A i \in 1..n : i \in 1..Len(f) /\ f[i] \in S
  <2>1. \A i \in 1..n : i \in 1..Len(f)
    <3> DEFINE l == Len(f)
    <3>1. n \in Nat /\ l \in Nat /\ n <= l
      BY <1>1
    <3> HIDE DEF n, l
    <3> QED BY <3>1 DEF l
  <2> QED BY <2>1, ElementOfSeq
<1>3. /\ g \in Seq(S) /\ Len(g) = n /\ \A u \in 1..n : g[u] = f[u]
  <2> HIDE DEF n
  <2>1. 1 \in Int /\ n \in Int /\ n - 1 + 1 = n /\ (IF 1 <= n THEN n ELSE 0) = n
    BY <1>1
  <2>2. /\ g \in Seq(S) /\ Len(g) = (IF 1 <= n THEN n - 1 + 1 ELSE 0)
        /\ \A i \in 1..(n - 1 + 1) : g[i] = f[1 + i - 1]
    BY <1>2, <2>1, SubSeqProperties
  <2>3. \A i \in 1..n : 1 + i - 1 = i
    BY <1>1
  <2> QED BY <2>1, <2>2, <2>3
<1>4. x \in Seq(S)
  <2> HIDE DEF n
  <2>1. x \in [1..n -> S]
    BY <1>1, <1>2
  <2> QED BY <1>1, <2>1, SeqDef
<1>5. x = g
  <2> HIDE DEF g
  <2> QED BY <1>1, <1>3, <1>4, SeqEqual
<1> QED BY <1>1, <1>5

LEMMA FileIsSeq ==
  ASSUME NEW v \in Volumes, NEW s \in Stream(v), Served(v, s), s.pc # "idle"
  PROVE  \E S : FileAt(v, s) \in Seq(S)
<1>1. s.mode \in {"process", "virtual", "data"}
  BY DEF Stream
<1>2. CASE s.name = "wof" /\ s.mode # "data"
  <2> DEFINE l == Pieces(v, "wof")[1].extents[1].at + 1
             S == {1000 * l + i : i \in 1..(Unit * Cluster)}
  <2>1. Unit * Cluster \in Nat
    BY UnpackedLen
  <2> HIDE DEF l
  <2>2. Unpacked(l) = [i \in 1..(Unit * Cluster) |-> 1000 * l + i]
    BY DEF Unpacked
  <2>3. Unpacked(l) \in [1..(Unit * Cluster) -> S]
    BY <2>2
  <2>4. Unpacked(l) \in Seq(S)
    BY <2>1, <2>3, SeqDef
  <2>5. FileAt(v, s) = Unpacked(l)
    BY <1>2 DEF FileAt, l
  <2> QED BY <2>4, <2>5
<1>3. CASE ~(s.name = "wof" /\ s.mode # "data")
  <2> DEFINE f == SubSeq(All(v, s), 1, FileSize(v, s))
  <2>1. f \in Seq(Int) /\ Contents(v, s.name, s.mode = "virtual") = f
    BY <1>1, FileFacts
  <2>2. FileAt(v, s) = f
    BY <1>3, <2>1 DEF FileAt
  <2> HIDE DEF f
  <2> QED BY <2>1, <2>2
<1> QED BY <1>2, <1>3

(* A served stream reads its file. *)
LEMMA FileIsRead ==
  ASSUME vol \in Volumes, NEW s \in Stream(vol), Served(vol, s), s.pc # "idle"
  PROVE  FileOf(s) = FileAt(vol, s)
<1>1. Pieces(vol, s.name) # <<>>
  BY DEF Served
<1> QED BY <1>1 DEF FileOf, FileAt

LEMMA DeliversFile ==
  ASSUME vol \in Volumes, NEW s \in Stream(vol), Served(vol, s), s.pc # "idle",
         Beginning(FileAt(vol, s), s.out)
  PROVE  \E n \in 0..Len(FileOf(s)) : s.out = SubSeq(FileOf(s), 1, n)
<1>1. PICK S : FileAt(vol, s) \in Seq(S)
  BY FileIsSeq
<1>2. FileOf(s) = FileAt(vol, s)
  BY FileIsRead
<1>3. s.out \in Seq(Int)
  BY DEF Stream
<1> DEFINE f == FileAt(vol, s)  x == s.out
<1> HIDE DEF f, x
<1>4. Len(x) \in 0..Len(f) /\ x = SubSeq(f, 1, Len(x))
  BY <1>1, <1>3, BeginningIsSubSeq DEF f, x
<1> QED BY <1>2, <1>4 DEF f, x

(* A stream that is left alone or disturbed. *)
LEMMA OthersStay ==
  ASSUME vol' = vol, NEW d \in Client, k[d] \in Stream(vol),
         k'[d] = k[d] \/ k'[d] = Disturbed(k[d])
  PROVE  /\ FileOf(k[d])' = FileOf(k[d]) /\ k'[d].out = k[d].out
         /\ Phase(k'[d]) = Phase(k[d]) /\ (k'[d].trust => k[d].trust)
<1> DEFINE s == k[d]  t == k'[d]
<1>1. /\ t.pc = s.pc /\ t.mode = s.mode /\ t.name = s.name /\ t.out = s.out
      /\ t.lost = s.lost /\ (t.trust => s.trust)
  <2>1. CASE t = s
    BY <2>1
  <2>2. CASE t = Disturbed(s)
    BY <2>2 DEF Disturbed, Stream
  <2> QED BY <2>1, <2>2
<1> HIDE DEF s, t
<1>2. FileOf(t) = FileOf(s) /\ Phase(t) = Phase(s)
  BY <1>1 DEF FileOf, Phase
<1>3. FileOf(k[d])' = FileOf(t)
  BY DEF FileOf, t
<1> QED BY <1>1, <1>2, <1>3 DEF s, t

(* A step of a stream delivers, ends or only disturbs. *)
LEMMA MovesMap ==
  ASSUME RefineInv, StreamInv', vol' = vol, NEW c \in Client, Moves(c)
  PROVE  \/ Abstract!Deliver(c) \/ Abstract!Complete(c) \/ Abstract!GiveUp(c)
         \/ Abstract!Disturb
<1> DEFINE s == k[c]
           t == k'[c]
           F == [d \in Client |-> FileOf(k[d])]
           O == [d \in Client |-> k[d].out]
           T == [d \in Client |-> k[d].trust]
           P == [d \in Client |-> Phase(k[d])]
<1>1. /\ vol \in Volumes /\ s \in Stream(vol) /\ t \in Stream(vol)
      /\ \A d \in Client : k[d] \in Stream(vol)
  BY Now DEF RefineInv, StreamInv, TypeOK
<1>2. Advance(vol, reader', s, t)
  BY DEF Moves
<1>3. /\ Alike(s, t) /\ (t.trust => s.trust) /\ s.pc \in Running
      /\ DataInv(vol, reader', t) /\ t.pc \in Running \cup Endings
  BY <1>2 DEF Advance
<1>4. s.pc # "idle" /\ t.pc # "idle" /\ s.pc \notin Endings
  BY <1>3 DEF Running, InAttr, Endings
<1>5. \A d \in Client \ {c} :
        /\ F'[d] = F[d] /\ O'[d] = O[d] /\ P'[d] = P[d] /\ (T'[d] => T[d])
  BY <1>1, OthersStay DEF Moves
<1>6. FileOf(t) = FileOf(s) /\ F'[c] = FileOf(t) /\ F[c] = FileOf(s)
  <2>1. FileOf(t) = FileOf(s)
    BY <1>3, <1>4 DEF FileOf, Alike
  <2>2. FileOf(k[c])' = FileOf(t)
    BY DEF FileOf
  <2> QED BY <2>1, <2>2
<1>7. /\ O[c] = s.out /\ O'[c] = t.out /\ T[c] = s.trust /\ T'[c] = t.trust
      /\ P[c] = Phase(s) /\ P'[c] = Phase(t)
  BY DEF Phase
<1>8. /\ F = [d \in Client |-> F[d]] /\ F' = [d \in Client |-> F'[d]]
      /\ O = [d \in Client |-> O[d]] /\ O' = [d \in Client |-> O'[d]]
      /\ P = [d \in Client |-> P[d]] /\ P' = [d \in Client |-> P'[d]]
  OBVIOUS
<1> HIDE DEF s, t, F, O, T, P
<1>9. F' = F
  BY <1>5, <1>6, <1>8
<1>10. O' = [O EXCEPT ![c] = O'[c]] /\ (O'[c] = O[c] => O' = O)
  BY <1>5, <1>8
<1>11. P' = [P EXCEPT ![c] = P'[c]] /\ (P'[c] = P[c] => P' = P)
  BY <1>5, <1>8
<1>12. \A d \in Client : T'[d] => T[d]
  BY <1>3, <1>5, <1>7
<1>13. P[c] = "reading"
  BY <1>3, <1>4, <1>7 DEF Phase, Endings
<1>14. Abstract!Falling /\ Abstract!OnlyOf(c, O', O)
  BY <1>10, <1>12 DEF Abstract!Falling, Abstract!OnlyOf, T
<1>15. ASSUME t.trust
       PROVE  Served(vol, t) /\ F[c] = FileAt(vol, t)
  <2>1. Served(vol, t)
    BY <1>3, <1>4, <1>15 DEF DataInv
  <2> QED BY <1>1, <1>4, <1>6, <2>1, FileIsRead
<1>16. ASSUME t.trust, Beginning(FileAt(vol, t), t.out)
       PROVE  \E n \in 0..Len(F[c]) : O'[c] = SubSeq(F[c], 1, n)
  BY <1>1, <1>4, <1>6, <1>7, <1>15, <1>16, DeliversFile
<1>17. CASE t.pc \in Running /\ Grown(s.out, t.out)
  <2>1. P'[c] = "reading"
    BY <1>7, <1>17 DEF Phase, Running, InAttr
  <2>2. P' = P
    BY <1>11, <1>13, <2>1
  <2>3. CASE t.out = s.out
    <3>1. O' = O
      BY <1>7, <1>10, <2>3
    <3> QED BY <1>9, <1>14, <2>2, <3>1 DEF Abstract!Disturb, F, O, P
  <2>4. CASE Len(s.out) < Len(t.out) /\ SubSeq(t.out, 1, Len(s.out)) = s.out
    <3>1. Abstract!Extends(O[c], O'[c])
      BY <1>7, <2>4 DEF Abstract!Extends
    <3>2. T'[c] => \E n \in 0..Len(F[c]) : O'[c] = SubSeq(F[c], 1, n)
      <4> SUFFICES ASSUME t.trust
                   PROVE  \E n \in 0..Len(F[c]) : O'[c] = SubSeq(F[c], 1, n)
        BY <1>7
      <4>1. Beginning(FileAt(vol, t), t.out)
        BY <1>1, <1>3, <1>17, PrefixFacts
      <4> QED BY <1>16, <4>1
    <3>3. Abstract!Deliver(c)
      BY <1>9, <1>13, <1>14, <2>2, <3>1, <3>2 DEF Abstract!Deliver, F, O, T, P
    <3> QED BY <3>3
  <2> QED BY <1>17, <2>3, <2>4 DEF Grown
<1>18. CASE t.pc \in Endings /\ (t.trust => Whither(vol, t))
  <2>1. CASE t.pc = "done" /\ ~t.lost
    <3>1. P'[c] = "complete"
      BY <1>7, <2>1 DEF Phase
    <3>2. T'[c] => O'[c] = F[c]
      BY <1>7, <1>15, <1>18, <2>1 DEF Whither
    <3>3. Abstract!Complete(c)
      BY <1>9, <1>11, <1>13, <1>14, <3>1, <3>2 DEF Abstract!Complete, F, O, T, P
    <3> QED BY <3>3
  <2>2. CASE ~(t.pc = "done" /\ ~t.lost)
    <3>1. P'[c] = "short"
      BY <1>7, <1>18, <2>2 DEF Phase, Endings
    <3>2. T'[c] => \E n \in 0..Len(F[c]) : O'[c] = SubSeq(F[c], 1, n)
      BY <1>7, <1>16, <1>18, <2>2 DEF Whither
    <3>3. Abstract!GiveUp(c)
      BY <1>9, <1>11, <1>13, <1>14, <3>1, <3>2 DEF Abstract!GiveUp, F, O, T, P
    <3> QED BY <3>3
  <2> QED BY <2>1, <2>2
<1> QED BY <1>2, <1>17, <1>18 DEF Advance

LEMMA OpensMap ==
  ASSUME RefineInv, vol' = vol, NEW c \in Client, Opens(c)
  PROVE  Abstract!Open(c)
<1> DEFINE s == k[c]
           t == k'[c]
           F == [d \in Client |-> FileOf(k[d])]
           O == [d \in Client |-> k[d].out]
           T == [d \in Client |-> k[d].trust]
           P == [d \in Client |-> Phase(k[d])]
<1>1. \A d \in Client : k[d] \in Stream(vol)
  BY Now DEF RefineInv
<1>2. /\ s.pc = "idle" /\ t.out = <<>> /\ t.pc \in Running \cup (Endings \ {"done"})
  BY DEF Opens
<1>3. s.out = <<>>
  BY <1>2 DEF RefineInv, DataAll, DataInv
<1>4. \A d \in Client \ {c} :
        /\ F'[d] = F[d] /\ O'[d] = O[d] /\ P'[d] = P[d] /\ (T'[d] => T[d])
  BY <1>1, OthersStay DEF Opens
<1>5. O[c] = s.out /\ O'[c] = t.out /\ P[c] = Phase(s) /\ P'[c] = Phase(t)
  BY DEF Phase
<1>6. /\ F = [d \in Client |-> F[d]] /\ F' = [d \in Client |-> F'[d]]
      /\ O = [d \in Client |-> O[d]] /\ O' = [d \in Client |-> O'[d]]
      /\ P = [d \in Client |-> P[d]] /\ P' = [d \in Client |-> P'[d]]
  OBVIOUS
<1> HIDE DEF s, t, F, O, T, P
<1>7. F' = [F EXCEPT ![c] = F'[c]]
  BY <1>4, <1>6
<1>8. O' = O /\ O[c] = <<>>
  BY <1>2, <1>3, <1>4, <1>5, <1>6
<1>9. P[c] = "idle" /\ P'[c] \in {"reading", "short"}
  BY <1>2, <1>5 DEF Phase, Running, InAttr, Endings
<1>10. \E p \in {"reading", "short"} : P' = [P EXCEPT ![c] = p]
  BY <1>4, <1>6, <1>9
<1>11. Abstract!OnlyOf(c, F', F)
  BY <1>7 DEF Abstract!OnlyOf
<1>12. \A d \in Client \ {c} : T'[d] => T[d]
  BY <1>4
<1> QED BY <1>8, <1>9, <1>10, <1>11, <1>12 DEF Abstract!Open, F, O, T, P

(* Nothing happens to a stream. *)
LEMMA StaysMap ==
  ASSUME RefineInv, vol' = vol,
         \A d \in Client : k'[d] = k[d] \/ k'[d] = Disturbed(k[d])
  PROVE  Abstract!Disturb
<1> DEFINE F == [d \in Client |-> FileOf(k[d])]
           O == [d \in Client |-> k[d].out]
           T == [d \in Client |-> k[d].trust]
           P == [d \in Client |-> Phase(k[d])]
<1>1. \A d \in Client : k[d] \in Stream(vol)
  BY Now DEF RefineInv
<1>2. \A d \in Client :
        /\ F'[d] = F[d] /\ O'[d] = O[d] /\ P'[d] = P[d] /\ (T'[d] => T[d])
  BY <1>1, OthersStay
<1>3. /\ F = [d \in Client |-> F[d]] /\ F' = [d \in Client |-> F'[d]]
      /\ O = [d \in Client |-> O[d]] /\ O' = [d \in Client |-> O'[d]]
      /\ P = [d \in Client |-> P[d]] /\ P' = [d \in Client |-> P'[d]]
  OBVIOUS
<1> HIDE DEF F, O, T, P
<1>4. F' = F /\ O' = O /\ P' = P
  BY <1>2, <1>3
<1>5. \A d \in Client : T'[d] => T[d]
  BY <1>2
<1> QED BY <1>4, <1>5 DEF Abstract!Disturb, Abstract!Falling, F, O, T, P

LEMMA StreamMap == RefineInv /\ [Next]_vars => [Abstract!Next]_(Abstract!vars)
<1> SUFFICES ASSUME RefineInv, [Next]_vars PROVE Abstract!Next
  OBVIOUS
<1>1. StreamInv'
  BY DataNext DEF RefineInv
<1>2. ASSUME NEW c \in Client, NEW q \in Request(vol), Begin(c, q) \/ BeginData(c, q)
      PROVE  Abstract!Next
  <2>1. vol' = vol
    BY <1>2 DEF Begin, BeginData
  <2>2. Opens(c)
    BY <1>2, BeginOpens, BeginDataOpens DEF RefineInv
  <2> QED BY <2>1, <2>2, OpensMap DEF Abstract!Next
<1>3. ASSUME NEW c \in Client, Step(c) PROVE Abstract!Next
  <2>1. vol' = vol
    BY <1>3, StepGoes DEF RefineInv
  <2>2. Moves(c)
    BY <1>3, StepMoves
  <2> QED BY <1>1, <2>1, <2>2, MovesMap DEF Abstract!Next
<1>4. CASE LookUp
  <2>1. vol' = vol /\ \A d \in Client : k'[d] = Disturbed(k[d])
    BY <1>4 DEF LookUp
  <2> QED BY <2>1, StaysMap DEF Abstract!Next
<1>5. CASE OpenReader \/ LoadMft \/ (\E c \in Client : Resume(c)) \/ UNCHANGED vars
  <2>1. vol' = vol /\ k' = k
    BY <1>5 DEF OpenReader, LoadMft, Resume, vars
  <2> QED BY <2>1, StaysMap DEF Abstract!Next
<1> QED BY <1>2, <1>3, <1>4, <1>5 DEF Next

LEMMA StreamMapInit == Init => Abstract!Init
<1> SUFFICES ASSUME Init PROVE Abstract!Init
  OBVIOUS
<1>1. /\ k = [c \in Client |-> Fresh]
      /\ Fresh.pc = "idle" /\ Fresh.out = <<>> /\ Fresh.trust = FALSE
  BY DEF Init, Fresh
<1>2. FileOf(Fresh) = <<>> /\ Phase(Fresh) = "idle"
  BY <1>1 DEF FileOf, Phase
<1> QED BY <1>1, <1>2 DEF Abstract!Init

(***************************************************************************)
(* A stream implements the atomic reader of a file, for any volume NTFS    *)
(* would write, any consumers, requests and block size: as long as nothing *)
(* has sought or read between two blocks of a run, what process_data(),    *)
(* process_virtual_data() and data() have handed out is the beginning of   *)
(* the file, and all of it when they end with no piece lost.               *)
(***************************************************************************)
THEOREM StreamRefinesFileRead == Spec => ImplementsFileRead
<1>1. RefineInv /\ [Next]_vars => RefineInv'
  BY DataNext
<1>2. Init => RefineInv
  BY DataInit
<1>3. Init => Abstract!Init
  BY StreamMapInit
<1>4. RefineInv /\ [Next]_vars => [Abstract!Next]_(Abstract!vars)
  BY StreamMap
<1> QED BY <1>1, <1>2, <1>3, <1>4, PTL DEF Spec, ImplementsFileRead, Abstract!Spec
=============================================================================
