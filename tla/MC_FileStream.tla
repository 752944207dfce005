---------------------------- MODULE MC_FileStream ----------------------------
(* Files of a few clusters of two units, one per way to keep them. *)
EXTENDS FileStream

D(l, n) == [kind |-> "data", at |-> l, len |-> n]
P(l, n) == [kind |-> "packed", at |-> l, len |-> n]
H(n)    == [kind |-> "hole", at |-> 0, len |-> n]

Clusters(es) == FoldSeq(LAMBDA e, n : n + e.len, 0, es)
Resident(name, n) ==
  [name |-> name, form |-> "resident", packed |-> FALSE, extents |-> <<>>,
   value |-> [i \in 1..n |-> 500 + i]]
Placed(es) ==
  [j \in DOMAIN es |-> es[j] @@ [before |-> Clusters(SubSeq(es, 1, j - 1))]]
Piece(name, es, size, packed) ==
  [name |-> name, form |-> "runs", packed |-> packed, extents |-> Placed(es),
   size |-> size, alloc |-> IF size = 0 THEN 0 ELSE Clusters(es) * Cluster]
(* The first piece of a stream with n clusters. *)
First(name, es, size, n) == [Piece(name, es, size, FALSE) EXCEPT !.alloc = n * Cluster]
Plain(es, size) == Piece("", es, size, FALSE)
Packed(es, size) == Piece("", es, size, TRUE)

Alone(as, wof) == (0 :> [data |-> as, list |-> <<>>, seen |-> 0, wof |-> wof])
File(a) == Alone(<<a>>, "none")
Record(as) == [data |-> as, list |-> <<>>, seen |-> 0, wof |-> "none"]
Entry(name, n) == [name |-> name, rec |-> n]
Spread(base, list, seen, ext1, ext2) ==
  (0 :> [data |-> base, list |-> list, seen |-> seen, wof |-> "none"])
  @@ (1 :> Record(ext1)) @@ (2 :> Record(ext2))

Wof(words, chunks, wof) ==
  Alone(<<[Plain(<<H(2)>>, 4) EXCEPT !.alloc = 4],
          [name |-> "wof", form |-> "runs", packed |-> FALSE,
           extents |-> Placed(<<D(3, 2)>>), size |-> 3, alloc |-> 4,
           words |-> words, chunks |-> chunks, window |-> 2]>>, wof)

PlainFiles == {
  File(Resident("", 5)),
  File(Plain(<<D(3, 5)>>, 9)),
  File(Plain(<<D(7, 1), D(3, 3)>>, 7)),
  File(Plain(<<H(2), D(3, 2)>>, 8)),
  File(Plain(<<H(1), D(3, 2)>>, 6)),       \* a hole shorter than a block
  File(Plain(<<D(3, 1), H(2), D(7, 1)>>, 8)),
  File(Plain(<<D(3, 9)>>, 18)),            \* a run of more than 2^32 bytes
  File(Plain(<<H(3)>>, 5)),
  File(Plain(<<H(2), D(3, 7)>>, 18)),      \* a hole before more than 2^32 bytes
  File(Plain(<<D(0, 1), D(3, 1)>>, 3)),    \* $Boot is at cluster 0
  File(First("", <<D(3, 2)>>, 0, 2)),      \* clusters of an empty file
  File(Plain(<<>>, 0)) }

PackedFiles == {
  File(Packed(<<P(3, 1), H(1), P(5, 1), H(1)>>, 7)),
  File(Packed(<<D(3, 4), P(9, 1), H(1)>>, 11)),
  File(Packed(<<D(3, 2), P(9, 1), H(1)>>, 7)),   \* a unit stored as it is
  File(Packed(<<P(3, 1), H(3), P(5, 1), H(1)>>, 11)),
  File(Packed(<<D(3, 9)>>, 18)),                 \* a run of more than 2^32 bytes
  Wof(<<1, 9, 9>>, <<1, 1>>, "xpress"),
  Wof(<<1, 2, 9>>, <<1, 1>>, "xpress"),          \* data that looks like a table
  Wof(<<2, 0, 0, 9>>, <<2, 1>>, "xpress"),       \* a chunk stored as it is
  Wof(<<1, 9, 9>>, <<1, 1>>, "lzx"),
  Wof(<<1, 9, 9>>, <<1, 1>>, "none") }

(* Two $DATA entries at the end of a list are not seen. *)
SpreadFiles ==
  UNION {{
    Spread(<<>>, <<Entry("", 1), Entry("", 2), Entry("ads", 1)>>, n,
           <<First("", <<D(3, 2)>>, 6, 3), Resident("ads", 5)>>,
           <<Piece("", <<D(7, 1)>>, 0, FALSE)>>),
    Spread(<<First("", <<D(3, 1)>>, 6, 3)>>,
           <<Entry("", 0), Entry("", 1), Entry("ads", 2)>>, n,
           <<Piece("", <<D(7, 2)>>, 0, FALSE)>>, <<Resident("ads", 3)>>),
    Spread(<<>>, <<Entry("", 2), Entry("ads", 1), Entry("ads", 2)>>, n,
           <<First("ads", <<D(3, 1)>>, 4, 2)>>,
           <<Plain(<<D(5, 1)>>, 2), Piece("ads", <<D(7, 1)>>, 0, FALSE)>>)
   } : n \in {1, 3}}
  \cup {Spread(<<>>, <<Entry("", 1), Entry("ads", 2)>>, 0,
               <<Plain(<<D(3, 1)>>, 2)>>, <<Resident("ads", 3)>>),
        (* a hole in the second piece *)
        Spread(<<>>, <<Entry("", 1), Entry("", 2)>>, 2,
               <<First("", <<D(3, 1)>>, 6, 4)>>, <<Piece("", <<H(2), D(7, 1)>>, 0, FALSE)>>)}

(* Every way to read a file; where there is a second consumer it reads the *)
(* same file.                                                              *)
Shared == File(Plain(<<D(3, 2), D(7, 1)>>, 5))
(* More than 2^32 bytes, in runs of less. *)
Large == File(Plain(<<D(3, 5), D(20, 5)>>, 19))
MCVolumes == PlainFiles \cup PackedFiles \cup SpreadFiles \cup {Shared, Large}

Names(v) == {"", "ads"} \cup (IF Len(v[0].data) = 2 THEN {"wof"} ELSE {})
Ask(c, m, n, skip) == [by |-> c, mode |-> m, name |-> n, skip |-> skip]
MCRequest(v) ==
  IF v = Shared
  THEN {Ask("reader", m, "", FALSE) : m \in {"process", "data"}}
       \cup {Ask("other", "process", "", FALSE)}
  ELSE IF v = Large THEN {Ask("reader", "data", "", FALSE)}
  ELSE {Ask("reader", m, n, FALSE) : m \in {"process", "data"}, n \in Names(v)}
       \cup {Ask("reader", m, "", TRUE) : m \in {"virtual", "process"}}
       \cup {Ask("reader", "virtual", "", FALSE)}
=============================================================================
