----------------------------- MODULE FileStream -----------------------------
(***************************************************************************)
(* Streaming a file with lib/NTFS: MFTRecord::process_data() and           *)
(* process_virtual_data() are generators on top of _process_data_raw(),    *)
(* data() copies an attribute into memory.  A generator runs from one      *)
(* co_yield to the next when its consumer asks for a block; between two    *)
(* blocks the consumer may do anything, and everything of a volume goes    *)
(* through one SeekReader: a second stream, or the look-up of a record.    *)
(***************************************************************************)
EXTENDS SeekReader, NtfsFile, FiniteSets, FiniteSetsExt, Functions

CONSTANTS
  Client,            \* the loops that consume a stream
  Volumes,           \* what the volume may hold: see NtfsFile
  Request(_),        \* what is asked of a volume: [by, mode, name, skip]
  Block,             \* block_size
  Word,              \* 2^32
  MftAt              \* where $MFT begins; a record takes one unit

None == "none"
ASSUME StreamAssumption ==
  /\ None \notin Client
  /\ Block \in Nat \ {0} /\ Word \in Nat /\ Block < Word
  /\ MftAt \in Nat \ {0}
ASSUME VolumesAssumption ==
  \A v \in Volumes :
    /\ IsVolume(v)
    /\ Request(v) \subseteq [by : Client, mode : {"process", "virtual", "data"},
                             name : STRING, skip : BOOLEAN]

VARIABLES
  vol,               \* the volume
  reader,            \* _reader, shared by everything below
  mft,               \* the MFT object: "absent", "runs" or "empty"
  active,            \* the generator that is running, or None
  k                  \* the state of each stream

vars == <<vol, reader, mft, active, k>>

NoAttr == [form |-> "none", name |-> None, packed |-> FALSE, extents |-> <<>>]
Fresh == [pc |-> "idle", mode |-> "process", name |-> None, skip |-> FALSE,
          rec |-> Base, entries |-> <<>>, attr |-> NoAttr,
          r |-> 1, i |-> 0, rbs |-> 0, written |-> 0, last |-> 0,
          left |-> 0, check |-> FALSE, buf |-> <<>>, readSize |-> 0,
          out |-> <<>>, trust |-> FALSE, lost |-> FALSE]

Init ==
  /\ vol \in Volumes
  /\ reader = Closed
  /\ mft = "absent"
  /\ active = None
  /\ k = [c \in Client |-> Fresh]

-----------------------------------------------------------------------------
(* std::min<uint32_t>: both operands lose all but their low 32 bits. *)
MinDword(a, b) == Min({a % Word, b % Word})

Bytes(run) == run.length * Cluster
Runs(s) == Decoded(s.attr)
Run(s) == Runs(s)[s.r]

(* NTFSExplorer: the reader is constructed, and then the MFT, which seeks  *)
(* to its first record.  A seek that fails is only printed, and what is    *)
(* read then is no record.                                                 *)
OpenReader ==
  /\ mft = "absent" /\ reader = Closed
  /\ reader' \in Constructed
  /\ UNCHANGED <<vol, mft, active, k>>

LoadMft ==
  /\ mft = "absent"
  /\ \E s \in Seek(reader, MftAt) : \E t \in Read(s.rd, 1) :
       /\ reader' = t.rd
       /\ mft' = IF s.ok /\ t.ok THEN "runs" ELSE "empty"
  /\ UNCHANGED <<vol, active, k>>

(* record_from_number(): one seek and one read for a record of one sector. *)
RecordFromNumber(rd, n) ==
  UNION {IF s.ok THEN Read(s.rd, 1) ELSE {[ok |-> FALSE, rd |-> s.rd]} :
           s \in Seek(rd, MftAt + n)}

(* A stream in the middle of a run relies on the position it left. *)
MidRun(s) == s.pc = "blocks"
Disturbed(s) == [s EXCEPT !.trust = @ /\ ~MidRun(s)]

(* c goes on as s; whoever else is in the middle of a run is disturbed. *)
Touch(c, s) == k' = [d \in Client |-> IF d = c THEN s ELSE Disturbed(k[d])]
Keep(c, s) == k' = [k EXCEPT ![c] = s]

(* The consumer looks up a record between two blocks. *)
LookUp ==
  /\ mft = "runs" /\ active = None
  /\ \E n \in DOMAIN vol : \E t \in RecordFromNumber(reader, n) :
       reader' = t.rd
  /\ k' = [c \in Client |-> Disturbed(k[c])]
  /\ UNCHANGED <<vol, mft, active>>

-----------------------------------------------------------------------------
(* A file compressed as a whole.  The stream begins with a table of where  *)
(* its chunks end, all but the last; each DWORD is one unit here.  Nothing *)
(* says how long the table is: parse_chunk_table() takes what could be an  *)
(* entry, and the first chunk begins at the first DWORD that could not.    *)
TableEntry(a, n) == IF n = 0 THEN 0 ELSE a.words[n]
NoEntry(a, window, n) ==
  LET e == TableEntry(a, n)
  IN  \/ e < TableEntry(a, n - 1)
      \/ e > Len(a.words)
      \/ e - TableEntry(a, n - 1) > window
TableLength(a, window) ==
  LET bad == {n \in DOMAIN a.words : NoEntry(a, window, n)}
  IN  IF bad = {} THEN Len(a.words) ELSE Min(bad) - 1

(* decompress_xpress(): chunk by chunk; when one is refused, as a chunk is *)
(* that NTFS stored as it was, the buffer stays as it is from there on.    *)
(* The caller never looks at the status.  decompress_lzx() does nothing.   *)
Xpress(v, a, window) ==
  LET whole == Find(v[Base], Unnamed)
      stored == {j \in DOMAIN a.chunks : a.chunks[j] >= window}
      out == Unpacked(a.extents[1].at + 1)
      good == IF TableLength(a, window) # Len(a.chunks) - 1 THEN 0
              ELSE IF stored = {} THEN whole.size
              ELSE window * (Min(stored) - 1)
      size == IF good = whole.size THEN good ELSE whole.alloc
  IN  [i \in 1..size |-> IF i <= good THEN out[i] ELSE Zero]
Lzx(v) == Zeros(Find(v[Base], Unnamed).alloc)

(* What decompress_xpress() gets right. *)
WofServed(v, a) ==
  /\ v[Base].wof = "xpress"
  /\ TableLength(a, a.window) = Len(a.chunks) - 1
  /\ \A j \in DOMAIN a.chunks : a.chunks[j] < a.window

-----------------------------------------------------------------------------
(* The beginning of a stream. *)
(* The $DATA attributes _process_data_raw() comes to, in its order.        *)
Visited(v, name) ==
  IF HasStream(v[Base], name) THEN <<Find(v[Base], name)>>
  ELSE LET list == v[Base].list
           es == Picked(list, {j \in DOMAIN list : /\ list[j].rec # Base
                                                   /\ HasStream(v[list[j].rec], name)})
       IN  [j \in DOMAIN es |-> Find(v[es[j].rec], name)]

Copied(q) == q.mode = "data" \/ q.name = "wof"
HolesServed(a, q) ==
  IF q.mode = "virtual" THEN FALSE ELSE Copied(q) \/ a.size < Word
LayoutServed(ps, j, q) ==
  LET a == ps[j]
  IN  \/ a.form = "resident"
      \/ /\ a.packed /\ PackedLayout(a) /\ q.mode = "process"
         /\ \A e \in DOMAIN a.extents : a.extents[e].len * Cluster < Word
      \/ /\ ~a.packed /\ (Copied(q) => a.alloc < Word)
         /\ PlainLayout(a, IF Copied(q) THEN 1 ELSE Block, j = 1 /\ HolesServed(a, q))

(* May the consumer rely on what comes, and will all of it come?  What is  *)
(* allocated to a file that is empty is handed out, because nothing is cut *)
(* at size 0.                                                              *)
Served(v, q) ==
  LET ps == Pieces(v, q.name)  vs == Visited(v, q.name)
  IN  /\ ps # <<>> /\ (IsPrefix(ps, vs) \/ IsPrefix(vs, ps))
      /\ \A j \in DOMAIN ps : LayoutServed(ps, j, q)
      /\ q.mode = "process" /\ ps[1].form = "runs" /\ ps[1].size = 0 =>
           ps[1].alloc = 0
      /\ q.name = "wof" /\ q.mode # "data" =>
           /\ Len(ps) = 1 /\ vs = ps /\ ps[1].form = "runs" /\ ~ps[1].packed
           /\ WofServed(v, ps[1])
      /\ q.skip => \A j \in DOMAIN ps : ps[j].form = "runs" =>
           \A e \in DOMAIN ps[j].extents : ps[j].extents[e].kind # "hole"
Whole(v, q) ==
  LET ps == Pieces(v, q.name)  vs == Visited(v, q.name)
  IN  IsPrefix(ps, vs) /\ (q.mode = "data" \/ q.name = "wof" => Len(ps) = 1)

Start(q, size, pc) ==
  [Fresh EXCEPT !.pc = pc, !.mode = q.mode, !.name = q.name, !.skip = q.skip,
                !.left = size, !.check = size # 0,
                !.trust = Served(vol, q), !.lost = ~Whole(vol, q)]

(* datasize() and data() want room for an attribute header, which is       *)
(* larger than an entry of the list, and do not come to the last ones.     *)
Seen(rec, name) == Picked(rec.list, Named(rec.list, name) \cap 1..rec.seen)

(* datasize(): from the record, or from the first entry of that name in    *)
(* the attribute list; .value() throws when there is neither.              *)
Begin(c, q) ==
  /\ mft = "runs" /\ active = None /\ k[c].pc = "idle"
  /\ q.by = c /\ q.mode # "data"
  /\ LET base == vol[Base]
         named == Seen(base, q.name)
         away == named # <<>> /\ named[1].rec # Base
         virtual == q.mode = "virtual"
         Threw(s) == [s EXCEPT !.pc = "threw", !.lost = TRUE]
     IN  \/ /\ HasStream(base, q.name)
            /\ Keep(c, Start(q, SizeOf(Find(base, q.name), virtual), "enter"))
            /\ UNCHANGED reader
         \/ /\ ~HasStream(base, q.name)
            /\ ~away
            /\ Keep(c, Threw(Start(q, 0, "threw")))
            /\ UNCHANGED reader
         \/ /\ ~HasStream(base, q.name)
            /\ away
            /\ \E t \in RecordFromNumber(reader, named[1].rec) :
                 /\ reader' = t.rd
                 /\ Touch(c, LET ext == vol[named[1].rec]
                             IN  IF t.ok /\ HasStream(ext, q.name)
                                 THEN Start(q, SizeOf(Find(ext, q.name), virtual),
                                            "enter")
                                 ELSE Threw(Start(q, 0, "threw")))
  /\ active' = IF k'[c].pc = "enter" THEN c ELSE None
  /\ UNCHANGED <<vol, mft>>

(* data(): the attribute of the record, or that of the record the first    *)
(* $DATA entry of the list names, whichever stream the entry is of.        *)
BeginData(c, q) ==
  /\ mft = "runs" /\ active = None /\ k[c].pc = "idle"
  /\ q.by = c /\ q.mode = "data"
  /\ LET base == vol[Base]
         Ended(pc) == [Start(q, 0, pc) EXCEPT !.lost = TRUE]
         Copying(rec) ==
           LET a == Find(rec, q.name)
           IN  IF a.form = "runs" /\ a.extents = <<>> THEN Ended("threw")
               ELSE [Start(q, 0, "attr") EXCEPT !.attr = a,
                       !.buf = IF a.form = "resident" THEN a.value
                               ELSE Zeros(a.alloc % Word)]
     IN  \/ /\ HasStream(base, q.name)
            /\ Keep(c, Copying(base)) /\ UNCHANGED reader
         \/ /\ ~HasStream(base, q.name) /\ base.seen = 0
            /\ Keep(c, Ended("null")) /\ UNCHANGED reader
         \/ /\ ~HasStream(base, q.name) /\ base.seen # 0
            /\ \E t \in RecordFromNumber(reader, base.list[1].rec) :
                 /\ reader' = t.rd
                 /\ Touch(c, IF ~t.ok THEN Ended("threw")
                             ELSE IF base.list[1].rec = Base
                             THEN Ended("overflow")
                             ELSE LET ext == vol[base.list[1].rec]
                                  IN IF HasStream(ext, q.name)
                                     THEN Copying(ext) ELSE Ended("null"))
  /\ active' = IF k'[c].pc = "attr" THEN c ELSE None
  /\ UNCHANGED <<vol, mft>>

-----------------------------------------------------------------------------
(* co_yield through process_data(): a block is cut at what is left of the  *)
(* stream, and the consumer runs.                                          *)
X_YieldedUncut(s, data) ==
  (* Bug: process_data() hands on the blocks as they come. *)
  [s EXCEPT !.out = @ \o data, !.left = IF s.check THEN Max({0, @ - Len(data)}) ELSE @]

X_YieldedSize(s, data) ==
  (* Bug: what is left is counted down by the block as it came. *)
  LET n == IF s.check /\ Len(data) > s.left THEN s.left ELSE Len(data)
  IN  [s EXCEPT !.out = @ \o SubSeq(data, 1, n),
                !.left = IF s.check THEN @ - Len(data) ELSE @]

Yielded(s, data) ==
  LET n == IF s.check /\ Len(data) > s.left THEN s.left ELSE Len(data)
  IN  [s EXCEPT !.out = @ \o SubSeq(data, 1, n),
                !.left = IF s.check THEN @ - n ELSE @]
Yield(c, s, data) == Keep(c, Yielded(s, data)) /\ active' = None

Resume(c) ==
  /\ active = None
  /\ k[c].pc \in {"next", "enter", "resident", "run", "hole", "blocks"}
  /\ active' = c
  /\ UNCHANGED <<vol, reader, mft, k>>

(* _process_data_raw() of record s.rec begins.  An empty run list is an    *)
(* error (DataRuns), whose .value() throws.                                *)
Enter(c) ==
  /\ k[c].pc = "enter"
  /\ LET s == k[c]  rec == vol[s.rec]
     IN  Keep(c,
           IF ~HasStream(rec, s.name)
           THEN [s EXCEPT !.pc = "next", !.entries = IF s.rec = Base THEN rec.list ELSE @]
           ELSE LET a == Find(rec, s.name)
                    t == [s EXCEPT !.attr = a, !.r = 1, !.i = 0,
                                   !.written = 0, !.last = 0]
                IN  IF a.form = "resident" THEN [t EXCEPT !.pc = "resident"]
                    ELSE IF a.extents = <<>>
                    THEN [t EXCEPT !.pc = "threw", !.lost = TRUE]
                    ELSE IF s.name # "wof" \/ a.packed THEN [t EXCEPT !.pc = "run"]
                    ELSE IF vol[Base].wof = None
                    THEN [t EXCEPT !.pc = "next", !.lost = TRUE]
                    ELSE [t EXCEPT !.pc = "attr", !.readSize = 0,
                                   !.buf = Zeros(a.alloc % Word)])
  /\ active' = IF k'[c].pc = "threw" THEN None ELSE active
  /\ UNCHANGED <<vol, reader, mft>>

(* The next $DATA entry of the attribute list, of any name; .value()       *)
(* throws when its record cannot be read.                                  *)
NextPiece(c) ==
  /\ k[c].pc = "next" /\ k[c].entries # <<>>
  /\ LET s == [k[c] EXCEPT !.entries = Tail(@)]
         n == Head(k[c].entries).rec
     IN  \/ n = Base /\ Keep(c, s) /\ UNCHANGED reader
         \/ /\ n # Base
            /\ \E t \in RecordFromNumber(reader, n) :
                 /\ reader' = t.rd
                 /\ Touch(c, IF t.ok THEN [s EXCEPT !.pc = "enter", !.rec = n]
                             ELSE [s EXCEPT !.pc = "threw", !.lost = TRUE])
  /\ active' = IF k'[c].pc = "threw" THEN None ELSE active
  /\ UNCHANGED <<vol, mft>>

StreamEnd(c) ==
  /\ k[c].pc = "next" /\ k[c].entries = <<>>
  /\ Keep(c, [k[c] EXCEPT !.pc = "done"])
  /\ active' = None
  /\ UNCHANGED <<vol, reader, mft>>

X_ResidentBlock(c) ==
  (* Bug: the offset is not advanced after a short block. *)
  /\ k[c].pc = "resident"
  /\ LET s == k[c]  n == Min({Block, Len(s.attr.value) - s.i})
     IN  IF n <= 0
         THEN Keep(c, [s EXCEPT !.pc = "next"]) /\ UNCHANGED active
         ELSE Yield(c, [s EXCEPT !.i = IF n < Block THEN @ ELSE @ + Block],
                    SubSeq(s.attr.value, s.i + 1, s.i + n))
  /\ UNCHANGED <<vol, reader, mft>>

ResidentBlock(c) ==
  /\ k[c].pc = "resident"
  /\ LET s == k[c]  n == Min({Block, Len(s.attr.value) - s.i})
     IN  IF n <= 0
         THEN Keep(c, [s EXCEPT !.pc = "next"]) /\ UNCHANGED active
         ELSE Yield(c, [s EXCEPT !.i = @ + Block],
                    SubSeq(s.attr.value, s.i + 1, s.i + n))
  /\ UNCHANGED <<vol, reader, mft>>

(* The loop over the runs, plain branch. *)
RunsEnd(c) ==
  /\ k[c].pc = "run" /\ k[c].r > Len(Runs(k[c]))
  /\ Keep(c, [k[c] EXCEPT !.pc = "next"])
  /\ UNCHANGED <<vol, reader, mft, active>>

AtRun(c) == k[c].pc = "run" /\ k[c].r <= Len(Runs(k[c]))

(* A hole is known by its offset 0. *)
HoleRun(c) ==
  /\ AtRun(c) /\ Run(k[c]).offset = 0
  /\ ~k[c].attr.packed
  /\ Keep(c, IF k[c].skip THEN [k[c] EXCEPT !.r = @ + 1]
             ELSE [k[c] EXCEPT !.pc = "hole", !.i = 0])
  /\ UNCHANGED <<vol, reader, mft, active>>

HoleBlock(c) ==
  /\ k[c].pc = "hole"
  /\ LET s == k[c]
         fixed == MinDword(s.attr.size - s.written, Block)
     IN  IF s.i >= Bytes(Run(s))
         THEN /\ Keep(c, [s EXCEPT !.pc = "run", !.r = @ + 1])
              /\ UNCHANGED active
         ELSE Yield(c, [s EXCEPT !.i = @ + Block, !.written = @ + fixed],
                    Zeros(fixed))
  /\ UNCHANGED <<vol, reader, mft>>

X_SeekRunOnce(c) ==
  (* Bug: a run that begins where the last one ended is not sought. *)
  /\ AtRun(c) /\ Run(k[c]).offset # 0 /\ ~k[c].attr.packed
  /\ LET s == k[c]
         t == [s EXCEPT !.pc = "blocks", !.i = 0,
                        !.rbs = MinDword(Block, Bytes(Run(s)))]
     IN  IF s.r > 1 THEN UNCHANGED reader /\ Keep(c, t)
         ELSE \E x \in Seek(reader, Run(s).offset * Cluster) :
                reader' = x.rd /\ Touch(c, [t EXCEPT !.trust = @ /\ x.ok])
  /\ UNCHANGED <<vol, mft, active>>

(* A run is sought once; a seek that fails is only printed. *)
SeekRun(c) ==
  /\ AtRun(c) /\ Run(k[c]).offset # 0
  /\ ~k[c].attr.packed
  /\ \E x \in Seek(reader, Run(k[c]).offset * Cluster) :
       /\ reader' = x.rd
       /\ Touch(c, [k[c] EXCEPT !.pc = "blocks", !.i = 0,
                                !.rbs = MinDword(Block, Bytes(Run(k[c]))),
                                !.trust = @ /\ x.ok])
  /\ UNCHANGED <<vol, mft, active>>

(* A piece that could not be read ends, and the next one follows it; the   *)
(* consumer is told nothing.                                               *)
Broken(s) == [s EXCEPT !.pc = "next", !.lost = TRUE, !.trust = @ /\ s.entries = <<>>]

(* A block of the run, from where the position is. *)
ReadBlock(c) ==
  /\ k[c].pc = "blocks"
  /\ LET s == k[c]  total == Bytes(Run(s))
     IN  \E t \in Read(reader, s.rbs) :
           /\ reader' = t.rd
           /\ LET n == MinDword(s.rbs, total - s.i)
                  over == s.i + n >= total
              IN  IF t.ok
                  THEN /\ Touch(c, Yielded(
                            [s EXCEPT !.rbs = n, !.i = @ + n, !.written = @ + n,
                                      !.pc = IF over THEN "run" ELSE "blocks",
                                      !.r = IF over THEN @ + 1 ELSE @],
                            SubSeq(t.data, 1, n)))
                       /\ active' = None
                  ELSE Touch(c, Broken(s)) /\ UNCHANGED active
  /\ UNCHANGED <<vol, mft>>

-----------------------------------------------------------------------------
(* The loop over the runs, compressed branch.  A unit is a run of packed   *)
(* clusters and one that pads it; the padding has decoded to the offset of *)
(* the run before, and is skipped by that.  The branch for a hole is never *)
(* taken: last_offset begins as 0, the offset of a leading hole.           *)
Padding(c) ==
  /\ AtRun(c) /\ k[c].attr.packed
  /\ Run(k[c]).offset = k[c].last
  /\ Keep(c, [k[c] EXCEPT !.r = @ + 1])
  /\ UNCHANGED <<vol, reader, mft, active>>

PackedRun(c) ==
  /\ AtRun(c) /\ k[c].attr.packed
  /\ Run(k[c]).offset # k[c].last
  /\ \E x \in Seek(reader, Run(k[c]).offset * Cluster) :
     \E t \in Read(x.rd, Bytes(Run(k[c])) % Word) :
       LET s == [k[c] EXCEPT !.last = Run(k[c]).offset, !.r = @ + 1,
                             !.trust = @ /\ x.ok]
       IN  /\ reader' = t.rd
           /\ \/ ~t.ok /\ Touch(c, Broken(s)) /\ UNCHANGED active
              \/ /\ t.ok /\ Run(k[c]).length > Unit
                 /\ Touch(c, Yielded(s, t.data)) /\ active' = None
              \/ /\ t.ok /\ Run(k[c]).length <= Unit
                 /\ \E d \in Decompress(s.attr, t.data) :
                      IF d.ok THEN Touch(c, Yielded(s, d.data)) /\ active' = None
                      ELSE Touch(c, Broken(s)) /\ UNCHANGED active
  /\ UNCHANGED <<vol, mft>>

-----------------------------------------------------------------------------
(* attribute_data(): the runs are read into one buffer, each at readSize.  *)
RoomLeft(s) == s.attr.size - s.readSize

X_AttrHole(c) ==
  (* Bug: a hole does not move readSize. *)
  /\ k[c].pc = "attr" /\ k[c].attr.form = "runs"
  /\ k[c].r <= Len(Runs(k[c])) /\ Run(k[c]).offset = 0
  /\ Keep(c, [k[c] EXCEPT !.r = @ + 1])
  /\ UNCHANGED <<vol, reader, mft, active>>

AttrHole(c) ==
  /\ k[c].pc = "attr" /\ k[c].attr.form = "runs"
  /\ k[c].r <= Len(Runs(k[c])) /\ Run(k[c]).offset = 0
  /\ Keep(c, [k[c] EXCEPT !.r = @ + 1,
                          !.readSize = @ + Min({RoomLeft(k[c]), Bytes(Run(k[c]))})])
  /\ UNCHANGED <<vol, reader, mft, active>>

(* The size of a read, and where it is put, are the low 32 bits.  What is  *)
(* written past the end of the buffer may end the process.                 *)
AttrRun(c) ==
  /\ k[c].pc = "attr" /\ k[c].attr.form = "runs"
  /\ k[c].r <= Len(Runs(k[c])) /\ Run(k[c]).offset # 0
  /\ LET s == k[c]  n == Bytes(Run(s)) % Word  at == s.readSize % Word
     IN  \E x \in Seek(reader, Run(s).offset * Cluster) :
         \E t \in Read(x.rd, n) :
           /\ reader' = t.rd
           /\ \/ /\ t.ok
                 /\ Touch(c, [s EXCEPT !.r = @ + 1, !.trust = @ /\ x.ok,
                       !.buf = [u \in DOMAIN @ |-> IF u \in (at + 1)..(at + n)
                                                  THEN t.data[u - at] ELSE @[u]],
                       !.readSize = @ + Min({RoomLeft(s), n})])
                 /\ UNCHANGED active
              \/ /\ t.ok /\ at + n > Len(s.buf)
                 /\ Touch(c, [s EXCEPT !.pc = "overrun"]) /\ active' = None
              \/ /\ ~t.ok
                 /\ Touch(c, [s EXCEPT !.r = Len(Runs(s)) + 1, !.lost = TRUE])
                 /\ UNCHANGED active
  /\ UNCHANGED <<vol, mft>>

(* shrink() only notes the low 32 bits of the size; they may be more than  *)
(* there is.                                                               *)
Shrunk(buf, size) ==
  [u \in 1..(size % Word) |-> IF u \in DOMAIN buf THEN buf[u] ELSE Garbage]

(* A buffer that is not full is dropped, and then shrunk. *)
AttrEnd(c) ==
  /\ k[c].pc = "attr"
  /\ LET s == k[c]
         resident == s.attr.form = "resident"
     IN  /\ s.r > Len(Runs(s))
         /\ Keep(c, IF ~resident /\ s.readSize # s.attr.size
                    THEN [s EXCEPT !.pc = "crashed"]
                    ELSE IF resident
                    THEN [s EXCEPT !.pc = "done", !.out = s.buf]
                    ELSE LET full == Shrunk(s.buf, s.attr.size)
                             cut == s.lost \/ s.attr.size >= Word
                         IN IF s.mode = "data"
                            THEN [s EXCEPT !.pc = "done", !.out = full, !.lost = cut]
                            ELSE [s EXCEPT !.pc = "wof", !.buf = full, !.lost = cut])
         /\ active' = IF k'[c].pc = "wof" THEN active ELSE None
  /\ UNCHANGED <<vol, reader, mft>>

-----------------------------------------------------------------------------
WofBlock(c) ==
  /\ k[c].pc = "wof"
  /\ LET s == k[c]
         there == s.buf = SubSeq(Allocated(s.attr), 1, s.attr.size)
     IN  Yield(c, [s EXCEPT !.pc = "next", !.lost = TRUE],
               IF vol[Base].wof = "lzx" THEN Lzx(vol)
               ELSE IF there THEN Xpress(vol, s.attr, s.attr.window)
               ELSE [i \in 1..Find(vol[Base], Unnamed).size |-> Garbage])
  /\ UNCHANGED <<vol, reader, mft>>

-----------------------------------------------------------------------------
Step(c) ==
  /\ active = c
  /\ \/ Enter(c) \/ NextPiece(c) \/ StreamEnd(c) \/ ResidentBlock(c)
     \/ RunsEnd(c) \/ HoleRun(c) \/ HoleBlock(c) \/ SeekRun(c) \/ ReadBlock(c)
     \/ Padding(c) \/ PackedRun(c)
     \/ AttrHole(c) \/ AttrRun(c) \/ AttrEnd(c) \/ WofBlock(c)

Next ==
  \/ OpenReader \/ LoadMft \/ LookUp
  \/ \E c \in Client :
       \/ \E q \in Request(vol) : Begin(c, q) \/ BeginData(c, q)
       \/ Resume(c) \/ Step(c)

(* The process is one thread: a generator that was resumed runs, and each  *)
(* consumer asks for blocks until there is none.                           *)
Fairness == \A c \in Client : WF_vars(Step(c)) /\ SF_vars(Resume(c))

Spec == Init /\ [][Next]_vars /\ Fairness

-----------------------------------------------------------------------------
StreamState ==
  {"idle", "enter", "next", "resident", "run", "hole", "blocks", "attr", "wof",
   "done", "threw", "null", "overflow", "overrun", "crashed"}

Attributes(v) == UNION {ToSet(v[n].data) : n \in DOMAIN v}
Stream(v) ==
  [pc : StreamState, mode : {"process", "virtual", "data"},
   name : STRING \cup {None}, skip : BOOLEAN,
   rec : DOMAIN v, entries : Seq([name : STRING, rec : DOMAIN v]),
   attr : Attributes(v) \cup {NoAttr}, r : Nat, i : Nat, rbs : Nat, written : Nat,
   last : Nat, left : Nat, check : BOOLEAN, buf : Seq(Int), readSize : Nat,
   out : Seq(Int), trust : BOOLEAN, lost : BOOLEAN]

TypeOK ==
  /\ vol \in Volumes
  /\ reader \in Reader
  /\ mft \in {"absent", "runs", "empty"}
  /\ active \in Client \cup {None}
  /\ k \in [Client -> Stream(vol)]

(***************************************************************************)
(* Once a volume is open the copy of the position is the kernel's, whatever*)
(* fails; seek() may skip the call.  (The boot record is read behind the   *)
(* copy's back: a first seek to 0 would be skipped and read sector 1.)     *)
(***************************************************************************)
PositionCoherent == mft = "runs" => Coherent(reader)

(***************************************************************************)
(* process_data() never hands out more than the file, whatever blocks the  *)
(* branches make of it: the copies of a stream that the entries of other   *)
(* streams bring again, the rest of a last cluster, the zeros of a hole.   *)
(***************************************************************************)
NeverTooLong ==
  \A c \in Client :
    k[c].check /\ k[c].mode = "process" =>
      Len(k[c].out) <= SizeOf(Pieces(vol, k[c].name)[1], FALSE)

(***************************************************************************)
(* attribute_data() shrinks a null buffer, and the process dies, only when *)
(* a read failed, or the attribute is a piece of a stream that goes on in  *)
(* another record, or a run is so long that its size leaves 32 bits.       *)
(***************************************************************************)
NullBufferHasCause ==
  \A c \in Client :
    k[c].pc = "crashed" =>
      \/ k[c].lost
      \/ \E j \in DOMAIN Runs(k[c]) : Bytes(Runs(k[c])[j]) >= Word

(***************************************************************************)
(* Every stream ends if no run is of 2^32 bytes or more; one that is makes *)
(* an empty block and never another, for ever.                             *)
(***************************************************************************)
Short(v) == \A n \in DOMAIN v : \A j \in DOMAIN v[n].data :
              v[n].data[j].form = "runs" =>
                \A e \in DOMAIN v[n].data[j].extents :
                  v[n].data[j].extents[e].len * Cluster < Word
Over(c) == k[c].pc \in {"done", "threw", "null", "overflow", "overrun", "crashed"}
StreamsEnd == \A c \in Client : Short(vol) /\ k[c].pc # "idle" ~> Over(c)

(***************************************************************************)
(* A stream implements an atomic reader of the file.                       *)
(***************************************************************************)
FileOf(s) ==
  IF s.pc = "idle" THEN <<>>
  ELSE IF s.name = "wof" /\ s.mode # "data" /\ Pieces(vol, "wof") # <<>>
  THEN Unpacked(Pieces(vol, "wof")[1].extents[1].at + 1)
  ELSE Contents(vol, s.name, s.mode = "virtual")
Phase(s) ==
  IF s.pc = "idle" THEN "idle"
  ELSE IF s.pc = "done" /\ ~s.lost THEN "complete"
  ELSE IF s.pc \in {"done", "threw", "null", "overflow", "overrun", "crashed"} THEN "short"
  ELSE "reading"

Abstract == INSTANCE FileRead WITH
  file  <- [c \in Client |-> FileOf(k[c])],
  out   <- [c \in Client |-> k[c].out],
  trust <- [c \in Client |-> k[c].trust],
  phase <- [c \in Client |-> Phase(k[c])]
ImplementsFileRead == Abstract!Spec
=============================================================================
