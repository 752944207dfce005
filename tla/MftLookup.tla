----------------------------- MODULE MftLookup ------------------------------
(***************************************************************************)
(* mt_ntfs_mft_walker: a walker is constructed from the mapping pairs of   *)
(* $MFT, which read_dataruns() decodes (DataRuns), and                     *)
(* record_from_number() then fetches a record sector by sector through the *)
(* runs and hands it to a mt_ntfs_mft_record, whose constructor applies    *)
(* the fixups.  The volume is in use: NTFS may rewrite the record between  *)
(* two of the reads.  Positions on the disk count sectors of 512 bytes.    *)
(***************************************************************************)
EXTENDS DataRuns, FiniteSets

CONSTANTS
  Volumes,           \* geometries: see Volume
  Number,            \* the record numbers asked for
  MaxWrites          \* how often NTFS rewrites the record during a call

(* The runs are those of $MFT, and count clusters.                         *)
Run == [offset : Nat, length : Nat \ {0}]
Volume == [sectorsPerCluster : Nat \ {0}, sectorsPerRecord : Nat \ {0},
           runs : Seq(Run)]

(* What the attribute of these runs looks like; $MFT has no holes.         *)
LayoutOf(runs) == [j \in DOMAIN runs |-> [length |-> runs[j].length, lcn |-> runs[j].offset]]

ASSUME LookupAssumption ==
  /\ Volumes \subseteq Volume /\ Number \subseteq Nat /\ MaxWrites \in Nat
  /\ \A v \in Volumes : LayoutOf(v.runs) \in Layouts

VARIABLES
  vol,               \* the volume
  dataruns,          \* the walker's _dataruns
  place,             \* "construct", "runs", "idle", "locate", "read" or "gone"
  number,            \* the record asked for
  sector, position,  \* the loop's; position is its offset
  buffer,            \* the sectors read so far
  record,            \* what the latest call returned
  writes             \* NTFS's writes of the record since the call began

walker == <<vol, dataruns, place, number, sector, position, buffer, record, writes>>
lookupVars == <<walker, vars>>

NotSet == -1
Unread == [at |-> NotSet, body |-> 0, tail |-> 0]
NoRecord == [status |-> "none", offset |-> NotSet, sectors |-> <<>>]
Failed(why) == [status |-> why, offset |-> NotSet, sectors |-> <<>>]

LookupInit ==
  /\ Init
  /\ vol \in Volumes /\ layout = LayoutOf(vol.runs)
  /\ dataruns = <<>>
  /\ place = "construct"
  /\ number \in Number
  /\ sector = 0 /\ position = NotSet
  /\ buffer = <<>> /\ record = NoRecord
  /\ writes = 0

Proceed(p) == place' = p /\ UNCHANGED vars

(* A read of the first record that fails, or a $MFT without $DATA, leaves  *)
(* a walker without runs.                                                  *)
ReadMft ==
  /\ place = "construct"
  /\ \/ form # "null" /\ Proceed("runs")
     \/ Proceed("idle")
  /\ UNCHANGED <<vol, dataruns, number, sector, position, buffer, record, writes>>

ReadRuns == place = "runs" /\ Decode /\ UNCHANGED walker

(* Runs that cannot be decoded throw. *)
Construct ==
  /\ place = "runs" /\ pc = "end"
  /\ IF outcome = "ok" THEN dataruns' = result /\ Proceed("idle")
                       ELSE UNCHANGED dataruns /\ Proceed("gone")
  /\ UNCHANGED <<vol, number, sector, position, buffer, record, writes>>

Call ==
  /\ place = "idle"
  /\ number' \in Number
  /\ sector' = 0 /\ position' = NotSet
  /\ buffer' = [s \in 1..vol.sectorsPerRecord |-> Unread]
  /\ record' = NoRecord /\ writes' = 0
  /\ Proceed("locate")
  /\ UNCHANGED <<vol, dataruns>>

-----------------------------------------------------------------------------
(* The loop over the runs: the first that ends behind the cluster.         *)
ClusterOf(n) == n \div vol.sectorsPerCluster
Vcns(runs) ==
  LET vcn[j \in 1..(Len(runs) + 1)] ==
        IF j = 1 THEN 0 ELSE vcn[j - 1] + runs[j - 1].length
  IN  vcn
Vcn(j) == Vcns(dataruns)[j]
(* Bugs: the end of a run is in it; a run is taken to begin at cluster 0. *)
Covers_Inclusive(j, cluster) == cluster <= Vcn(j) + dataruns[j].length
Covers_NoVcn(j, cluster) == cluster < dataruns[j].length
Covers(j, cluster) == cluster < Vcn(j) + dataruns[j].length
FirstCovering(cluster, j) ==
  Covers(j, cluster) /\ \A k \in 1..(j - 1) : ~Covers(k, cluster)

Position(n, j) ==
  (dataruns[j].offset + ClusterOf(n) - Vcn(j)) * vol.sectorsPerCluster
    + (n % vol.sectorsPerCluster)

Wanted == number * vol.sectorsPerRecord + sector
Found(j) == j \in DOMAIN dataruns /\ FirstCovering(ClusterOf(Wanted), j)

(* Bug: one round too many, and an offset of -1 is not noticed. *)
Locate_OneMore ==
  /\ place = "locate" /\ sector <= vol.sectorsPerRecord
  /\ \/ \E j \in DOMAIN dataruns : Found(j) /\ position' = Position(Wanted, j)
     \/ (\A j \in DOMAIN dataruns : ~Found(j)) /\ UNCHANGED position
  /\ Proceed("read")
  /\ UNCHANGED <<vol, dataruns, number, sector, buffer, record, writes>>

(* position keeps the previous sector's when no run covers this one.       *)
Locate ==
  /\ place = "locate" /\ sector < vol.sectorsPerRecord
  /\ \/ \E j \in DOMAIN dataruns :
          /\ Found(j)
          /\ position' = Position(Wanted, j)
          /\ Proceed("read") /\ UNCHANGED record
     \/ /\ \A j \in DOMAIN dataruns : ~Found(j)
        /\ IF position = NotSet
           THEN record' = Failed("not found") /\ Proceed("idle")
           ELSE Proceed("read") /\ UNCHANGED record
        /\ UNCHANGED position
  /\ UNCHANGED <<vol, dataruns, number, sector, buffer, writes>>

(* A sector on the disk has its update sequence number for a tail.         *)
OnDisk(p) == [at |-> p, body |-> writes, tail |-> NotSet]

Read ==
  /\ place = "read"
  /\ buffer' = [buffer EXCEPT ![sector + 1] = OnDisk(position)]
  /\ sector' = sector + 1
  /\ Proceed("locate")
  /\ UNCHANGED <<vol, dataruns, number, position, record, writes>>

ReadFails ==
  /\ place = "read"
  /\ record' = Failed("read error") /\ Proceed("idle")
  /\ UNCHANGED <<vol, dataruns, number, sector, position, buffer, writes>>

(* The record's constructor puts the words of the update array, which came *)
(* with the first sector, back in the tails, one sector at a time.  The    *)
(* record's offset is that of the last sector read, less 512 bytes.        *)
UpdateSize == vol.sectorsPerRecord + 1
FixedUp(b) ==
  [s \in DOMAIN b |-> IF s < UpdateSize THEN [b[s] EXCEPT !.tail = b[1].body]
                      ELSE b[s]]

Build ==
  /\ place = "locate" /\ sector = vol.sectorsPerRecord
  /\ record' = [status |-> "ok", offset |-> position - 1, sectors |-> FixedUp(buffer)]
  /\ Proceed("idle")
  /\ UNCHANGED <<vol, dataruns, number, sector, position, buffer, writes>>

(* NTFS writes the whole record, with a new update sequence number.        *)
NtfsWrites ==
  /\ place \in {"locate", "read"} /\ writes < MaxWrites
  /\ writes' = writes + 1
  /\ UNCHANGED <<vol, dataruns, place, number, sector, position, buffer, record, vars>>

LookupNext ==
  \/ ReadMft \/ ReadRuns \/ Construct
  \/ Call \/ Locate \/ Read \/ ReadFails \/ Build \/ NtfsWrites
  \/ place = "gone" /\ UNCHANGED lookupVars

LookupSpec == LookupInit /\ [][LookupNext]_lookupVars
-----------------------------------------------------------------------------
(* Where a sector of a record lies, from the runs laid out end to end.     *)
Extents(runs) ==
  [j \in DOMAIN runs |-> [c \in 1..runs[j].length |-> runs[j].offset + c - 1]]
Clusters(runs) == FlattenSeq(Extents(runs))
Placed(n) == ClusterOf(n) < Len(Clusters(vol.runs))
Place(n) ==
  Clusters(vol.runs)[ClusterOf(n) + 1] * vol.sectorsPerCluster
    + (n % vol.sectorsPerCluster)
SectorsOf(r) == {r * vol.sectorsPerRecord + s : s \in 0..(vol.sectorsPerRecord - 1)}
Whole(r) == \A n \in SectorsOf(r) : Placed(n)

TypeOK ==
  /\ vol \in Volumes
  /\ dataruns \in {<<>>, vol.runs}
  /\ place \in {"construct", "runs", "idle", "locate", "read", "gone"}
  /\ number \in Number /\ sector \in 0..vol.sectorsPerRecord
  /\ position \in Nat \cup {NotSet}
  /\ Len(buffer) \in {0, vol.sectorsPerRecord}
  /\ record.status \in {"none", "ok", "not found", "read error"}
  /\ writes \in 0..MaxWrites

(***************************************************************************)
(* A record that lies in the runs and is not written between the first and *)
(* the last of its reads is returned whole: each sector from its own       *)
(* place, wherever a run ends, all of one version, tails included          *)
(* (mt_ntfs_mft_walker.cpp:148-196, mt_ntfs_mft_record.cpp:103-116).       *)
(***************************************************************************)
QuietRecordIsExact ==
  LET first == record.sectors[1]
      last  == record.sectors[vol.sectorsPerRecord]
  IN  record.status = "ok" /\ Whole(number) /\ first.body = last.body =>
        \A s \in 1..vol.sectorsPerRecord :
          record.sectors[s] =
            [at |-> Place(number * vol.sectorsPerRecord + s - 1),
             body |-> first.body, tail |-> first.body]

(***************************************************************************)
(* "Record not found" is said of a record outside the runs, or by a walker *)
(* whose constructor failed, and of no other (mt_ntfs_mft_walker.cpp:167). *)
(***************************************************************************)
NotFoundIsOutside ==
  record.status = "not found" => dataruns = <<>> \/ ~Whole(number)

(***************************************************************************)
(* What test/record.cpp:666-677 prints as the "Raw address" of a record is *)
(* where record_from_number() reads it.  raw_address() computes it from    *)
(* the first cluster of $MFT alone, and so it does not hold.               *)
(***************************************************************************)
RawAddress(r) ==
  vol.runs[1].offset * vol.sectorsPerCluster + r * vol.sectorsPerRecord
RawAddressIsPlace ==
  record.status = "ok" => record.sectors[1].at = RawAddress(number)
=============================================================================
