------------------------------ MODULE DiskScan ------------------------------
(***************************************************************************)
(* Finding the disks and their volumes: core::win::disks::list() with the  *)
(* constructors of Disk and VirtualDisk, by_index(), get_disk(), and what  *)
(* the info and backup commands do with the answer.  Each read of a disk   *)
(* is a step and may fail.  Positions and lengths count sectors.           *)
(*                                                                         *)
(* A machine has drives, numbered by Windows: a function from some numbers *)
(* to what is on the drive, and os, the volumes Windows knows (VolumeInfo).*)
(*   mbr     the four entries of the partition table                       *)
(*   chain   the EBR at a position: valid?, its partition, the next EBR    *)
(*   gpt     the sectors of partition entries; an entry is a partition     *)
(*   layout  the partitions the driver reports, with their numbers, if it  *)
(*           does                                                          *)
(*   boot    what the sector at a position says (VolumeInfo)               *)
(*   tells   what the driver tells of the drive, of Told                   *)
(*   sound   whether every read of it succeeds                             *)
(***************************************************************************)
EXTENDS VolumeInfo, Functions

CONSTANTS
  Machines, Commands,
  Gap,               \* how far list() looks behind a missing number (5)
  Lba,               \* 2^32
  GptSectors,        \* the sectors of entries (32)
  MaxEbrs            \* bound: the length of _ebrs

(* Sectors of the tables.  An MBR has 32 bits for positions and lengths;   *)
(* sector 0 is the table itself.                                           *)
Styles == {"raw", "mbr", "gpt"}
MbrEntry == [type : 0..255, pos : 0..(Lba - 1), len : 0..(Lba - 1), active : BOOLEAN]
GptEntry == [type : Nat, pos : Nat, len : Nat, active : BOOLEAN]
EbrSector == [valid : BOOLEAN, part : MbrEntry, next : 0..(Lba - 1)]
Partition == [style : Styles, number : Nat, type : Nat, pos : Nat, len : Nat,
              active : BOOLEAN]
Extended == {5, 15}

IsDrive(d) ==
  /\ d.mbr \in [1..4 -> MbrEntry]
  /\ \A i \in 1..4 : d.mbr[i].type \in Extended => d.mbr[i].pos # 0
  /\ \A p \in DOMAIN d.chain : p \in Nat \ {0} /\ d.chain[p] \in EbrSector
  /\ d.gpt \in Seq(Seq(GptEntry))
  /\ d.layout.ok \in BOOLEAN
  /\ d.layout.ok => d.layout.style \in Styles /\ d.layout.parts \in Seq(Partition)
  /\ \A p \in DOMAIN d.boot : p \in Nat /\ d.boot[p] \in Boot
  /\ d.sound \in BOOLEAN

IsMachine(m) ==
  /\ IsFiniteSet(DOMAIN m.drives)
  /\ \A n \in DOMAIN m.drives : n \in Nat /\ IsDrive(m.drives[n])
  /\ IsOs(m.os)

Command == [kind : {"info", "disk", "volume", "volume alone", "backup"},
            disk : Nat, volume : Nat]

ASSUME ScanAssumption ==
  /\ \A m \in Machines : IsMachine(m)
  /\ Commands \subseteq Command
  /\ Gap \in Nat \ {0} /\ Lba \in Nat \ {0} /\ GptSectors \in Nat /\ MaxEbrs \in Nat

VARIABLES
  machine,
  command,           \* the command line: [kind, disk, volume]
  pc,
  probe,             \* i and check_more_disk of list(); last: in its second loop
  disk,              \* the Disk under construction
  ext,               \* _get_mbr()'s i, where it reads, last_lba, and curr_ebr
  todo,              \* the partitions that have no Volume yet
  disks,             \* the answer of list()
  calls,             \* how often list() has returned
  result             \* [kind, disk, volume]

scan == <<probe, disk, ext, todo>>
vars == <<machine, command, pc, scan, disks, calls, result>>

Unused == [type |-> 0, pos |-> 0, len |-> 0, active |-> FALSE]
NoMbr == [i \in 1..4 |-> Unused]
NoEbr == [valid |-> FALSE, part |-> Unused, next |-> 0]

NewDisk(n) == [index |-> n, style |-> "raw", protective |-> FALSE, mbr |-> NoMbr,
               ebrs |-> <<>>, gpt |-> <<>>, about |-> {}, volumes |-> <<>>,
               virtual |-> FALSE]
NoExt == [i |-> 1, at |-> 0, last |-> 0]
Nothing == [kind |-> "none"]
NoDisk == NewDisk(0)

Init ==
  /\ machine \in Machines /\ command \in Commands
  /\ pc = "list"
  /\ probe = [i |-> 0, bound |-> 0, last |-> FALSE]
  /\ disk = NoDisk /\ ext = NoExt /\ todo = <<>>
  /\ disks = <<>> /\ calls = 0
  /\ result = Nothing

Drive == machine.drives[disk.index]
Goto(p) == pc' = p

-----------------------------------------------------------------------------
(* list(): the first loop ends at the first number that is not there, the  *)
(* second looks at the next ones, and ends at the next that is not there.  *)
List ==
  /\ pc = "list" /\ command.kind # "volume alone"
  /\ Goto("probe")
  /\ probe' = [i |-> 0, bound |-> 0, last |-> FALSE]
  /\ disks' = <<>>
  /\ UNCHANGED <<machine, command, disk, ext, todo, calls, result>>

Opened(n) == n \in DOMAIN machine.drives

X_ProbeDisk ==
  (* Bug: the second loop has no end but a missing number. *)
  /\ pc = "probe" /\ Opened(probe.i)
  /\ disk' = NewDisk(probe.i)
  /\ Goto("mbr")
  /\ UNCHANGED <<machine, command, probe, ext, todo, disks, calls, result>>

ProbeDisk ==
  /\ pc = "probe" /\ Opened(probe.i)
  /\ probe.last => probe.i < probe.bound
  /\ disk' = NewDisk(probe.i)
  /\ Goto("mbr")
  /\ UNCHANGED <<machine, command, probe, ext, todo, disks, calls, result>>

X_ProbeMissing ==
  (* Bug: the number that is missing is not stepped over. *)
  /\ pc = "probe" /\ ~Opened(probe.i)
  /\ IF probe.last THEN Goto("virtual") /\ UNCHANGED probe
     ELSE /\ probe' = [i |-> probe.i, bound |-> probe.i + Gap, last |-> TRUE]
          /\ UNCHANGED pc
  /\ UNCHANGED <<machine, command, disk, ext, todo, disks, calls, result>>

ProbeMissing ==
  /\ pc = "probe" /\ ~Opened(probe.i)
  /\ probe.last => probe.i < probe.bound
  /\ IF probe.last THEN Goto("virtual") /\ UNCHANGED probe
     ELSE /\ probe' = [i |-> probe.i + 1, bound |-> probe.i + Gap, last |-> TRUE]
          /\ UNCHANGED pc
  /\ UNCHANGED <<machine, command, disk, ext, todo, disks, calls, result>>

ProbeBound ==
  /\ pc = "probe" /\ probe.last /\ probe.i = probe.bound
  /\ Goto("virtual")
  /\ UNCHANGED <<machine, command, scan, disks, calls, result>>

-----------------------------------------------------------------------------
(* _get_mbr().  An error is printed, and the constructor goes on with what *)
(* the disk has got so far.                                                *)
Style(mbr) ==
  LET used == {i \in 1..4 : mbr[i].type # 0}
  IN  IF used = {1} /\ mbr[1].type = 238 THEN "gpt"
      ELSE IF used # {} THEN "mbr" ELSE "raw"

ReadMbr ==
  /\ pc = "mbr"
  /\ \/ /\ disk' = [disk EXCEPT !.mbr = Drive.mbr, !.style = Style(Drive.mbr),
                                !.protective = Style(Drive.mbr) = "gpt"]
        /\ Goto("ext") /\ ext' = NoExt
     \/ ~Drive.sound /\ Goto("gpt") /\ UNCHANGED <<disk, ext>>
  /\ UNCHANGED <<machine, command, probe, todo, disks, calls, result>>

Entry == disk.mbr[ext.i]

NextEntry ==
  /\ pc = "ext" /\ ext.i <= 4 /\ Entry.type \notin Extended
  /\ ext' = [ext EXCEPT !.i = @ + 1]
  /\ UNCHANGED <<machine, command, pc, probe, disk, todo, disks, calls, result>>

EntriesEnd ==
  /\ pc = "ext" /\ ext.i = 5
  /\ Goto("gpt")
  /\ UNCHANGED <<machine, command, scan, disks, calls, result>>

(* The first EBR of a container is where the container begins. *)
EnterContainer ==
  /\ pc = "ext" /\ ext.i <= 4 /\ Entry.type \in Extended
  /\ ext' = [ext EXCEPT !.at = Entry.pos, !.last = Entry.pos]
  /\ Goto("ebr")
  /\ UNCHANGED <<machine, command, probe, disk, todo, disks, calls, result>>

Ebr(pos) == IF pos \in DOMAIN Drive.chain THEN Drive.chain[pos] ELSE NoEbr

X_ReadEbr ==
  (* Bug: every partition is relative to the container. *)
  /\ pc = "ebr" /\ Len(disk.ebrs) < MaxEbrs
  /\ LET e == Ebr(ext.at)
         next == [ext EXCEPT !.i = @ + 1]
     IN  IF ~e.valid THEN ext' = next /\ Goto("ext") /\ UNCHANGED disk
         ELSE /\ disk' = [disk EXCEPT !.ebrs =
                   Append(@, [e.part EXCEPT !.pos = (Entry.pos + @) % Lba])]
              /\ IF e.next # 0
                 THEN ext' = [ext EXCEPT !.at = Entry.pos + e.next] /\ UNCHANGED pc
                 ELSE ext' = next /\ Goto("ext")
  /\ UNCHANGED <<machine, command, probe, todo, disks, calls, result>>

X_ReadEbrNext ==
  (* Bug: the position of the next EBR is never taken. *)
  /\ pc = "ebr" /\ Len(disk.ebrs) < MaxEbrs
  /\ LET e == Ebr(ext.at)
         next == [ext EXCEPT !.i = @ + 1]
     IN  IF ~e.valid THEN ext' = next /\ Goto("ext") /\ UNCHANGED disk
         ELSE /\ disk' = [disk EXCEPT !.ebrs = Append(@, e.part)]
              /\ IF e.next # 0
                 THEN UNCHANGED <<ext, pc>>
                 ELSE ext' = next /\ Goto("ext")
  /\ UNCHANGED <<machine, command, probe, todo, disks, calls, result>>

(* One turn of the while loop: the partition is relative to its EBR, the   *)
(* next EBR to the container.  (32 bits hold the sum for the partition, 64 *)
(* that for the position that is read.)                                    *)
ReadEbr ==
  /\ pc = "ebr" /\ Len(disk.ebrs) < MaxEbrs
  /\ LET e == Ebr(ext.at)
         next == [ext EXCEPT !.i = @ + 1]
     IN  IF ~e.valid THEN ext' = next /\ Goto("ext") /\ UNCHANGED disk
         ELSE /\ disk' = [disk EXCEPT !.ebrs =
                   Append(@, [e.part EXCEPT !.pos = (ext.last + @) % Lba])]
              /\ IF e.next # 0
                 THEN /\ ext' = [ext EXCEPT !.at = Entry.pos + e.next,
                                            !.last = (Entry.pos + e.next) % Lba]
                      /\ UNCHANGED pc
                 ELSE ext' = next /\ Goto("ext")
  /\ UNCHANGED <<machine, command, probe, todo, disks, calls, result>>

(* A read that fails: the first of a container ends the loop over the      *)
(* entries, a later one only the chain.  A seek that fails ends both.      *)
EbrFails ==
  /\ pc = "ebr" /\ ~Drive.sound
  /\ \/ Goto("gpt") /\ UNCHANGED ext
     \/ /\ ext.at # Entry.pos
        /\ ext' = [ext EXCEPT !.i = @ + 1] /\ Goto("ext")
  /\ UNCHANGED <<machine, command, probe, disk, todo, disks, calls, result>>

-----------------------------------------------------------------------------
(* _get_gpt(): the sectors of entries, to the first unused one. *)
SkipGpt ==
  /\ pc = "gpt" /\ ~disk.protective
  /\ Goto("info")
  /\ UNCHANGED <<machine, command, scan, disks, calls, result>>

ReadHeader ==
  /\ pc = "gpt" /\ disk.protective
  /\ \/ /\ Goto("entries")
        /\ todo' = SubSeq(Drive.gpt, 1, Min({GptSectors, Len(Drive.gpt)}))
     \/ ~Drive.sound /\ Goto("info") /\ UNCHANGED todo
  /\ UNCHANGED <<machine, command, probe, disk, ext, disks, calls, result>>

ReadEntries ==
  /\ pc = "entries" /\ todo # <<>>
  /\ LET sector == Head(todo)
         unused == {i \in DOMAIN sector : sector[i].type = 0}
         used == IF unused = {} THEN sector ELSE SubSeq(sector, 1, Min(unused) - 1)
     IN  /\ disk' = [disk EXCEPT !.gpt = @ \o used]
         /\ IF unused = {} THEN todo' = Tail(todo) /\ UNCHANGED pc
            ELSE todo' = <<>> /\ Goto("info")
  /\ UNCHANGED <<machine, command, probe, ext, disks, calls, result>>

(* No sector is left, or one could not be read. *)
EntriesOver ==
  /\ pc = "entries" /\ (todo = <<>> \/ ~Drive.sound)
  /\ Goto("info") /\ todo' = <<>>
  /\ UNCHANGED <<machine, command, probe, disk, ext, disks, calls, result>>

-----------------------------------------------------------------------------
(* _get_info_using_ioctl(): what the drive is, question by question; the   *)
(* first that is not answered is the last that is asked.                   *)
Told == <<"size", "trim", "product">>
ReadInfo ==
  /\ pc = "info"
  /\ disk' = [disk EXCEPT !.about =
                {Told[i] : i \in {i \in 1..Len(Told) :
                                   ToSet(SubSeq(Told, 1, i)) \subseteq Drive.tells}}]
  /\ Goto("layout")
  /\ UNCHANGED <<machine, command, probe, ext, todo, disks, calls, result>>

-----------------------------------------------------------------------------
(* _get_volumes() *)
Part(style, e, n) == [style |-> style, number |-> n, type |-> e.type,
                      pos |-> e.pos, len |-> e.len, active |-> e.active]
Numbered(style, es, first) == [i \in DOMAIN es |-> Part(style, es[i], first + i - 1)]

(* What is made of the tables when the driver gives no layout.  A container *)
(* of type 15 takes a number and stands for every EBR there is, one of     *)
(* type 5 stands for itself.  The length of a GPT partition is its last    *)
(* sector.                                                                 *)
Before(d, i, types) == Cardinality({h \in 1..(i - 1) : d.mbr[h].type \in types})
FirstNumber(d, i) == Before(d, i, 1..255) + Before(d, i, {15}) * Len(d.ebrs)

X_OfEntry(d, i) ==
  (* Bug: the logical partitions are numbered from the start again. *)
  CASE d.mbr[i].type = 0  -> <<>>
    [] d.mbr[i].type = 15 -> Numbered("mbr", d.ebrs, 0)
    [] OTHER              -> Numbered("mbr", <<d.mbr[i]>>, FirstNumber(d, i))

OfEntry(d, i) ==
  CASE d.mbr[i].type = 0  -> <<>>
    [] d.mbr[i].type = 15 -> Numbered("mbr", d.ebrs, FirstNumber(d, i) + 1)
    [] OTHER              -> Numbered("mbr", <<d.mbr[i]>>, FirstNumber(d, i))

Fallback(d) == IF d.protective THEN Numbered("gpt", d.gpt, 0)
               ELSE FlattenSeq([i \in 1..4 |-> OfEntry(d, i)])

(* The entries of the driver's layout that are not empty.                  *)
Given(parts) == FlattenSeq([j \in DOMAIN parts |->
                              IF parts[j].len > 0 THEN <<parts[j]>> ELSE <<>>])

Layout ==
  /\ pc = "layout"
  /\ \/ /\ Drive.layout.ok
        /\ disk' = [disk EXCEPT !.style = Drive.layout.style]
        /\ todo' = Given(Drive.layout.parts)
     \/ /\ ~Drive.layout.ok
        /\ todo' = Fallback(disk) /\ UNCHANGED disk
  /\ Goto("volumes")
  /\ UNCHANGED <<machine, command, probe, ext, disks, calls, result>>

BootAt(pos) == IF pos \in DOMAIN Drive.boot THEN Drive.boot[pos] ELSE "other"

Crash == Goto("over") /\ result' = [kind |-> "crashed"]

AddVolume ==
  /\ pc = "volumes" /\ todo # <<>>
  /\ \E m \in MakeVolume(machine.os, disk.index, Head(todo),
                         BootAt(Head(todo).pos), Drive.sound, NoName) :
       IF m.dies THEN Crash /\ UNCHANGED <<disk, todo>>
       ELSE /\ disk' = [disk EXCEPT !.volumes = Append(@, m.volume)]
            /\ todo' = Tail(todo)
            /\ UNCHANGED <<pc, result>>
  /\ UNCHANGED <<machine, command, probe, ext, disks, calls>>

AddDisk ==
  /\ pc = "volumes" /\ todo = <<>>
  /\ disks' = Append(disks, disk)
  /\ probe' = [probe EXCEPT !.i = @ + 1]
  /\ disk' = NoDisk /\ ext' = NoExt
  /\ Goto("probe")
  /\ UNCHANGED <<machine, command, todo, calls, result>>

-----------------------------------------------------------------------------
(* virtualdisk::list(): the volumes of VeraCrypt and TrueCrypt become      *)
(* disks with one volume at position 0, and are numbered by their place.   *)
Virtual(v, made) ==
  [NewDisk(0) EXCEPT !.volumes = made, !.virtual = TRUE, !.about = {"product"}]
Whole(v) == [style |-> "raw", number |-> 0, type |-> 0, pos |-> 0, len |-> v.size,
             active |-> FALSE]
Placed(ds, vs) == ds \o [j \in DOMAIN vs |-> [vs[j] EXCEPT !.index = Len(ds) + j - 1]]

(* A volume without path names is left out; one that is gone by now has no *)
(* Volume.  The boot sector is never read, for its position is 0.          *)
InOrder(S) == SetToSortSeq(S, <)
Outcome(v) ==
  {Virtual(v, <<>>)} \cup
  {Virtual(v, <<m.volume>>) :
     m \in MakeVolume(machine.os, 0, Whole(v), v.boot, FALSE, v.name)}
ListVirtual ==
  /\ pc = "virtual"
  /\ \E named \in SUBSET {j \in DOMAIN machine.os : machine.os[j].crypt} :
       LET vs == [j \in 1..Cardinality(named) |-> machine.os[InOrder(named)[j]]]
       IN  \E ds \in [DOMAIN vs -> UNION {Outcome(vs[j]) : j \in DOMAIN vs}] :
             /\ \A j \in DOMAIN vs : ds[j] \in Outcome(vs[j])
             /\ disks' = Placed(disks, ds)
  /\ Goto("listed") /\ calls' = calls + 1
  /\ UNCHANGED <<machine, command, scan, result>>

(* The enumeration fails, and all of list() with it. *)
VirtualFails ==
  /\ pc = "virtual"
  /\ Goto("failed") /\ calls' = calls + 1
  /\ UNCHANGED <<machine, command, scan, disks, result>>

-----------------------------------------------------------------------------
(* by_index(): the number is a place in the list. *)
ByIndex(n) == IF n < Len(disks) THEN <<disks[n + 1]>> ELSE <<>>

(* volumes(): the first of that number. *)
VolumeOf(d, n) ==
  LET hits == {j \in DOMAIN d.volumes : d.volumes[j].index = n}
  IN  IF hits = {} THEN <<>> ELSE <<d.volumes[Min(hits)]>>

Over(r) == Goto("over") /\ result' = r
Stays == UNCHANGED <<machine, command, scan, disks, calls>>

(* print_disks(), but for the media type and the size. *)
DiskRow(d) == [id |-> d.index, model |-> "product" \in d.about, partition |-> d.style]

(* re2 info: the list is made once to see whether that works, and once     *)
(* again to be printed; the second time nothing looks at the error.        *)
InfoDisks ==
  /\ pc \in {"listed", "failed"} /\ command.kind = "info"
  /\ IF pc = "failed" THEN Over([kind |-> IF calls = 1 THEN "error" ELSE "crashed"])
     ELSE IF calls = 1 THEN Goto("list") /\ UNCHANGED result
     ELSE Over([kind |-> "shown", disks |-> [j \in DOMAIN disks |-> DiskRow(disks[j])]])
  /\ Stays

Found == IF pc = "failed" THEN <<>> ELSE ByIndex(command.disk)

(* print_disk_volumes(): a row shows the number of a volume, what Windows  *)
(* and its first sector say of it, and where it lies.                      *)
VolumeRow(d, v) == [id |-> v.index, boot |-> d.style = "mbr" /\ v.bootable,
                    label |-> v.about.label, mounted |-> v.about.mounts,
                    filesystem |-> v.fs, offset |-> v.pos, size |-> v.len]

(* print_volume_info(): a volume is called locked when it has no file      *)
(* system, but one always has a name.                                      *)
VolumeSheet(d, v) ==
  [row |-> VolumeRow(d, v),
   bitlocker |-> CASE ~v.bitlocked -> "False"
                   [] v.bitlocked /\ v.fs = NoName -> "Locked"
                   [] v.bitlocked /\ v.fs # NoName -> "Unlocked"]

(* re2 info -d, and re2 info -d -v: here the error is printed and then     *)
(* .value() throws, and a volume that is not there is a null pointer.      *)
InfoDisk ==
  /\ pc \in {"listed", "failed"} /\ command.kind = "disk"
  /\ Over(IF Found = <<>> THEN [kind |-> "error"]
          ELSE [kind |-> "shown", disk |-> Found[1],
                rows |-> [j \in DOMAIN Found[1].volumes |->
                            VolumeRow(Found[1], Found[1].volumes[j])]])
  /\ Stays

InfoVolume ==
  /\ pc \in {"listed", "failed"} /\ command.kind = "volume"
  /\ Over(IF Found = <<>> THEN [kind |-> "crashed"]
          ELSE LET v == VolumeOf(Found[1], command.volume)
               IN  IF v = <<>> THEN [kind |-> "crashed"]
                   ELSE [kind |-> "shown", disk |-> Found[1], volume |-> v[1],
                         sheet |-> VolumeSheet(Found[1], v[1])])
  /\ Stays

(* re2 info -v: refused before anything is read. *)
InfoAlone ==
  /\ pc = "list" /\ command.kind = "volume alone"
  /\ Over([kind |-> "error"])
  /\ Stays

(* re2 backup: exit(1) without the disk; the volume is not looked at for   *)
(* null either.  What is opened is the volume's name.                      *)
Backup ==
  /\ pc \in {"listed", "failed"} /\ command.kind = "backup"
  /\ Over(IF Found = <<>> THEN [kind |-> "error"]
          ELSE LET v == VolumeOf(Found[1], command.volume)
               IN  IF v = <<>> THEN [kind |-> "crashed"]
                   ELSE IF ~IsNtfs(v[1])
                   THEN [kind |-> "refused", disk |-> Found[1], volume |-> v[1]]
                   ELSE [kind |-> "opened", disk |-> Found[1], volume |-> v[1]])
  /\ Stays

Next ==
  \/ List \/ ProbeDisk \/ ProbeMissing \/ ProbeBound
  \/ ReadMbr \/ NextEntry \/ EntriesEnd \/ EnterContainer \/ ReadEbr \/ EbrFails
  \/ SkipGpt \/ ReadHeader \/ ReadEntries \/ EntriesOver
  \/ ReadInfo \/ Layout \/ AddVolume \/ AddDisk \/ ListVirtual \/ VirtualFails
  \/ InfoDisks \/ InfoDisk \/ InfoVolume \/ InfoAlone \/ Backup

(* Nothing but the code's own loops keeps a command from its end. *)
Spec == Init /\ [][Next]_vars /\ WF_vars(Next)

-----------------------------------------------------------------------------
TypeOK ==
  /\ pc \in {"list", "probe", "mbr", "ext", "ebr", "gpt", "entries", "info", "layout",
             "volumes", "virtual", "listed", "failed", "over"}
  /\ probe.i \in Nat /\ (probe.last => probe.i <= probe.bound)
  /\ ext.i \in 1..5 /\ calls \in 0..2
  /\ \A d \in ToSet(disks) \cup {disk} :
       /\ d.style \in Styles
       /\ Len(d.ebrs) <= MaxEbrs /\ \A j \in DOMAIN d.ebrs : d.ebrs[j] \in MbrEntry
       /\ \A j \in DOMAIN d.volumes : d.volumes[j].pos \in Nat

(* The EBRs of a container at c, by their positions, as the disk has them, *)
(* and 0 behind the last.                                                  *)
IsEbr(d, p) == p \in DOMAIN d.chain /\ d.chain[p].valid
After(d, c, p) == IF IsEbr(d, p) /\ d.chain[p].next # 0 THEN c + d.chain[p].next ELSE 0
Places(d, c) ==
  LET at[n \in 1..(MaxEbrs + 1)] == IF n = 1 THEN c ELSE After(d, c, at[n - 1])
  IN  at
Chain(d, c) == {p \in Range(Places(d, c)) : IsEbr(d, p)}
Acyclic(d) ==
  \A i \in 1..4 : d.mbr[i].type \in Extended => Places(d, d.mbr[i].pos)[MaxEbrs + 1] = 0

(* The partitions of a drive, containers not counted: the sector and the   *)
(* entry that describe one, and where it begins.                           *)
InTable(d) == {[in |-> 0, entry |-> i, pos |-> d.mbr[i].pos] :
                 i \in {i \in 1..4 : d.mbr[i].type \notin {0} \cup Extended}}
InChain(d, c) == {[in |-> p, entry |-> 1, pos |-> p + d.chain[p].part.pos] : p \in Chain(d, c)}
InGpt(d, s) == {[in |-> s, entry |-> i, pos |-> d.gpt[s][i].pos] :
                  i \in {i \in DOMAIN d.gpt[s] : d.gpt[s][i].type # 0}}
Partitions(d) ==
  IF Style(d.mbr) = "gpt" THEN UNION {InGpt(d, s) : s \in DOMAIN d.gpt}
  ELSE InTable(d) \cup
       UNION {InChain(d, d.mbr[i].pos) : i \in {i \in 1..4 : d.mbr[i].type \in Extended}}

(* Tables that are as they should be, on a drive that can be read: the     *)
(* entries of a GPT without a gap, one container, which is of type 15, and *)
(* a chain of partitions within the 32 bits.                               *)
Dense(d) ==
  \A s \in DOMAIN d.gpt : \A i \in DOMAIN d.gpt[s] : d.gpt[s][i].type = 0 =>
    /\ \A j \in DOMAIN d.gpt[s] : j > i => d.gpt[s][j].type = 0
    /\ \A r \in DOMAIN d.gpt : r > s => \A j \in DOMAIN d.gpt[r] : d.gpt[r][j].type = 0
Orderly(d) ==
  /\ d.sound /\ Acyclic(d) /\ Dense(d) /\ Len(d.gpt) <= GptSectors
  /\ \A i \in 1..4 : d.mbr[i].type # 5
  /\ \A i, j \in 1..4 : d.mbr[i].type = 15 /\ d.mbr[j].type = 15 => i = j
  /\ \A p \in DOMAIN d.chain : p + d.chain[p].part.pos < Lba

Physical == {d \in ToSet(disks) : ~d.virtual}
DriveOf(d) == machine.drives[d.index]
ByTables == {d \in Physical : ~DriveOf(d).layout.ok}

(***************************************************************************)
(* The driver's layout missing, the tables give every partition once: the  *)
(* logical ones of a container of type 15, wherever their EBRs lie, and    *)
(* the primary ones; where two begin at one place, two volumes do.  (Not   *)
(* the logical ones of a container of type 5, nor any behind an unused GPT *)
(* entry; those of two containers come twice.)                             *)
(***************************************************************************)
PartitionsFound ==
  \A d \in ByTables : Orderly(DriveOf(d)) =>
    LET found(x) == {j \in DOMAIN d.volumes : d.volumes[j].pos = x}
        there(x) == {p \in Partitions(DriveOf(d)) : p.pos = x}
    IN  \A x \in {d.volumes[j].pos : j \in DOMAIN d.volumes}
                 \cup {p.pos : p \in Partitions(DriveOf(d))} :
          Cardinality(found(x)) = Cardinality(there(x))

(***************************************************************************)
(* Every drive is listed if Windows left out one number at most, and fewer *)
(* than Gap drives are numbered behind it.                                 *)
(***************************************************************************)
Missing(n) == n \notin DOMAIN machine.drives
OneGap ==
  LET last == Max(DOMAIN machine.drives \cup {0})
      gaps == {n \in 0..last : Missing(n)}
  IN  Cardinality(gaps) <= 1 /\ \A g \in gaps : last < g + Gap
ListIsComplete ==
  pc = "listed" /\ OneGap => {d.index : d \in Physical} = DOMAIN machine.drives

(***************************************************************************)
(* The numbers that are shown are the numbers to ask with: that of a disk, *)
(* a virtual one too, gives it back if Windows left out no number (if it   *)
(* did, by_index() is off, and the first virtual disk shares its number    *)
(* with the last drive); and whatever the tables say and however much of   *)
(* them could be read, that of a volume gives the volume in its row.       *)
(***************************************************************************)
NoneMissing == \A n \in DOMAIN machine.drives : \A m \in 0..n : ~Missing(m)
NumbersGiveBack ==
  /\ "disks" \in DOMAIN result /\ NoneMissing =>
       \A j \in DOMAIN disks : ByIndex(result.disks[j].id) = <<disks[j]>>
  /\ "disk" \in DOMAIN result /\ NoneMissing => result.disk.index = command.disk
  /\ "rows" \in DOMAIN result /\ result.disk \in ByTables =>
       \A j \in DOMAIN result.rows :
         LET v == VolumeOf(result.disk, result.rows[j].id)
         IN  v # <<>> /\ VolumeRow(result.disk, v[1]) = result.rows[j]

(***************************************************************************)
(* A backup is refused or not by what is on the disk: only a partition     *)
(* that begins as NTFS or BitLocker do is opened, and on a sound drive     *)
(* every such one is, unless the low half of its position is 0.            *)
(***************************************************************************)
NtfsDecision ==
  result.kind \in {"opened", "refused"} =>
    LET d == result.disk  v == result.volume
        real == ~d.virtual /\ v.pos \in DOMAIN DriveOf(d).boot
                /\ DriveOf(d).boot[v.pos] \in {"ntfs", "fve"}
    IN  IF result.kind = "opened" THEN real
        ELSE ~real \/ ~DriveOf(d).sound \/ v.pos % SeekWord = 0

(***************************************************************************)
(* What a backup opens, and what info tells of a volume, is of the volume  *)
(* that was asked for, when Windows has one exactly there and the driver   *)
(* gave the layout.  (Otherwise it is of the last volume Windows           *)
(* enumerates, whatever that is.)                                          *)
(***************************************************************************)
AskedVolumeIsUsed ==
  "volume" \in DOMAIN result /\ ~result.disk.virtual /\ DriveOf(result.disk).layout.ok =>
    LET v == result.volume
        place == [disk |-> result.disk.index, pos |-> v.pos, len |-> v.len]
        there == {o \in ToSet(machine.os) : o.opens /\ place \in o.extents}
    IN  there # {} => \E o \in there : /\ o.name = v.name
                                      /\ v.about.label \in {o.label, NoName}
                                      /\ ToSet(v.about.mounts) \subseteq ToSet(o.mounts)

(***************************************************************************)
(* Every command comes to its end when no chain of EBRs returns to itself. *)
(***************************************************************************)
ScanEnds ==
  (\A n \in DOMAIN machine.drives : Acyclic(machine.drives[n])) ~> pc = "over"
=============================================================================
