----------------------------- MODULE VolumeInfo -----------------------------
(***************************************************************************)
(* The constructor of Volume: the boot sector of a partition is read to    *)
(* detect BitLocker and the file system, and the partition is given the    *)
(* name of the Windows volume that lies on it.  Positions and lengths      *)
(* count sectors.  MakeVolume is the set of things that can come of it.    *)
(*                                                                         *)
(* os is what FindFirstVolumeW and FindNextVolumeW enumerate, in order:    *)
(* each volume has a name, the extents it occupies, a label and the paths  *)
(* it is mounted at; it opens or not, and answers every question or only   *)
(* some.                                                                   *)
(***************************************************************************)
EXTENDS Integers, Sequences, FiniteSets, SequencesExt, FiniteSetsExt

CONSTANT SeekWord    \* 2^32 bytes, in sectors

ASSUME SeekAssumption == SeekWord \in Nat \ {0}

(* What the first sector of a partition says.  "mswin" is the OEM id       *)
(* MSWIN4.1 of old FAT and of BitLocker To Go.                             *)
Boot == {"ntfs", "fve", "mswin", "fat", "other", "zeros"}

(* Windows knows one volume at least, each by a name of its own.           *)
Extent == [disk : Nat, pos : Nat, len : Nat]
OsVolume == [name : STRING, label : STRING, mounts : Seq(STRING), answers : BOOLEAN,
             extents : SUBSET Extent, opens : BOOLEAN, crypt : BOOLEAN,
             size : Nat, boot : Boot]
NoName == ""
IsOs(os) == /\ os \in Seq(OsVolume) /\ os # <<>>
            /\ \A i, j \in DOMAIN os : os[i].name = os[j].name => i = j
            /\ \A i \in DOMAIN os : os[i].name # NoName

(* SetFilePointer() gives the low 32 bits of the new position, and 0 is    *)
(* taken for a failure.                                                    *)
SeekSeen(pos) == pos % SeekWord # 0

Locked(boot) == boot \in {"fve", "mswin"}

(* read_fve() makes the buffer as large as the block says it is, and the   *)
(* entries in it are followed until their sizes add up exactly: does what  *)
(* is not BitLocker's metadata take the loop out of the buffer?            *)
FveBlockDies(boot) == IF Locked(boot) /\ boot # "fve" THEN BOOLEAN ELSE {FALSE}

(* _detect_bitlocker(): the sector, or zeros when it could not be read,    *)
(* and whether the process dies of the metadata blocks.                    *)
Detected(boot, pos, sound) ==
  {[boot |-> "zeros", dies |-> FALSE] : x \in {TRUE} \ {sound /\ SeekSeen(pos)}}
  \cup {[boot |-> boot, dies |-> d] :
           d \in IF SeekSeen(pos) THEN FveBlockDies(boot) ELSE {}}

X_FindFirstVolume(os, disk, pos, len) ==
  (* Bug: the search ends at the first volume on the disk. *)
  LET hits == {j \in DOMAIN os : os[j].opens /\ \E e \in os[j].extents : e.disk = disk}
  IN  IF hits = {} THEN os[Len(os)].name ELSE os[Min(hits)].name

(* findVolumeName(): the first volume with exactly this extent.  Its       *)
(* caller tests the std::expected and not the bool in it: where there is   *)
(* none, the name of the last volume is left in the buffer, and used.      *)
FindVolumeName(os, disk, pos, len) ==
  LET hits == {j \in DOMAIN os :
                 /\ os[j].opens
                 /\ [disk |-> disk, pos |-> pos, len |-> len] \in os[j].extents}
  IN  IF hits = {} THEN os[Len(os)].name ELSE os[Min(hits)].name

(* _get_info_by_name(): each question by itself.  Of the mount points only *)
(* the first is taken, for the step over it does not pass its end.         *)
FirstMount(v) == IF v.mounts = <<>> THEN <<>> ELSE <<v.mounts[1]>>
InfoByName(os, name) ==
  LET v == CHOOSE v \in ToSet(os) : v.name = name
      Known(x, none) == IF v.answers THEN {x} ELSE {x, none}
  IN  {[label |-> l, mounts |-> m] :
         l \in Known(v.label, NoName), m \in Known(FirstMount(v), <<>>)}

X_FilesystemByType(boot, style, type) ==
  (* Bug: the type of an MBR partition is believed. *)
  IF style = "mbr" /\ type = 7 THEN "NTFS"
  ELSE CASE boot = "ntfs" -> "NTFS"
         [] boot = "fve" -> "Bitlocker"
         [] boot = "fat" -> "FAT"
         [] OTHER -> "Unknown"

(* _detect_filesystem(); the names of the MBR types are none of these.     *)
Filesystem(boot, style, type) ==
  CASE boot = "ntfs" -> "NTFS"
    [] boot = "fve" -> "Bitlocker"
    [] boot = "fat" -> "FAT"
    [] OTHER -> IF style = "mbr" THEN "by type" ELSE "Unknown"

(* A partition p of disk number n, whose first sector is boot; name is     *)
(* given for a volume that is not on a disk.  Nothing of a sound disk is   *)
(* unreadable.                                                             *)
MakeVolume(os, n, p, boot, sound, name) ==
  LET found == IF name # NoName THEN name ELSE FindVolumeName(os, n, p.pos, p.len)
  IN  {[dies |-> d.dies,
        volume |->
          [index |-> p.number, pos |-> p.pos, len |-> p.len,
           bootable |-> p.style = "mbr" /\ p.active,
           name |-> found, about |-> about,
           fs |-> Filesystem(d.boot, p.style, p.type),
           bitlocked |-> Locked(d.boot)]] :
         d \in Detected(boot, p.pos, sound), about \in InfoByName(os, found)}

(* is_ntfs() *)
IsNtfs(v) == v.fs \in {"NTFS", "Bitlocker"}
=============================================================================
