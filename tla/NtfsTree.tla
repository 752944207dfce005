------------------------------ MODULE NtfsTree ------------------------------
(***************************************************************************)
(* The volume a backup walks, as the walk sees it: one record per MFT      *)
(* record number, what a look-up of that record yields (its class), and    *)
(* the set of record numbers index_records() returns for a directory.      *)
(* The definitions are state-free; DirWalk and BackupWalk share them.      *)
(***************************************************************************)
EXTENDS Integers, FiniteSets, Sequences

CONSTANT Record      \* the MFT record numbers of the volume

ASSUME RecordAssumption == IsFiniteSet(Record) /\ Record \subseteq Nat

(***************************************************************************)
(* unreadable: record_from_number() answers an error                       *)
(* nameless:   filename() answers an error and .value() then throws        *)
(* system:     the name is ".", starts with "$", or is "System Volume      *)
(*             Information"                                                *)
(* dir, file:  the MFT_RECORD_IS_DIRECTORY flag of the header              *)
(***************************************************************************)
Class == {"unreadable", "nameless", "system", "dir", "file"}

(***************************************************************************)
(* What puts a record into its class: whether it can be read, its flag and *)
(* the names filename() finds in it.  Only the names in the record itself  *)
(* are looked at, not those that an attribute list says are elsewhere; of  *)
(* them the first is taken, or the second when the first is of type 2      *)
(* (DOS), and it has to be there then.                                     *)
(***************************************************************************)
Name == {"", "$", ".", "System Volume Information", "other"}
IsFileRecord(r) ==
  /\ r.readable \in BOOLEAN /\ r.directory \in BOOLEAN
  /\ r.names \in Seq([type : 0..3, name : Name])

Taken(r) == IF r.names # <<>> /\ r.names[1].type = 2 THEN 2 ELSE 1
HasName(r) == Taken(r) \in DOMAIN r.names /\ r.names[Taken(r)].name # ""
IsSystem(name) == name \in {"$", ".", "System Volume Information"}

ClassOf(r) ==
  IF ~r.readable THEN "unreadable"
  ELSE IF ~HasName(r) THEN "nameless"
  ELSE IF IsSystem(r.names[Taken(r)].name) THEN "system"
  ELSE IF r.directory THEN "dir" ELSE "file"

Volume == [root    : Record,                        \* where the walk starts
           class   : [Record -> Class],
           index   : [Record -> SUBSET Record],
           noindex : SUBSET Record]        \* index_records() fails, throws or crashes

(***************************************************************************)
(* The entries of directory d the loop reaches: index_records() gives a    *)
(* std::set, so entries come in ascending order, and the first nameless    *)
(* one throws and takes the rest of the directory with it.                 *)
(***************************************************************************)
Visible(v, d) ==
  IF d \in v.noindex THEN {}
  ELSE {e \in v.index[d] :
          \A f \in v.index[d] : v.class[f] = "nameless" => e < f}

Subdirs(v, d) == {e \in Visible(v, d) : v.class[e] = "dir"}

Closed(v, D) == \A d \in D : Subdirs(v, d) \subseteq D

(***************************************************************************)
(* The directories a sequential walk from the root expands: the least set  *)
(* that holds the root and is closed under Subdirs.                        *)
(***************************************************************************)
Walked(v) ==
  {d \in Record : \A D \in SUBSET Record :
                    v.root \in D /\ Closed(v, D) => d \in D}

(***************************************************************************)
(* What a backup counts: <<directory, entry>>, once per directory entry (a *)
(* file with two hard links in two directories is two links).              *)
(***************************************************************************)
Links(v) ==
  LET walked == Walked(v)
  IN  {l \in Record \X Record :
         /\ l[1] \in walked
         /\ l[2] \in Visible(v, l[1])
         /\ v.class[l[2]] \in {"dir", "file"}}

FileLinks(v, L) == {l \in L : v.class[l[2]] = "file"}
DirLinks(v, L)  == {l \in L : v.class[l[2]] = "dir"}

(***************************************************************************)
(* NTFS gives a directory one parent, and the start of the walk is not     *)
(* below itself (the root lists itself as ".", which is of class system).  *)
(***************************************************************************)
TreeShaped(v) ==
  /\ \A d \in Walked(v) : v.root \notin Subdirs(v, d)
  /\ \A c, d \in Walked(v) :
       Subdirs(v, c) \cap Subdirs(v, d) # {} => c = d

CONSTANT Volumes     \* the volumes a backup may be started on

ASSUME VolumesAssumption ==
  Volumes \subseteq Volume /\ \A v \in Volumes : TreeShaped(v)
=============================================================================
