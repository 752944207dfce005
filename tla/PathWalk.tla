------------------------------ MODULE PathWalk ------------------------------
(***************************************************************************)
(* record_from_path() and list() of mt_ntfs_mft_walker, and of MFT, whose  *)
(* text is the same: from a path to a record, a directory a part, and from *)
(* there to the names in it.  Each directory is asked with the index() of  *)
(* NtfsIndex; its entries are read, and only then the record of the one    *)
(* that is wanted, which NTFS may have given to another file by then.      *)
(***************************************************************************)
EXTENDS NtfsIndex

CONSTANTS
  Requests,          \* see IsRequest
  Fold(_),           \* a name as _wcsicmp() sees it
  Short              \* the names of type 2 (DOS)

Root == 5            \* ROOT_FILE_NAME_INDEX_NUMBER
NoName == 0          \* the name of an entry of "$R", and the part behind a last "\"

(* file: who has the record, and dir what index() finds in it.             *)
IsRecord(r) == r.file \in Nat /\ r.folder \in BOOLEAN /\ IsDirectory(r.dir)

(* Whatever entry is found on a volume refers to one of its records.       *)
Refers(d, numbers) == \A e \in EverIn(d) : e.record \in numbers

(* "call" is a call of index() or index_records() alone, on one of         *)
(* Directories.  mft: the records of the volume, and spare the file that   *)
(* one of them is given to; parts: those behind the root directory of the  *)
(* path; wanted: what list() is to give, TRUE for the directories.         *)
IsRequest(r) ==
  \/ r.kind = "call"
  \/ /\ r.kind \in {"path", "list"} /\ r.fn \in Function \ {"index_records"}
     /\ r.absolute \in BOOLEAN /\ r.parts \in Seq(Nat) /\ r.wanted \subseteq BOOLEAN
     /\ Root \in DOMAIN r.mft
     /\ \A n \in DOMAIN r.mft : IsRecord(r.mft[n]) /\ Refers(r.mft[n].dir, DOMAIN r.mft)
     /\ IsRecord(r.spare) /\ Refers(r.spare.dir, DOMAIN r.mft)

ASSUME PathAssumption == \A r \in Requests : IsRequest(r)

VARIABLES
  request,
  reused,            \* the record given to the spare file, if any
  place,             \* "call", "start", "index", "list", "over"
  answer,
  trail,             \* the numbers of the current_dir of each part
  held,              \* the file whose record was read for the last of them
  quiet,             \* was each directory searched by names, in one version?
  todo, ret          \* list(): the entries to be looked at, what is handed back

path == <<request, place, answer, trail, held, quiet, todo, ret>>
pathVars == <<vars, reused, path>>

PathInit ==
  /\ Init
  /\ request \in Requests
  /\ reused = {} /\ answer = "none" /\ trail = <<>> /\ held = 0 /\ quiet = TRUE
  /\ todo = {} /\ ret = <<>>
  /\ IF request.kind = "call" THEN place = "call" /\ fn # "MFTRecord::index"
     ELSE /\ place = "start" /\ fn = request.fn
          /\ dir = CHOOSE d \in Directories : TRUE

MftRecord(n) == IF n \in reused THEN request.spare ELSE request.mft[n]
Over(a) == place' = "over" /\ answer' = a
PartAt(k) == request.parts[k]
IsPart(k) == k \in DOMAIN request.parts

(* current_dir->index(): of the tree as it is then.                        *)
Ask(d) ==
  /\ dir' = d /\ version' \in DOMAIN d.trees /\ root' = version'
  /\ pc' = "root" /\ outcome' = "none" /\ failed' = FALSE
  /\ rec' = "base" /\ type' = "$I30" /\ at' = 1
  /\ VCNToBlock' = <<>> /\ blocks' = 0 /\ stack' = <<>> /\ out' = <<>>
  /\ UNCHANGED fn

(* record_from_number() has read a record: it is what was looked for, or   *)
(* the next directory to search, or the one to list.                       *)
Reach(n) ==
  /\ trail' = Append(trail, n) /\ held' = MftRecord(n).file
  /\ IF request.kind = "path" /\ ~IsPart(Len(trail'))
     THEN Over("record") /\ UNCHANGED vars
     ELSE place' = "index" /\ Ask(MftRecord(n).dir) /\ UNCHANGED answer

FetchRoot ==
  /\ place = "start"
  /\ \/ request.absolute /\ Reach(Root)
     \/ Over("err") /\ UNCHANGED <<vars, trail, held>>
  /\ UNCHANGED <<request, reused, quiet, todo, ret>>

Index ==
  /\ place \in {"call", "index"} /\ Reader
  /\ UNCHANGED <<reused, path>>

CallReturns ==
  /\ place = "call" /\ pc = "end" /\ Over(outcome)
  /\ UNCHANGED <<vars, reused, request, trail, held, quiet, todo, ret>>

Asked == place = "index" /\ pc = "end"
IndexFails ==
  /\ Asked /\ outcome # "ok" /\ Over(outcome)
  /\ UNCHANGED <<vars, reused, request, trail, held, quiet, todo, ret>>

-----------------------------------------------------------------------------
(* record_from_path() *)

NameOf(e) == IF type = "$I30" THEN e.name ELSE NoName
Same_wcsicmp(e, part) == Fold(NameOf(e)) = Fold(part)

(* Bug: names are compared as they are written. *)
Match_Exact(part) == SelectInSeq(out, LAMBDA e : NameOf(e) = part)
Match(part) == SelectInSeq(out, LAMBDA e : Same_wcsicmp(e, part))

(* The one that fails is printed, and its value() throws.                  *)
SearchPart ==
  /\ Asked /\ outcome = "ok" /\ IsPart(Len(trail))
  /\ quiet' = (quiet /\ Quiet /\ type = "$I30")
  /\ LET m == Match(PartAt(Len(trail)))
     IN IF m = 0 THEN Over("missing") /\ UNCHANGED <<vars, trail, held>>
        ELSE \/ Reach(out[m].record)
             \/ Over("throws") /\ UNCHANGED <<vars, trail, held>>
  /\ UNCHANGED <<reused, request, todo, ret>>

-----------------------------------------------------------------------------
(* list() *)

(* Nothing sets the type of the name of an entry of "$R".                  *)
ShortEntries ==
  IF type = "$I30" THEN {{i \in DOMAIN out : out[i].name \in Short}}
  ELSE SUBSET DOMAIN out

(* Bug: a short name hides the long one. *)
Hidden_Long(s) ==
  {i \in DOMAIN out : i \notin s /\ \E j \in s : out[j].record = out[i].record}
Hidden(s) ==
  {i \in s : \E j \in DOMAIN out \ s : out[j].record = out[i].record}

BeginList ==
  /\ Asked /\ outcome = "ok" /\ ~IsPart(Len(trail)) /\ place' = "list"
  /\ \E s \in ShortEntries : todo' = DOMAIN out \ Hidden(s)
  /\ UNCHANGED <<vars, reused, request, answer, trail, held, quiet, ret>>

ListEntry ==
  /\ place = "list"
  /\ \E i \in todo :
       /\ \A j \in todo : i <= j
       /\ \/ /\ todo' = todo \ {i}
             /\ ret' = IF MftRecord(out[i].record).folder \in request.wanted
                       THEN Append(ret, out[i]) ELSE ret
             /\ UNCHANGED <<place, answer>>
          \/ Over("err") /\ UNCHANGED <<todo, ret>>
  /\ UNCHANGED <<vars, reused, request, trail, held, quiet>>

EndList ==
  /\ place = "list" /\ todo = {} /\ Over("listed")
  /\ UNCHANGED <<vars, reused, request, trail, held, quiet, todo, ret>>

-----------------------------------------------------------------------------
Rebuild == place \in {"call", "index"} /\ NtfsRebuilds /\ UNCHANGED <<reused, path>>

(* A file is deleted when the names beside it have been read, and another  *)
(* is made: the number of the record is the same, its sequence number, that *)
(* record_number() masks out, is not.                                      *)
NtfsReuses ==
  /\ Asked \/ place = "list"
  /\ reused = {} /\ \E e \in ToSet(out) : reused' = {e.record}
  /\ UNCHANGED <<vars, path>>

RecordFromPath == FetchRoot \/ Index \/ CallReturns \/ IndexFails \/ SearchPart
Listing == BeginList \/ ListEntry \/ EndList
Walker == RecordFromPath \/ Listing
PathDone == place = "over" /\ UNCHANGED pathVars
PathNext == Walker \/ Rebuild \/ NtfsReuses \/ PathDone

(* The call goes on; NTFS need not do anything.                            *)
PathSpec == PathInit /\ [][PathNext]_pathVars /\ WF_pathVars(Walker)

-----------------------------------------------------------------------------
(* The entries that some version of a directory gives for a part, and the  *)
(* first of them in the order of the names.                                *)
Named(t, part) == {e \in Entries(t) : Fold(e.name) = Fold(part)}
First(S) == CHOOSE e \in S : \A f \in S : e.name <= f.name
Trees(n) == ToSet(request.mft[n].dir.trees)
Follows(k) ==
  \E t \in Trees(trail[k]) :
    /\ Named(t, PartAt(k)) # {}
    /\ First(Named(t, PartAt(k))).record = trail[k + 1]

(***************************************************************************)
(* Each record on the way is the one the directory before it names,        *)
(* whatever the case of the path; the last is that of the file unless it   *)
(* was reused; and a file is missed only if some version of its directory  *)
(* does not name it (mt_ntfs_mft_walker.cpp:117-145).  Nothing of this     *)
(* holds when root and blocks of a directory were of two versions, nor on  *)
(* the way through an index "$R", whose entries have no names.             *)
(***************************************************************************)
PathIsExact ==
  place = "over" /\ quiet =>
    /\ \A k \in 1..(Len(trail) - 1) : trail[k] \notin reused => Follows(k)
    /\ answer = "record" =>
         /\ Len(trail) = Len(request.parts) + 1
         /\ Last(trail) \notin reused => held = request.mft[Last(trail)].file
    /\ answer = "missing" /\ Last(trail) \notin reused =>
         \E t \in Trees(Last(trail)) : Named(t, PartAt(Len(trail))) = {}

(***************************************************************************)
(* list() hands back each file of the directory that is of the kind asked  *)
(* for, under each of its names but for a short name that has a long one   *)
(* beside it, in the order of the names, and nothing else                  *)
(* (mt_ntfs_mft_walker.cpp:207-236).                                       *)
(***************************************************************************)
Shown(E) ==
  {e \in E : /\ request.mft[e.record].folder \in request.wanted
             /\ e.name \in Short =>
                  ~\E f \in E : f.record = e.record /\ f.name \notin Short}
ListIsExact ==
  answer = "listed" /\ type = "$I30" /\ Quiet /\ reused = {} =>
    /\ ToSet(ret) = Shown(Entries(dir.trees[root]))
    /\ \A i, j \in DOMAIN ret : i < j => ret[i].name < ret[j].name

(***************************************************************************)
(* Every call ends, on any tree, while it is being rebuilt, and with the   *)
(* attributes of a directory wherever they are.                            *)
(***************************************************************************)
Ends == <>(place = "over")
=============================================================================
