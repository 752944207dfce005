-------------------------- MODULE BackupWalkProofs --------------------------
(***************************************************************************)
(* For every set of records, volumes and workers: the safety properties of *)
(* BackupWalk, and that it implements DirWalk.                             *)
(***************************************************************************)
EXTENDS BackupWalk, FiniteSetTheorems, TLAPS

(* Walked(v) holds the root, is closed, and is the least such set. *)
LEMMA WalkedClosed ==
  ASSUME NEW v \in Volume
  PROVE  /\ Walked(v) \subseteq Record
         /\ v.root \in Walked(v)
         /\ Closed(v, Walked(v))
<1>1. \A d \in Record : Subdirs(v, d) \subseteq Record
  BY DEF Volume, Subdirs, Visible
<1>2. v.root \in Walked(v) /\ Walked(v) \subseteq Record
  BY DEF Walked, Volume
<1>3. ASSUME NEW d \in Walked(v), NEW e \in Subdirs(v, d)
      PROVE  e \in Walked(v)
  <2>1. e \in Record
    BY <1>1, <1>2
  <2>2. ASSUME NEW D \in SUBSET Record, v.root \in D, Closed(v, D)
        PROVE  e \in D
    BY <2>2 DEF Walked, Closed
  <2> QED
    BY <2>1, <2>2 DEF Walked
<1> QED
  BY <1>2, <1>3 DEF Closed

LEMMA WalkedLeast ==
  ASSUME NEW v \in Volume, NEW D \in SUBSET Record,
         v.root \in D, Closed(v, D)
  PROVE  Walked(v) \subseteq D
BY DEF Walked

LEMMA LinksFinite ==
  ASSUME NEW v \in Volume
  PROVE  /\ Links(v) \subseteq Record \X Record
         /\ IsFiniteSet(Links(v))
<1>1. IsFiniteSet(Record \X Record)
  BY RecordAssumption, FS_Product
<1> QED
  BY <1>1, FS_Subset DEF Links

-----------------------------------------------------------------------------
(* Every step keeps the types of the variables. *)
LEMMA TypeStep == TypeOK /\ [Next]_vars => TypeOK'
<1> SUFFICES ASSUME TypeOK, [Next]_vars
             PROVE  TypeOK'
  OBVIOUS
<1> USE DEF TypeOK, MainPC, WorkerPC, walkVars, mainVars
<1>0. volume \in Volume
  BY VolumesAssumption
<1>1. CASE MainNext
  <2>1. volume.root \in Record
    BY <1>0 DEF Volume
  <2>2. CASE MainOpen \/ MainInit \/ MainDisk \/ MainNtfs \/ MainWalker
    BY <2>2 DEF MainOpen, MainInit, MainDisk, MainNtfs, SetUp, MainWalker,
                MainAt, ExitOne
  <2>3. CASE MainPool \/ MainJoin \/ MainLookup \/ MainWait
    BY <2>3 DEF MainPool, MainJoin, MainLookup, MainWait
  <2>4. CASE MainDetach \/ MainReport \/ MainClose \/ MainEnd
    BY <2>4, <2>1 DEF MainDetach, MainReport, MainClose, MainEnd
  <2> QED
    BY <1>1, <2>2, <2>3, <2>4 DEF MainNext
<1>2. ASSUME NEW w \in Worker, WorkerNext(w)
      PROVE  TypeOK'
  <2> USE DEF Goto, Advance
  <2>1. CASE InitFt(w) \/ InitDt(w) \/ ProcessExit(w) \/ TaskEnd(w)
    BY <2>1 DEF InitFt, InitDt, ProcessExit, TaskEnd
  <2>2. CASE Pop(w)
    BY <2>2 DEF Pop
  <2>3. CASE Index(w)
    BY <2>3, <1>0 DEF Index, Volume
  <2>4. CASE CountFolder(w)
    BY <2>4 DEF CountFolder
  <2>5. ASSUME NEW e \in Record, EntryNext(w, e)
        PROVE  TypeOK'
    <3>1. CASE SkipEntry(w, e)
      BY <3>1 DEF SkipEntry
    <3>2. CASE ThrowEntry(w, e)
      BY <3>2 DEF ThrowEntry
    <3>3. CASE CountFile(w, e)
      BY <3>3 DEF CountFile
    <3>4. CASE DetachEntry(w, e)
      BY <3>4 DEF DetachEntry
    <3> QED
      BY <2>5, <3>1, <3>2, <3>3, <3>4 DEF EntryNext
  <2> QED
    BY <1>2, <2>1, <2>2, <2>3, <2>4, <2>5 DEF WorkerNext
<1>3. CASE Stopped \/ UNCHANGED vars
  BY <1>3 DEF Stopped, vars
<1> QED
  BY <1>1, <1>2, <1>3 DEF Next

(* The type invariant of BackupWalk, for any volume and number of threads. *)
THEOREM TypeCorrect == Spec => []TypeOK
<1>1. Init => TypeOK
  BY VolumesAssumption DEF Init, TypeOK, MainPC, WorkerPC, Volume
<1> QED
  BY <1>1, TypeStep, PTL DEF Spec

-----------------------------------------------------------------------------
(* The part of Inductive that is about the directories and their links. *)
WalkInv == OneTaskPerDirectory /\ LoopInv /\ DetachedInv /\ HandledInv

(* A step that moves no worker into, out of or inside a task keeps it. *)
LEMMA Frame ==
  ASSUME TypeOK, WalkInv, UNCHANGED <<volume, walkVars>>,
         \A w \in Worker : \/ wpc'[w] = wpc[w]
                           \/ ~InTask(w) /\ ~InTask(w)'
  PROVE  WalkInv'
<1>1. \A w \in Worker : /\ InTask(w)' = InTask(w)
                        /\ wpc[w] \in {"index", "entry", "count"} =>
                             wpc'[w] = wpc[w]
                        /\ wpc'[w] \in {"index", "entry", "count"} =>
                             wpc'[w] = wpc[w]
  BY DEF InTask
<1>2. OneTaskPerDirectory'
  BY <1>1 DEF WalkInv, OneTaskPerDirectory, walkVars
<1>3. LoopInv'
  BY <1>1 DEF WalkInv, LoopInv, walkVars
<1>4. \A w \in Worker : \A d, e :
        Ahead(w, d, e)' = Ahead(w, d, e) /\ Counting(w, d, e)' = Counting(w, d, e)
  BY <1>1 DEF Ahead, Counting, walkVars
<1>5. \A d, e : Passed(d, e)' = Passed(d, e)
  BY <1>4 DEF Passed, walkVars
<1>6. DetachedInv'
  BY <1>5 DEF WalkInv, DetachedInv, walkVars
<1>7. HandledInv'
  BY <1>4, <1>5 DEF WalkInv, HandledInv, walkVars
<1> QED
  BY <1>2, <1>3, <1>6, <1>7 DEF WalkInv

(* Every step keeps Protocol. *)
LEMMA ProtocolStep == TypeOK /\ Protocol /\ LoopInv /\ [Next]_vars => Protocol'
<1> SUFFICES ASSUME TypeOK, Protocol, LoopInv, [Next]_vars
             PROVE  Protocol'
  OBVIOUS
<1> USE DEF TypeOK, Protocol, Quiet, Busy, walkVars, mainVars
<1>1. CASE MainNext
  <2> USE DEF MainAt
  <2>1. CASE MainOpen \/ MainInit \/ MainDisk \/ MainNtfs \/ MainWalker
    BY <2>1 DEF MainOpen, MainInit, MainDisk, MainNtfs, SetUp, MainWalker,
                ExitOne
  <2>2. CASE MainPool
    BY <2>2 DEF MainPool
  <2>3. CASE MainLookup
    BY <2>3 DEF MainLookup
  <2>4. CASE MainDetach
    BY <2>4 DEF MainDetach
  <2>5. CASE MainWait
    BY <2>5 DEF MainWait
  <2>6. CASE MainReport
    BY <2>6 DEF MainReport
  <2>7. CASE MainJoin
    BY <2>7 DEF MainJoin
  <2>8. CASE MainClose \/ MainEnd
    BY <2>8 DEF MainClose, MainEnd
  <2> QED
    BY <1>1, <2>1, <2>2, <2>3, <2>4, <2>5, <2>6, <2>7, <2>8 DEF MainNext
<1>2. ASSUME NEW w \in Worker, WorkerNext(w)
      PROVE  Protocol'
  <2>1. PICK e \in Record :
           \/ InitFt(w) \/ InitDt(w) \/ ProcessExit(w) \/ Pop(w) \/ Index(w)
           \/ CountFolder(w) \/ TaskEnd(w) \/ EntryNext(w, e)
    <3>1. volume.root \in Record
      BY VolumesAssumption DEF Volume
    <3> QED
      BY <1>2, <3>1 DEF WorkerNext
  <2> USE DEF Goto, Advance, WorkerAt, AtEntry
  <2>2. /\ UNCHANGED <<volume, main, db, printed>>
        /\ rc' = rc \/ rc' = "err"
        /\ detached' = detached \/ (InTask(w) /\ detached \subseteq detached')
        /\ wpc[w] \notin {"none", "joined"}
        /\ Busy(w) \/ queue # {}
    <3>1. CASE InitFt(w) \/ InitDt(w) \/ ProcessExit(w) \/ Pop(w)
      BY <3>1 DEF InitFt, InitDt, ProcessExit, Pop
    <3>2. CASE Index(w) \/ CountFolder(w) \/ TaskEnd(w)
      BY <3>2 DEF Index, CountFolder, TaskEnd
    <3>3. CASE EntryNext(w, e)
      BY <3>3 DEF EntryNext, SkipEntry, ThrowEntry, CountFile, DetachEntry,
                  InTask
    <3> QED
      BY <2>1, <3>1, <3>2, <3>3
  <2>3. /\ main \in {"lookup", "detach", "wait", "join"}
        /\ rc # "ok"
        /\ InTask(w) => detached # {}
    BY <2>2 DEF LoopInv, MainPC
  <2> QED
    BY <2>2, <2>3
<1>3. CASE Stopped \/ UNCHANGED vars
  BY <1>3 DEF Stopped, vars
<1> QED
  BY <1>1, <1>2, <1>3 DEF Next

-----------------------------------------------------------------------------
(* Counting one more link adds one to exactly one of the two totals. *)
LEMMA CountOne ==
  ASSUME NEW v \in Volume, NEW S \in SUBSET Links(v), NEW l \in Links(v) \ S
  PROVE  /\ Cardinality(FileLinks(v, S)) \in Nat
         /\ Cardinality(DirLinks(v, S)) \in Nat
         /\ v.class[l[2]] = "file" =>
              /\ Cardinality(FileLinks(v, S \cup {l})) =
                   Cardinality(FileLinks(v, S)) + 1
              /\ DirLinks(v, S \cup {l}) = DirLinks(v, S)
         /\ v.class[l[2]] = "dir" =>
              /\ Cardinality(DirLinks(v, S \cup {l})) =
                   Cardinality(DirLinks(v, S)) + 1
              /\ FileLinks(v, S \cup {l}) = FileLinks(v, S)
<1>1. IsFiniteSet(FileLinks(v, S)) /\ IsFiniteSet(DirLinks(v, S))
  BY LinksFinite, FS_Subset DEF FileLinks, DirLinks
<1>2. l \notin FileLinks(v, S) /\ l \notin DirLinks(v, S)
  BY DEF FileLinks, DirLinks
<1>3. CASE v.class[l[2]] = "file"
  <2>1. FileLinks(v, S \cup {l}) = FileLinks(v, S) \cup {l}
    BY <1>3 DEF FileLinks
  <2>2. DirLinks(v, S \cup {l}) = DirLinks(v, S)
    BY <1>3 DEF DirLinks
  <2> QED
    BY <1>1, <1>2, <1>3, <2>1, <2>2, FS_AddElement, FS_CardinalityType
<1>4. CASE v.class[l[2]] = "dir"
  <2>1. DirLinks(v, S \cup {l}) = DirLinks(v, S) \cup {l}
    BY <1>4 DEF DirLinks
  <2>2. FileLinks(v, S \cup {l}) = FileLinks(v, S)
    BY <1>4 DEF FileLinks
  <2> QED
    BY <1>1, <1>2, <1>4, <2>1, <2>2, FS_AddElement, FS_CardinalityType
<1> QED
  BY <1>1, <1>3, <1>4, FS_CardinalityType

(* What the lemmas on single steps start from. *)
Before == TypeOK /\ Protocol /\ WalkInv

(* The links of volume, spelled out. *)
LEMMA LinkFacts ==
  ASSUME TypeOK
  PROVE  /\ volume \in Volume
         /\ \A d, e : <<d, e>> \in Links(volume) <=>
                      /\ d \in Walked(volume)
                      /\ e \in Visible(volume, d)
                      /\ volume.class[e] \in {"dir", "file"}
         /\ \A l \in Links(volume) : l = <<l[1], l[2]>>
         /\ \A d \in Record : /\ Visible(volume, d) \subseteq Record
                              /\ volume.index[d] \subseteq Record
<1>1. volume \in Volume
  BY VolumesAssumption DEF TypeOK
<1>2. \A d \in Record : /\ Visible(volume, d) \subseteq Record
                        /\ volume.index[d] \subseteq Record
  BY <1>1 DEF Visible, Volume
<1>3. Walked(volume) \subseteq Record
  BY <1>1, WalkedClosed
<1> QED
  BY <1>1, <1>2, <1>3 DEF Links

(* The root is handed to an empty pool. *)
LEMMA DetachRoot == Before /\ MainDetach => WalkInv'
<1> SUFFICES ASSUME Before, MainDetach
             PROVE  WalkInv'
  OBVIOUS
<1> USE DEF Before, WalkInv
<1>1. /\ detached = {} /\ queue = {} /\ handled = {}
      /\ \A w \in Worker : ~InTask(w)
  <2>1. detached = {}
    BY DEF Protocol, MainDetach, MainAt
  <2>2. queue = {} /\ \A w \in Worker : ~InTask(w)
    BY <2>1 DEF DetachedInv, LoopInv
  <2>3. handled = {}
    BY <2>1 DEF HandledInv, Passed
  <2> QED
    BY <2>1, <2>2, <2>3
<1>2. /\ queue' = {volume.root} /\ detached' = {volume.root}
      /\ UNCHANGED <<volume, wpc, dir, todo, cur, files, folders, handled>>
  BY <1>1 DEF MainDetach
<1>3. \A d, e : ~Passed(d, e)'
  BY <1>2 DEF Passed
<1>4. OneTaskPerDirectory' /\ LoopInv'
  BY <1>1, <1>2 DEF OneTaskPerDirectory, LoopInv, InTask
<1>5. DetachedInv'
  <2>1. volume \in Volumes
    BY DEF TypeOK
  <2> QED
    BY <1>2, <1>3, <2>1, VolumesAssumption, WalkedClosed
       DEF DetachedInv, TreeShaped
<1>6. HandledInv'
  BY <1>1, <1>2, <1>3 DEF HandledInv
<1> QED
  BY <1>4, <1>5, <1>6

(* A step that neither passes nor counts a link keeps what is known of them. *)
LEMMA Still ==
  ASSUME Before,
         UNCHANGED <<volume, detached, handled, files, folders>>,
         queue' \subseteq queue,
         \A d, e : <<d, e>> \in Links(volume) =>
           /\ Passed(d, e)' = Passed(d, e)
           /\ \A w \in Worker : Counting(w, d, e)' = Counting(w, d, e)
  PROVE  DetachedInv' /\ HandledInv'
<1> USE DEF Before, WalkInv
<1>1. \A d \in Walked(volume) : \A e \in Subdirs(volume, d) :
        Passed(d, e)' = Passed(d, e)
  BY LinkFacts DEF Subdirs
<1>2. DetachedInv'
  BY <1>1 DEF DetachedInv
<1>3. \A l \in Links(volume) :
        /\ Passed(l[1], l[2])' = Passed(l[1], l[2])
        /\ \A w \in Worker : Counting(w, l[1], l[2])' = Counting(w, l[1], l[2])
  BY LinkFacts
<1>4. HandledInv'
  BY <1>3 DEF HandledInv
<1> QED
  BY <1>2, <1>4

LEMMA PopStep == ASSUME NEW w \in Worker, Before, Pop(w) PROVE WalkInv'
<1> USE DEF Before, WalkInv
<1>1. PICK d0 \in queue :
        /\ queue' = queue \ {d0} /\ dir' = [dir EXCEPT ![w] = d0]
        /\ wpc' = [wpc EXCEPT ![w] = "index"] /\ wpc[w] = "idle"
        /\ UNCHANGED <<volume, todo, cur, files, folders, detached, handled>>
  BY DEF Pop, WorkerAt, Goto
<1>2. /\ d0 \in detached /\ ~InTask(w)
      /\ wpc'[w] = "index" /\ dir'[w] = d0
      /\ \A x \in Worker \ {w} : wpc'[x] = wpc[x] /\ dir'[x] = dir[x]
  BY <1>1 DEF DetachedInv, InTask, TypeOK
<1>3. OneTaskPerDirectory'
  BY <1>1, <1>2 DEF OneTaskPerDirectory, InTask
<1>4. LoopInv'
  BY <1>1, <1>2 DEF LoopInv, InTask
<1>5. \A d, e : Passed(d, e)' = Passed(d, e)
  <2> TAKE d, e
  <2>1. CASE d = d0
    BY <1>1, <1>2, <2>1 DEF Passed, Ahead, InTask
  <2>2. CASE d # d0
    BY <1>1, <1>2, <2>2 DEF Passed, Ahead, InTask
  <2> QED
    BY <2>1, <2>2
<1>6. \A d, e : \A x \in Worker : Counting(x, d, e)' = Counting(x, d, e)
  BY <1>1, <1>2 DEF Counting
<1> QED
  BY <1>1, <1>3, <1>4, <1>5, <1>6, Still

LEMMA IndexStep == ASSUME NEW w \in Worker, Before, Index(w) PROVE WalkInv'
<1> USE DEF Before, WalkInv
<1>1. /\ wpc[w] = "index" /\ InTask(w) /\ dir[w] \in Record
      /\ UNCHANGED <<volume, dir, cur, queue, files, folders, detached, handled>>
      /\ \/ wpc' = wpc /\ todo' = todo
         \/ /\ \A x \in Worker \ {w} : wpc'[x] = wpc[x] /\ todo'[x] = todo[x]
            /\ \/ /\ dir[w] \in volume.noindex
                  /\ wpc'[w] = "idle" /\ todo'[w] = todo[w]
               \/ /\ dir[w] \notin volume.noindex
                  /\ wpc'[w] = "entry" /\ todo'[w] = volume.index[dir[w]]
  BY DEF Index, WorkerAt, Goto, InTask, TypeOK
<1>2. CASE wpc' = wpc /\ todo' = todo
  <2>1. UNCHANGED <<volume, walkVars>>
    BY <1>1, <1>2 DEF walkVars
  <2>2. \A x \in Worker : wpc'[x] = wpc[x]
    BY <1>2
  <2> QED
    BY <2>1, <2>2, Frame
<1>3. CASE /\ \A x \in Worker \ {w} : wpc'[x] = wpc[x] /\ todo'[x] = todo[x]
           /\ \/ /\ dir[w] \in volume.noindex
                 /\ wpc'[w] = "idle" /\ todo'[w] = todo[w]
              \/ /\ dir[w] \notin volume.noindex
                 /\ wpc'[w] = "entry" /\ todo'[w] = volume.index[dir[w]]
  <2>1. OneTaskPerDirectory'
    BY <1>1, <1>3 DEF OneTaskPerDirectory, InTask
  <2>2. LoopInv'
    BY <1>1, <1>3 DEF LoopInv, InTask
  <2>3. ASSUME NEW d, NEW e, <<d, e>> \in Links(volume)
        PROVE  Passed(d, e)' = Passed(d, e)
    <3>1. e \in Visible(volume, d)
      BY <2>3, LinkFacts
    <3>2. \A x \in Worker : Ahead(x, d, e)' = Ahead(x, d, e)
      BY <1>1, <1>3, <3>1 DEF Ahead, InTask, Visible
    <3> QED
      BY <1>1, <1>3, <3>2 DEF Passed
  <2>4. \A d, e : \A x \in Worker : Counting(x, d, e)' = Counting(x, d, e)
    BY <1>1, <1>3 DEF Counting
  <2> QED
    BY <1>1, <1>3, <2>1, <2>2, <2>3, <2>4, Still
<1> QED
  BY <1>1, <1>2, <1>3

LEMMA TaskEndStep == ASSUME NEW w \in Worker, Before, TaskEnd(w) PROVE WalkInv'
<1> USE DEF Before, WalkInv
<1>1. /\ wpc[w] = "entry" /\ todo[w] = {} /\ wpc'[w] = "idle"
      /\ \A x \in Worker \ {w} : wpc'[x] = wpc[x]
      /\ UNCHANGED <<volume, walkVars>>
  BY DEF TaskEnd, WorkerAt, Goto, TypeOK
<1> USE DEF walkVars
<1>2. OneTaskPerDirectory'
  BY <1>1 DEF OneTaskPerDirectory, InTask
<1>3. LoopInv'
  BY <1>1 DEF LoopInv, InTask
<1>4. \A d, e : \A x \in Worker : /\ Ahead(x, d, e)' = Ahead(x, d, e)
                                  /\ Counting(x, d, e)' = Counting(x, d, e)
  BY <1>1 DEF Ahead, Counting, InTask
<1>5. \A d, e : Passed(d, e)' = Passed(d, e)
  BY <1>1, <1>4 DEF Passed
<1> QED
  BY <1>1, <1>2, <1>3, <1>4, <1>5, Still

(* What the loop's invariant says of the entry worker w is at. *)
LEMMA EntryFacts ==
  ASSUME NEW w \in Worker, NEW e \in Record, Before, AtEntry(w, e)
  PROVE  /\ wpc[w] = "entry" /\ InTask(w)
         /\ e \in todo[w] /\ \A f \in todo[w] : f # e => e < f
         /\ dir[w] \in detached \ queue /\ dir[w] \in Walked(volume)
         /\ dir[w] \in Record
         /\ dir[w] \notin volume.noindex
         /\ e \in volume.index[dir[w]]
         /\ volume.class[e] # "nameless" => e \in Visible(volume, dir[w])
         /\ ~Passed(dir[w], e)
         /\ \A x \in Worker \ {w} : InTask(x) => dir[x] # dir[w]
<1> USE DEF Before, WalkInv
<1>1. /\ wpc[w] = "entry" /\ InTask(w) /\ e \in todo[w]
      /\ \A f \in todo[w] : e <= f
      /\ dir[w] \in Record /\ todo[w] \subseteq Record
  BY DEF AtEntry, WorkerAt, InTask, TypeOK
<1>2. ASSUME NEW f \in todo[w], f # e
      PROVE  e < f
  <2>0. e \in Record /\ f \in Record
    BY <1>1
  <2>1. e \in Nat /\ f \in Nat
    BY <2>0, RecordAssumption
  <2> QED
    BY <1>1, <1>2, <2>1
<1>3. /\ dir[w] \notin queue
      /\ \A x \in Worker \ {w} : InTask(x) => dir[x] # dir[w]
  BY <1>1 DEF OneTaskPerDirectory
<1>4. dir[w] \in detached /\ dir[w] \in Walked(volume)
  BY <1>1 DEF LoopInv, DetachedInv
<1>5. /\ dir[w] \notin volume.noindex
      /\ e \in volume.index[dir[w]]
      /\ \A f \in volume.index[dir[w]] \ todo[w] : volume.class[f] # "nameless"
  BY <1>1 DEF LoopInv
<1>6. ASSUME volume.class[e] # "nameless"
      PROVE  e \in Visible(volume, dir[w])
  BY <1>2, <1>5, <1>6 DEF Visible
<1>7. ~Passed(dir[w], e)
  BY <1>1 DEF Passed, Ahead
<1> QED
  BY <1>1, <1>2, <1>3, <1>4, <1>5, <1>6, <1>7

(* Worker w moves past entry e of its directory: only that entry is passed. *)
LEMMA AdvanceAhead ==
  ASSUME NEW w \in Worker, NEW e \in Record, TypeOK,
         wpc[w] = "entry", wpc'[w] \in {"entry", "count"},
         \A x \in Worker \ {w} : wpc'[x] = wpc[x],
         dir' = dir, Advance(w, e)
  PROVE  /\ \A x \in Worker : InTask(x)' = InTask(x)
         /\ \A x \in Worker : \A d, f :
              Ahead(x, d, f)' <=> Ahead(x, d, f) /\ ~(x = w /\ f = e)
<1>1. /\ todo'[w] = todo[w] \ {e}
      /\ \A x \in Worker \ {w} : todo'[x] = todo[x]
  BY DEF Advance, TypeOK
<1>2. \A x \in Worker : InTask(x)' = InTask(x)
  BY DEF InTask
<1>3. \A x \in Worker : \A d, f :
        Ahead(x, d, f)' <=> Ahead(x, d, f) /\ ~(x = w /\ f = e)
  BY <1>1, <1>2 DEF Ahead
<1> QED
  BY <1>2, <1>3

LEMMA AdvanceLoop ==
  ASSUME NEW w \in Worker, NEW e \in Record, Before, AtEntry(w, e),
         Advance(w, e), volume.class[e] # "nameless",
         UNCHANGED <<volume, dir>>, detached \subseteq detached',
         \A x \in Worker \ {w} : wpc'[x] = wpc[x] /\ cur'[x] = cur[x],
         \/ wpc'[w] = "entry"
         \/ wpc'[w] = "count" /\ cur'[w] = e /\ volume.class[e] = "dir"
  PROVE  LoopInv'
<1> USE DEF Before, WalkInv
<1>1. /\ todo'[w] = todo[w] \ {e}
      /\ \A x \in Worker \ {w} : todo'[x] = todo[x]
  BY DEF Advance, TypeOK
<1>2. \A x \in Worker : InTask(x)' => dir'[x] \in detached'
  BY EntryFacts DEF LoopInv, InTask
<1>3. ASSUME NEW x \in Worker \ {w}, wpc'[x] \in {"entry", "count"}
      PROVE  /\ dir'[x] \notin volume'.noindex
             /\ todo'[x] \subseteq volume'.index[dir'[x]]
             /\ \A g \in volume'.index[dir'[x]] \ todo'[x] :
                  /\ volume'.class[g] # "nameless"
                  /\ \A f \in todo'[x] : g < f
             /\ wpc'[x] = "count" =>
                  cur'[x] \in Subdirs(volume', dir'[x]) \ todo'[x]
  BY <1>1, <1>3 DEF LoopInv
<1>4. /\ dir'[w] \notin volume'.noindex
      /\ todo'[w] \subseteq volume'.index[dir'[w]]
      /\ \A g \in volume'.index[dir'[w]] \ todo'[w] :
           /\ volume'.class[g] # "nameless"
           /\ \A f \in todo'[w] : g < f
  BY <1>1, EntryFacts DEF LoopInv
<1>5. wpc'[w] = "count" => cur'[w] \in Subdirs(volume', dir'[w]) \ todo'[w]
  BY <1>1, EntryFacts DEF Subdirs
<1> QED
  BY <1>2, <1>3, <1>4, <1>5 DEF LoopInv

LEMMA SkipStep ==
  ASSUME NEW w \in Worker, NEW e \in Record, Before, SkipEntry(w, e)
  PROVE  WalkInv'
<1> USE DEF Before, WalkInv
<1>1. /\ AtEntry(w, e) /\ Advance(w, e)
      /\ volume.class[e] \in {"unreadable", "system"}
      /\ UNCHANGED <<volume, wpc, dir, cur, queue, files, folders>>
      /\ UNCHANGED <<detached, handled>>
  BY DEF SkipEntry
<1>2. wpc'[w] = "entry" /\ volume.class[e] # "nameless"
  BY <1>1 DEF AtEntry, WorkerAt
<1>3. LoopInv'
  BY <1>1, <1>2, AdvanceLoop
<1>4. OneTaskPerDirectory'
  BY <1>1 DEF OneTaskPerDirectory, InTask
<1>5. ASSUME NEW d, NEW f, <<d, f>> \in Links(volume)
      PROVE  Passed(d, f)' = Passed(d, f)
  <2>1. f # e
    BY <1>1, <1>5, LinkFacts
  <2>2. \A x \in Worker : \A g, h :
          Ahead(x, g, h)' <=> Ahead(x, g, h) /\ ~(x = w /\ h = e)
    BY <1>1, <1>2, EntryFacts, AdvanceAhead
  <2>3. \A x \in Worker : Ahead(x, d, f)' <=> Ahead(x, d, f)
    BY <2>1, <2>2
  <2> QED
    BY <1>1, <2>3 DEF Passed
<1>6. \A d, f : \A x \in Worker : Counting(x, d, f)' = Counting(x, d, f)
  BY <1>1 DEF Counting
<1> QED
  BY <1>1, <1>3, <1>4, <1>5, <1>6, Still

LEMMA ThrowStep ==
  ASSUME NEW w \in Worker, NEW e \in Record, Before, ThrowEntry(w, e)
  PROVE  WalkInv'
<1> USE DEF Before, WalkInv
<1>1. /\ AtEntry(w, e) /\ volume.class[e] = "nameless"
      /\ UNCHANGED <<volume, dir, cur, queue, files, folders>>
      /\ UNCHANGED <<detached, handled>>
      /\ \/ wpc' = wpc /\ todo' = todo
         \/ /\ wpc'[w] = "idle" /\ todo'[w] = {}
            /\ \A x \in Worker \ {w} : wpc'[x] = wpc[x] /\ todo'[x] = todo[x]
  BY DEF ThrowEntry, Goto, TypeOK
<1>2. CASE wpc' = wpc /\ todo' = todo
  <2>1. UNCHANGED <<volume, walkVars>>
    BY <1>1, <1>2 DEF walkVars
  <2>2. \A x \in Worker : wpc'[x] = wpc[x]
    BY <1>2
  <2> QED
    BY <2>1, <2>2, Frame
<1>3. CASE /\ wpc'[w] = "idle" /\ todo'[w] = {}
           /\ \A x \in Worker \ {w} : wpc'[x] = wpc[x] /\ todo'[x] = todo[x]
  <2>1. OneTaskPerDirectory'
    BY <1>1, <1>3 DEF OneTaskPerDirectory, InTask
  <2>2. LoopInv'
    BY <1>1, <1>3 DEF LoopInv, InTask
  <2>3. ASSUME NEW d, NEW f, <<d, f>> \in Links(volume)
        PROVE  Passed(d, f)' = Passed(d, f)
    <3>1. Ahead(w, d, f) => f \in todo[w] /\ d = dir[w]
      BY <1>1, EntryFacts DEF Ahead
    <3>2. f \in todo[w] /\ d = dir[w] => FALSE
      <4> SUFFICES ASSUME f \in todo[w], d = dir[w]
                   PROVE  FALSE
        OBVIOUS
      <4>1. f \in Visible(volume, dir[w]) /\ volume.class[f] # "nameless"
        BY <2>3, LinkFacts
      <4>2. f < e /\ f # e
        BY <1>1, <4>1, EntryFacts DEF Visible
      <4>3. e < f /\ e \in Nat /\ f \in Nat
        BY <1>1, <4>2, EntryFacts, RecordAssumption
           DEF TypeOK, RecordAssumption
      <4> QED
        BY <4>2, <4>3
    <3>3. \A x \in Worker : Ahead(x, d, f)' = Ahead(x, d, f)
      BY <1>1, <1>3, <3>1, <3>2 DEF Ahead, InTask
    <3> QED
      BY <1>1, <3>3 DEF Passed
  <2>4. \A d, f : \A x \in Worker : Counting(x, d, f)' = Counting(x, d, f)
    BY <1>1, <1>3, EntryFacts DEF Counting
  <2> QED
    BY <1>1, <2>1, <2>2, <2>3, <2>4, Still
<1> QED
  BY <1>1, <1>2, <1>3

LEMMA CountFileStep ==
  ASSUME NEW w \in Worker, NEW e \in Record, Before, CountFile(w, e)
  PROVE  WalkInv'
<1> USE DEF Before, WalkInv
<1> DEFINE l == <<dir[w], e>>
<1>1. /\ AtEntry(w, e) /\ Advance(w, e) /\ volume.class[e] = "file"
      /\ files' = files + 1 /\ handled' = handled \cup {l}
      /\ UNCHANGED <<volume, wpc, dir, cur, queue, folders, detached>>
  BY DEF CountFile
<1>2. wpc'[w] = "entry" /\ wpc[w] = "entry" /\ dir[w] \in detached \ queue
  BY <1>1, EntryFacts
<1>3. l \in Links(volume) /\ ~Passed(dir[w], e)
  BY <1>1, EntryFacts, LinkFacts
<1>4. LoopInv' /\ OneTaskPerDirectory'
  BY <1>1, <1>2, AdvanceLoop DEF OneTaskPerDirectory, InTask
<1>5. \A x \in Worker : \A d, f :
        Ahead(x, d, f)' <=> Ahead(x, d, f) /\ ~(x = w /\ f = e)
  BY <1>1, <1>2, AdvanceAhead
<1>6. \A d, f : <<d, f>> # l => (Passed(d, f)' <=> Passed(d, f))
  BY <1>1, <1>5 DEF Passed, Ahead
<1>7. Passed(dir[w], e)'
  <2>1. \A x \in Worker : ~Ahead(x, dir[w], e)'
    BY <1>1, <1>5, EntryFacts DEF Ahead
  <2> QED
    BY <1>1, <1>2, <2>1 DEF Passed
<1>8. \A x \in Worker : \A d, f : /\ Counting(x, d, f)' <=> Counting(x, d, f)
                                  /\ ~Counting(x, dir[w], e)
  BY <1>1, EntryFacts, LinkFacts DEF Counting, LoopInv, Subdirs
<1>9. DetachedInv'
  <2>1. \A d \in Walked(volume) : \A f \in Subdirs(volume, d) :
          <<d, f>> # l
    BY <1>1 DEF Subdirs
  <2> QED
    BY <1>1, <1>6, <2>1 DEF DetachedInv
<1>10. HandledInv'
  <2>1. l \notin handled
    BY <1>3 DEF HandledInv
  <2>2. \A k \in Links(volume) :
          k \in handled' <=> /\ Passed(k[1], k[2])'
                             /\ \A x \in Worker : ~Counting(x, k[1], k[2])'
    <3> TAKE k \in Links(volume)
    <3>1. CASE k = l
      BY <1>1, <1>7, <1>8, <3>1
    <3>2. CASE k # l
      <4>1. <<k[1], k[2]>> # l
        BY <3>2, LinkFacts
      <4> QED
        BY <1>1, <1>6, <1>8, <3>2, <4>1 DEF HandledInv
    <3> QED
      BY <3>1, <3>2
  <2>3. handled \in SUBSET Links(volume) /\ l \in Links(volume) \ handled
    BY <1>3, <2>1 DEF HandledInv
  <2>4. /\ Cardinality(FileLinks(volume, handled')) =
             Cardinality(FileLinks(volume, handled)) + 1
        /\ DirLinks(volume, handled') = DirLinks(volume, handled)
    BY <1>1, <2>3, LinkFacts, CountOne
  <2> QED
    BY <1>1, <2>2, <2>3, <2>4 DEF HandledInv
<1> QED
  BY <1>4, <1>9, <1>10

LEMMA DetachEntryStep ==
  ASSUME NEW w \in Worker, NEW e \in Record, Before, DetachEntry(w, e)
  PROVE  WalkInv'
<1> USE DEF Before, WalkInv
<1> DEFINE l == <<dir[w], e>>
<1>1. /\ AtEntry(w, e) /\ Advance(w, e) /\ volume.class[e] = "dir"
      /\ queue' = queue \cup {e} /\ detached' = detached \cup {e}
      /\ UNCHANGED <<volume, dir, files, folders, handled>>
      /\ wpc'[w] = "count" /\ cur'[w] = e
      /\ \A x \in Worker \ {w} : wpc'[x] = wpc[x] /\ cur'[x] = cur[x]
  BY DEF DetachEntry, Goto, TypeOK
<1>2. /\ wpc[w] = "entry" /\ InTask(w) /\ dir[w] \in detached \ queue
      /\ dir[w] \in Walked(volume) /\ e \in Subdirs(volume, dir[w])
      /\ ~Passed(dir[w], e)
  BY <1>1, EntryFacts DEF Subdirs
<1>3. e \notin detached /\ e \notin queue /\ dir[w] # e
  BY <1>2 DEF DetachedInv
<1>4. e \in Walked(volume)
  BY <1>2, LinkFacts, WalkedClosed DEF Closed
<1>5. \A x \in Worker : InTask(x) => dir[x] # e
  BY <1>3 DEF LoopInv
<1>6. LoopInv'
  BY <1>1, AdvanceLoop
<1>7. \A x \in Worker : InTask(x)' <=> InTask(x)
  BY <1>1, <1>2 DEF InTask
<1>8. OneTaskPerDirectory'
  BY <1>1, <1>5, <1>7 DEF OneTaskPerDirectory
<1>9. \A x \in Worker : \A d, f :
        Ahead(x, d, f)' <=> Ahead(x, d, f) /\ ~(x = w /\ f = e)
  BY <1>1, <1>2, AdvanceAhead
<1>10. \A d, f : <<d, f>> # l => (Passed(d, f)' <=> Passed(d, f))
  BY <1>1, <1>3, <1>9 DEF Passed, Ahead
<1>11. Passed(dir[w], e)'
  <2>1. \A x \in Worker : ~Ahead(x, dir[w], e)'
    BY <1>1, <1>9, EntryFacts DEF Ahead
  <2> QED
    BY <1>1, <1>2, <1>3, <2>1 DEF Passed
<1>12. \A d, f : <<d, f>> # l =>
         \A x \in Worker : Counting(x, d, f)' <=> Counting(x, d, f)
  BY <1>1, <1>2 DEF Counting
<1>13. DetachedInv'
  <2>1. ASSUME NEW d \in Walked(volume), NEW f \in Subdirs(volume, d)
        PROVE  f \in detached' <=> Passed(d, f)'
    <3>1. CASE f = e
      <4>1. d = dir[w]
        BY <1>2, <2>1, <3>1, VolumesAssumption DEF TreeShaped, TypeOK
      <4> QED
        BY <1>1, <1>11, <3>1, <4>1
    <3>2. CASE f # e
      BY <1>1, <1>10, <2>1, <3>2 DEF DetachedInv
    <3> QED
      BY <3>1, <3>2
  <2> QED
    BY <1>1, <1>4, <2>1 DEF DetachedInv
<1>14. HandledInv'
  <2>1. ASSUME NEW k \in Links(volume)
        PROVE  k \in handled' <=> /\ Passed(k[1], k[2])'
                                  /\ \A x \in Worker : ~Counting(x, k[1], k[2])'
    <3>1. CASE k = l
      <4>1. Counting(w, dir[w], e)'
        BY <1>1 DEF Counting
      <4>2. k \notin handled
        BY <1>2, <3>1 DEF HandledInv
      <4> QED
        BY <1>1, <3>1, <4>1, <4>2
    <3>2. CASE k # l
      <4>1. <<k[1], k[2]>> # l
        BY <3>2, LinkFacts
      <4> QED
        BY <1>1, <1>10, <1>12, <4>1 DEF HandledInv
    <3> QED
      BY <3>1, <3>2
  <2> QED
    BY <1>1, <2>1 DEF HandledInv
<1> QED
  BY <1>6, <1>8, <1>13, <1>14

LEMMA CountFolderStep ==
  ASSUME NEW w \in Worker, Before, CountFolder(w)
  PROVE  WalkInv'
<1> USE DEF Before, WalkInv
<1> DEFINE l == <<dir[w], cur[w]>>
<1>1. /\ wpc[w] = "count" /\ InTask(w) /\ wpc'[w] = "entry"
      /\ folders' = folders + 1 /\ handled' = handled \cup {l}
      /\ UNCHANGED <<volume, dir, todo, cur, queue, files, detached>>
      /\ \A x \in Worker \ {w} : wpc'[x] = wpc[x]
  BY DEF CountFolder, WorkerAt, Goto, InTask, TypeOK
<1>2. /\ cur[w] \in Subdirs(volume, dir[w]) \ todo[w]
      /\ dir[w] \in detached \ queue /\ dir[w] \in Walked(volume)
      /\ \A x \in Worker \ {w} : InTask(x) => dir[x] # dir[w]
  BY <1>1 DEF LoopInv, OneTaskPerDirectory, DetachedInv
<1>3. /\ l \in Links(volume) /\ volume.class[cur[w]] = "dir"
      /\ Counting(w, dir[w], cur[w])
  BY <1>1, <1>2, LinkFacts DEF Subdirs, Counting
<1>4. LoopInv' /\ OneTaskPerDirectory'
  BY <1>1 DEF LoopInv, OneTaskPerDirectory, InTask
<1>5. \A x \in Worker : \A d, f : Ahead(x, d, f)' <=> Ahead(x, d, f)
  BY <1>1 DEF Ahead, InTask
<1>6. \A d, f : Passed(d, f)' <=> Passed(d, f)
  BY <1>1, <1>5 DEF Passed
<1>7. Passed(dir[w], cur[w])
  BY <1>1, <1>2 DEF Passed, Ahead
<1>8. \A x \in Worker : ~Counting(x, dir[w], cur[w])'
  BY <1>1, <1>2 DEF Counting, InTask
<1>9. \A d, f : <<d, f>> # l =>
        \A x \in Worker : Counting(x, d, f)' <=> Counting(x, d, f)
  BY <1>1 DEF Counting
<1>10. DetachedInv'
  BY <1>1, <1>6 DEF DetachedInv
<1>11. HandledInv'
  <2>1. handled \in SUBSET Links(volume) /\ l \in Links(volume) \ handled
    BY <1>3 DEF HandledInv
  <2>2. ASSUME NEW k \in Links(volume)
        PROVE  k \in handled' <=> /\ Passed(k[1], k[2])'
                                  /\ \A x \in Worker : ~Counting(x, k[1], k[2])'
    <3>1. CASE k = l
      BY <1>1, <1>6, <1>7, <1>8, <3>1
    <3>2. CASE k # l
      <4>1. <<k[1], k[2]>> # l
        BY <3>2, LinkFacts
      <4> QED
        BY <1>1, <1>6, <1>9, <3>2, <4>1 DEF HandledInv
    <3> QED
      BY <3>1, <3>2
  <2>3. /\ Cardinality(DirLinks(volume, handled')) =
             Cardinality(DirLinks(volume, handled)) + 1
        /\ FileLinks(volume, handled') = FileLinks(volume, handled)
    <3>1. volume \in Volume /\ volume.class[l[2]] = "dir"
      BY <1>3, LinkFacts
    <3> HIDE DEF l
    <3> QED
      BY <1>1, <2>1, <3>1, CountOne
  <2> QED
    BY <1>1, <2>1, <2>2, <2>3 DEF HandledInv
<1> QED
  BY <1>4, <1>10, <1>11

-----------------------------------------------------------------------------
(* The steps that are not about the walk. *)
LEMMA OtherStep ==
  ASSUME Before,
         \/ MainOpen \/ MainInit \/ MainDisk \/ MainNtfs \/ MainWalker
         \/ MainPool \/ MainLookup \/ MainWait \/ MainReport \/ MainJoin
         \/ MainClose \/ MainEnd \/ Stopped \/ UNCHANGED vars
         \/ \E w \in Worker : InitFt(w) \/ InitDt(w) \/ ProcessExit(w)
  PROVE  WalkInv'
<1> USE DEF Before, Goto, WorkerAt, MainAt, SetUp, InTask
<1>1. UNCHANGED <<volume, walkVars>>
  BY DEF MainOpen, MainInit, MainDisk, MainNtfs, MainWalker, MainPool,
         MainLookup, MainWait, MainReport, MainJoin, MainClose, MainEnd,
         Stopped, vars, InitFt, InitDt, ProcessExit
<1>2. ASSUME NEW x \in Worker
      PROVE  wpc'[x] = wpc[x] \/ (~InTask(x) /\ ~InTask(x)')
  <2>1. CASE MainPool \/ MainJoin
    BY <2>1 DEF MainPool, MainJoin, Quiet, Busy, Protocol
  <2>2. CASE \E w \in Worker : InitFt(w) \/ InitDt(w) \/ ProcessExit(w)
    BY <2>2 DEF InitFt, InitDt, ProcessExit, TypeOK
  <2>3. CASE wpc' = wpc
    BY <2>3
  <2> QED
    BY <2>1, <2>2, <2>3
       DEF MainOpen, MainInit, MainDisk, MainNtfs, MainWalker, MainLookup,
           MainWait, MainReport, MainClose, MainEnd, Stopped, vars
<1> QED
  BY <1>1, <1>2, Frame

LEMMA InductiveInit == Init => TypeOK /\ Inductive
<1> SUFFICES ASSUME Init
             PROVE  TypeOK /\ Inductive
  OBVIOUS
<1>1. TypeOK
  BY VolumesAssumption DEF Init, TypeOK, MainPC, WorkerPC, Volume
<1>2. \A w \in Worker : wpc[w] = "none"
  BY DEF Init
<1>3. Protocol /\ OneTaskPerDirectory /\ LoopInv
  BY <1>2 DEF Init, Protocol, OneTaskPerDirectory, LoopInv, InTask
<1>4. DetachedInv
  BY DEF Init, DetachedInv, Passed
<1>5. FileLinks(volume, handled) = {} /\ DirLinks(volume, handled) = {}
  BY DEF Init, FileLinks, DirLinks
<1>6. HandledInv
  BY <1>5, FS_EmptySet DEF Init, HandledInv, Passed
<1> QED
  BY <1>1, <1>3, <1>4, <1>6 DEF Inductive

LEMMA InductiveStep == TypeOK /\ Inductive /\ [Next]_vars => Inductive'
<1> SUFFICES ASSUME TypeOK, Inductive, [Next]_vars
             PROVE  Inductive'
  OBVIOUS
<1>1. Before
  BY DEF Before, WalkInv, Inductive
<1>2. Protocol'
  BY ProtocolStep DEF Inductive
<1>3. WalkInv'
  <2>1. CASE MainDetach
    BY <1>1, <2>1, DetachRoot
  <2>2. ASSUME NEW w \in Worker,
               Pop(w) \/ Index(w) \/ CountFolder(w) \/ TaskEnd(w)
        PROVE  WalkInv'
    BY <1>1, <2>2, PopStep, IndexStep, CountFolderStep, TaskEndStep
  <2>3. ASSUME NEW w \in Worker, NEW e \in Record, EntryNext(w, e)
        PROVE  WalkInv'
    BY <1>1, <2>3, SkipStep, ThrowStep, CountFileStep, DetachEntryStep
       DEF EntryNext
  <2> QED
    BY <1>1, <2>1, <2>2, <2>3, OtherStep DEF Next, MainNext, WorkerNext
<1> QED
  BY <1>2, <1>3 DEF Inductive, WalkInv

(* What a directory task is at, what has been handed out and what has been *)
(* counted always agree, for any number of threads and any interleaving.   *)
THEOREM InductiveCorrect == Spec => []Inductive
<1>1. TypeOK /\ Inductive /\ [Next]_vars => (TypeOK /\ Inductive)'
  BY TypeStep, InductiveStep
<1> QED
  BY <1>1, InductiveInit, PTL DEF Spec

(* When the pool is quiet, what it was given is all a sequential walk visits. *)
LEMMA QuietComplete ==
  ASSUME TypeOK, Inductive, Quiet, volume.root \in detached
  PROVE  handled = Links(volume)
<1>1. volume \in Volume /\ detached \subseteq Record
  BY LinkFacts DEF TypeOK
<1>2. \A w \in Worker : ~InTask(w) /\ wpc[w] # "count"
  BY DEF Quiet, Busy, InTask
<1>3. \A d, e : Passed(d, e) <=> d \in detached
  BY <1>2 DEF Passed, Ahead, Quiet
<1>4. Closed(volume, detached)
  BY <1>3 DEF Closed, Inductive, DetachedInv
<1>5. Walked(volume) \subseteq detached
  BY <1>1, <1>4, WalkedLeast
<1>6. \A l \in Links(volume) : l \in handled
  <2>1. \A l \in Links(volume) : l[1] \in detached
    BY <1>5, LinkFacts
  <2> QED
    BY <1>2, <1>3, <2>1 DEF Inductive, HandledInv, Counting
<1> QED
  BY <1>6 DEF Inductive, HandledInv

(* main() prints its totals, and returns 0, only when no task is queued or  *)
(* running and every link a sequential walk would count has been counted.   *)
THEOREM WaitComplete == Spec => []WaitIsComplete
<1>1. TypeOK /\ Inductive => WaitIsComplete
  BY QuietComplete DEF WaitIsComplete, Inductive, Protocol
<1> QED
  BY <1>1, TypeCorrect, InductiveCorrect, PTL

(* The totals main() prints are those of a sequential walk. *)
THEOREM ReportExact == Spec => []ReportIsExact
<1>1. TypeOK /\ Inductive => ReportIsExact
  <2> SUFFICES ASSUME TypeOK, Inductive, rc = "ok"
               PROVE  printed = <<Cardinality(FileLinks(volume, Links(volume))),
                                  Cardinality(DirLinks(volume, Links(volume)))>>
    BY DEF ReportIsExact
  <2>1. handled = Links(volume) /\ printed = <<files, folders>>
    BY QuietComplete DEF Inductive, Protocol
  <2> QED
    BY <2>1 DEF Inductive, HandledInv
<1> QED
  BY <1>1, TypeCorrect, InductiveCorrect, PTL

(* No directory is walked by two workers, or walked while it is queued. *)
THEOREM OneTask == Spec => []OneTaskPerDirectory
BY InductiveCorrect, PTL DEF Inductive

(* No worker's initialiser uses the container before it is opened or after *)
(* main() has destroyed it.                                                *)
THEOREM ContainerLives == Spec => []ContainerOutlivesInit
<1>1. Inductive => ContainerOutlivesInit
  BY DEF ContainerOutlivesInit, Inductive, Protocol
<1> QED
  BY <1>1, InductiveCorrect, PTL

-----------------------------------------------------------------------------
(* DirWalk's links are those of NtfsTree. *)
LEMMA SameLinks == Abstract!Links(volume) = Links(volume)
BY DEF Abstract!Links, Abstract!Walked, Abstract!Closed, Abstract!Subdirs,
       Abstract!Visible, Links, Walked, Closed, Subdirs, Visible

(* A step that neither counts nor reports stutters, or makes the run fail. *)
LEMMA QuietStep ==
  ASSUME TypeOK, Inductive, [Next]_vars, ~MainReport,
         \A w \in Worker : ~CountFolder(w) /\ \A e \in Record : ~CountFile(w, e)
  PROVE  /\ UNCHANGED <<volume, handled, files, folders>>
         /\ phase' = phase \/ (phase = "walking" /\ phase' = "failed")
<1> USE DEF Inductive, Protocol, MainAt, WorkerAt, walkVars, mainVars, phase
<1>1. CASE MainNext
  BY <1>1 DEF MainNext, MainOpen, MainInit, MainDisk, MainNtfs, MainWalker,
     MainPool, MainLookup, MainDetach, MainWait, MainJoin, MainClose, MainEnd,
     SetUp, ExitOne
<1>2. ASSUME NEW w \in Worker, WorkerNext(w)
      PROVE  /\ UNCHANGED <<volume, handled, files, folders>>
             /\ phase' = phase \/ (phase = "walking" /\ phase' = "failed")
  <2>1. rc = "ok" => ~Busy(w)
    BY DEF Quiet
  <2>2. CASE InitFt(w) \/ InitDt(w) \/ ProcessExit(w) \/ Pop(w) \/ Index(w)
    BY <2>1, <2>2 DEF InitFt, InitDt, ProcessExit, Pop, Index, Busy
  <2>3. CASE TaskEnd(w)
    BY <2>3 DEF TaskEnd
  <2>4. ASSUME NEW e \in Record,
               SkipEntry(w, e) \/ ThrowEntry(w, e) \/ DetachEntry(w, e)
        PROVE  /\ UNCHANGED <<volume, handled, files, folders>>
               /\ phase' = phase \/ (phase = "walking" /\ phase' = "failed")
    BY <2>1, <2>4 DEF SkipEntry, ThrowEntry, DetachEntry, AtEntry, Busy
  <2> QED
    BY <1>2, <2>2, <2>3, <2>4 DEF WorkerNext, EntryNext
<1>3. CASE Stopped \/ UNCHANGED vars
  BY <1>3 DEF Stopped, vars
<1> QED
  BY <1>1, <1>2, <1>3 DEF Next

LEMMA RefinementStep ==
  TypeOK /\ Inductive /\ [Next]_vars => [Abstract!Next]_(Abstract!vars)
<1> SUFFICES ASSUME TypeOK, Inductive, [Next]_vars
             PROVE  [Abstract!Next]_(Abstract!vars)
  OBVIOUS
<1>1. ASSUME NEW w \in Worker, NEW e \in Record, CountFile(w, e)
      PROVE  Abstract!Next
  <2> DEFINE l == <<dir[w], e>>
  <2>1. /\ l \in Links(volume) \ handled /\ volume.class[l[2]] = "file"
        /\ handled' = handled \cup {l} /\ files' = files + 1
        /\ UNCHANGED <<volume, folders, rc, proc>>
    BY <1>1, EntryFacts, LinkFacts
       DEF CountFile, Before, WalkInv, Inductive, HandledInv, mainVars
  <2>2. phase = "walking" /\ phase' = phase
    BY <1>1, <2>1 DEF phase, CountFile, AtEntry, WorkerAt, Inductive,
       Protocol, Quiet, Busy
  <2>3. Abstract!CountFile(l)
    BY <2>1, <2>2 DEF Abstract!CountFile
  <2> QED
    BY <2>1, <2>3, SameLinks DEF Abstract!Next
<1>2. ASSUME NEW w \in Worker, CountFolder(w)
      PROVE  Abstract!Next
  <2> DEFINE l == <<dir[w], cur[w]>>
  <2>1. /\ l \in Links(volume) \ handled /\ volume.class[l[2]] = "dir"
        /\ handled' = handled \cup {l} /\ folders' = folders + 1
        /\ UNCHANGED <<volume, files, rc, proc>>
    <3>1. wpc[w] = "count" /\ InTask(w) /\ Counting(w, dir[w], cur[w])
      BY <1>2 DEF CountFolder, WorkerAt, InTask, Counting
    <3>2. cur[w] \in Subdirs(volume, dir[w]) /\ dir[w] \in Walked(volume)
      BY <3>1 DEF Inductive, LoopInv, DetachedInv
    <3> QED
      BY <1>2, <3>1, <3>2, LinkFacts
         DEF CountFolder, Inductive, HandledInv, Subdirs, mainVars
  <2>2. phase = "walking" /\ phase' = phase
    BY <1>2, <2>1 DEF phase, CountFolder, WorkerAt, Inductive,
       Protocol, Quiet, Busy
  <2>3. Abstract!CountFolder(l)
    BY <2>1, <2>2 DEF Abstract!CountFolder
  <2> QED
    BY <2>1, <2>3, SameLinks DEF Abstract!Next
<1>3. CASE MainReport
  <2>1. handled = Links(volume)
    BY <1>3, QuietComplete DEF MainReport, MainAt, Inductive, Protocol
  <2>2. /\ phase = "walking" /\ phase' = "reported"
        /\ UNCHANGED <<volume, handled, files, folders>>
    BY <1>3 DEF MainReport, MainAt, phase, Inductive, Protocol, walkVars
  <2> QED
    BY <2>1, <2>2, SameLinks DEF Abstract!Next, Abstract!Report
<1>4. CASE /\ ~MainReport
           /\ \A w \in Worker :
                ~CountFolder(w) /\ \A e \in Record : ~CountFile(w, e)
  BY <1>4, QuietStep DEF Abstract!Next, Abstract!Fail, Abstract!vars
<1> QED
  BY <1>1, <1>2, <1>3, <1>4

(* The threaded walk, whatever the interleaving, is a sequential count: it  *)
(* counts each link once and reports when none is left.                     *)
THEOREM Refinement == Spec => ImplementsDirWalk
<1>1. Init => Abstract!Init
  BY DEF Init, Abstract!Init, phase
<1> QED
  BY <1>1, TypeCorrect, InductiveCorrect, RefinementStep, PTL
     DEF Spec, ImplementsDirWalk, Abstract!Spec
=============================================================================
