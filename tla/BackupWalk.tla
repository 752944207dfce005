----------------------------- MODULE BackupWalk -----------------------------
(***************************************************************************)
(* re2 backup: main() opens the container and the volume, creates a        *)
(* BS::priority_thread_pool whose workers each run an initialiser, hands   *)
(* the root directory to the pool, waits, prints the totals and returns.   *)
(* Every directory is a task that looks at its entries one by one and      *)
(* hands each subdirectory back to the pool.                               *)
(***************************************************************************)
EXTENDS NtfsTree

CONSTANTS
  Worker,            \* the threads of the pool (-j)
  FtPrepare,         \* possible outcomes of filetable_push_back_return()
  DtPrepare,         \* possible outcomes of dataruntable_push_back_return()
  PoolCatches        \* does the pool swallow what a detached task throws?

ASSUME PoolAssumption ==
  /\ Worker # {} /\ IsFiniteSet(Worker)
  /\ FtPrepare \subseteq BOOLEAN /\ DtPrepare \subseteq BOOLEAN
  /\ PoolCatches \subseteq BOOLEAN

VARIABLES
  volume,            \* what the disk holds during this run
  main,              \* where the main thread is
  rc,                \* what main() will return: "none", "ok" (0) or "err" (1)
  proc,              \* the process: "running", "exited" or "aborted"
  db,                \* the container: "closed", "open" or "destroyed"
  wpc,               \* where each worker is
  dir,               \* the directory of the worker's task
  todo,              \* the entries of dir[w] its loop has still to visit
  cur,               \* the subdirectory between detach_task and its count
  queue,             \* the directories waiting in the pool's queue
  files, folders,    \* files_processed, folders_processed
  printed,           \* the totals main() printed
  detached,          \* history: the directories handed to the pool so far
  handled            \* history: the links counted so far

walkVars == <<dir, todo, cur, queue, files, folders, detached, handled>>
mainVars == <<main, rc, db, printed>>
vars == <<volume, proc, wpc, walkVars, mainVars>>

MainPC == {"open", "init", "disk", "ntfs", "walker", "pool", "lookup",
           "detach", "wait", "report", "join", "close", "end"}
WorkerPC == {"none", "initFt", "initDt", "exiting", "idle", "index", "entry",
             "count", "joined"}

(* A worker the pool counts in tasks_running: in its initialiser or a task. *)
Busy(w) == wpc[w] \notin {"none", "idle", "joined"}
Quiet == queue = {} /\ \A w \in Worker : ~Busy(w)

Init ==
  /\ volume \in Volumes
  /\ main = "open" /\ rc = "none" /\ proc = "running" /\ db = "closed"
  /\ wpc = [w \in Worker |-> "none"]
  /\ dir = [w \in Worker |-> volume.root]
  /\ todo = [w \in Worker |-> {}]
  /\ cur = [w \in Worker |-> volume.root]
  /\ queue = {} /\ files = 0 /\ folders = 0
  /\ printed = <<0, 0>>
  /\ detached = {} /\ handled = {}

-----------------------------------------------------------------------------
(* The main thread *)

MainAt(pc) == proc = "running" /\ main = pc

(* A failing step of the set-up calls exit(1): no destructor of main() runs. *)
ExitOne == proc' = "exited" /\ rc' = "err" /\ UNCHANGED main

(* The error is printed, then i.value() throws and nothing catches it. *)
MainOpen ==
  /\ MainAt("open")
  /\ \/ main' = "init" /\ db' = "open" /\ UNCHANGED proc
     \/ proc' = "aborted" /\ UNCHANGED <<main, db>>
  /\ UNCHANGED <<volume, wpc, walkVars, rc, printed>>

SetUp(pc, next) ==
  /\ MainAt(pc)
  /\ \/ main' = next /\ UNCHANGED <<proc, rc>>
     \/ ExitOne
  /\ UNCHANGED <<volume, wpc, walkVars, db, printed>>

MainInit == SetUp("init", "disk")      \* commander->init()
MainDisk == SetUp("disk", "ntfs")      \* get_disk()

(* is_ntfs(): a volume number that the disk has not is a null pointer.     *)
MainNtfs ==
  /\ MainAt("ntfs")
  /\ \/ main' = "walker" /\ UNCHANGED <<proc, rc>>
     \/ ExitOne
     \/ proc' = "aborted" /\ UNCHANGED <<main, rc>>
  /\ UNCHANGED <<volume, wpc, walkVars, db, printed>>

(* A walker that cannot read its data runs throws out of main(). *)
MainWalker ==
  /\ MainAt("walker")
  /\ \/ main' = "pool" /\ UNCHANGED proc
     \/ proc' = "aborted" /\ UNCHANGED main
  /\ UNCHANGED <<volume, wpc, walkVars, rc, db, printed>>

(* The constructor starts the threads and does not wait for them. *)
MainPool ==
  /\ MainAt("pool")
  /\ main' = "lookup"
  /\ wpc' = [w \in Worker |-> "initFt"]
  /\ UNCHANGED <<volume, proc, walkVars, rc, db, printed>>

(* The start record; on an error main() returns 1, and destroys the pool. *)
(* With -p, a directory on the way whose record cannot be read throws.    *)
MainLookup ==
  /\ MainAt("lookup")
  /\ \/ main' = "detach" /\ UNCHANGED <<rc, proc>>
     \/ main' = "join" /\ rc' = "err" /\ UNCHANGED proc
     \/ proc' = "aborted" /\ UNCHANGED <<main, rc>>
  /\ UNCHANGED <<volume, wpc, walkVars, db, printed>>

MainDetach ==
  /\ MainAt("detach")
  /\ main' = "wait"
  /\ queue' = queue \cup {volume.root}
  /\ detached' = detached \cup {volume.root}
  /\ UNCHANGED <<volume, proc, wpc, dir, todo, cur, files, folders, handled>>
  /\ UNCHANGED <<rc, db, printed>>

(* Bug: waiting for an empty queue, not for the tasks that are running. *)
MainWait_QueueOnly ==
  /\ MainAt("wait")
  /\ queue = {}
  /\ main' = "report"
  /\ UNCHANGED <<volume, proc, wpc, walkVars, rc, db, printed>>

(* pool.wait(): no task queued, none running, no initialiser running. *)
MainWait ==
  /\ MainAt("wait")
  /\ Quiet
  /\ main' = "report"
  /\ UNCHANGED <<volume, proc, wpc, walkVars, rc, db, printed>>

MainReport ==
  /\ MainAt("report")
  /\ main' = "join" /\ rc' = "ok"
  /\ printed' = <<files, folders>>
  /\ UNCHANGED <<volume, proc, wpc, walkVars, db>>

(* Bug: a pool that is torn down without a join. *)
MainJoin_NoJoin ==
  /\ MainAt("join")
  /\ main' = "close"
  /\ UNCHANGED <<volume, proc, wpc, walkVars, rc, db, printed>>

(* The pool's destructor waits as wait() does, then joins every thread. *)
MainJoin ==
  /\ MainAt("join")
  /\ Quiet
  /\ main' = "close"
  /\ wpc' = [w \in Worker |-> "joined"]
  /\ UNCHANGED <<volume, proc, walkVars, rc, db, printed>>

(* commander is destroyed after the pool: it was declared before it. *)
MainClose ==
  /\ MainAt("close")
  /\ main' = "end" /\ db' = "destroyed"
  /\ UNCHANGED <<volume, proc, wpc, walkVars, rc, printed>>

MainEnd ==
  /\ MainAt("end")
  /\ proc' = "exited"
  /\ UNCHANGED <<volume, wpc, walkVars, mainVars>>

-----------------------------------------------------------------------------
(* The workers *)

WorkerAt(w, pc) == proc = "running" /\ wpc[w] = pc
Goto(w, pc) == wpc' = [wpc EXCEPT ![w] = pc]

(* A statement that cannot be prepared makes the worker call exit(1). *)
InitFt(w) ==
  /\ WorkerAt(w, "initFt")
  /\ \E ok \in FtPrepare : Goto(w, IF ok THEN "initDt" ELSE "exiting")
  /\ UNCHANGED <<volume, proc, walkVars, mainVars>>

InitDt(w) ==
  /\ WorkerAt(w, "initDt")
  /\ \E ok \in DtPrepare : Goto(w, IF ok THEN "idle" ELSE "exiting")
  /\ UNCHANGED <<volume, proc, walkVars, mainVars>>

(* exit(1) on a worker: the other threads run until the process is gone. *)
ProcessExit(w) ==
  /\ WorkerAt(w, "exiting")
  /\ proc' = "exited" /\ rc' = "err"
  /\ UNCHANGED <<volume, wpc, walkVars, main, db, printed>>

(* Bug: the task is copied out of the queue and left in it. *)
Pop_Copies(w) ==
  /\ WorkerAt(w, "idle")
  /\ \E d \in queue : dir' = [dir EXCEPT ![w] = d]
  /\ Goto(w, "index")
  /\ UNCHANGED <<volume, proc, todo, cur, queue, files, folders>>
  /\ UNCHANGED <<detached, handled, mainVars>>

(* All tasks have the highest priority: any queued one may be next. *)
Pop(w) ==
  /\ WorkerAt(w, "idle")
  /\ \E d \in queue : /\ queue' = queue \ {d}
                      /\ dir' = [dir EXCEPT ![w] = d]
  /\ Goto(w, "index")
  /\ UNCHANGED <<volume, proc, todo, cur, files, folders, detached, handled>>
  /\ UNCHANGED mainVars

(* Bug: a directory whose index cannot be read is tried again. *)
Index_Retries(w) ==
  /\ WorkerAt(w, "index")
  /\ dir[w] \notin volume.noindex
  /\ todo' = [todo EXCEPT ![w] = volume.index[dir[w]]]
  /\ Goto(w, "entry")
  /\ UNCHANGED <<volume, proc, dir, cur, queue, files, folders>>
  /\ UNCHANGED <<detached, handled, mainVars>>

(* index_records() answers an error, or throws, or crashes on a buffer it  *)
(* could not read, which no pool catches, or gives the entries.            *)
Index(w) ==
  /\ WorkerAt(w, "index")
  /\ \/ /\ dir[w] \in volume.noindex
        /\ Goto(w, "idle") /\ UNCHANGED <<todo, proc>>
     \/ /\ dir[w] \in volume.noindex
        /\ proc' = "aborted" /\ UNCHANGED <<wpc, todo>>
     \/ /\ dir[w] \notin volume.noindex
        /\ todo' = [todo EXCEPT ![w] = volume.index[dir[w]]]
        /\ Goto(w, "entry") /\ UNCHANGED proc
  /\ UNCHANGED <<volume, dir, cur, queue, files, folders>>
  /\ UNCHANGED <<detached, handled, mainVars>>

(* The entry the range-based for is at: the least one left. *)
AtEntry(w, e) ==
  WorkerAt(w, "entry") /\ e \in todo[w] /\ \A f \in todo[w] : e <= f
Advance(w, e) == todo' = [todo EXCEPT ![w] = @ \ {e}]

(* Both cases print and continue. *)
SkipEntry(w, e) ==
  /\ AtEntry(w, e)
  /\ volume.class[e] \in {"unreadable", "system"}
  /\ Advance(w, e)
  /\ UNCHANGED <<volume, proc, wpc, dir, cur, queue, files, folders>>
  /\ UNCHANGED <<detached, handled, mainVars>>

(* filename() failed: .value() throws and the task ends where it is. *)
ThrowEntry(w, e) ==
  /\ AtEntry(w, e)
  /\ volume.class[e] = "nameless"
  /\ \E caught \in PoolCatches :
       IF caught
       THEN /\ Goto(w, "idle")
            /\ todo' = [todo EXCEPT ![w] = {}]
            /\ UNCHANGED proc
       ELSE proc' = "aborted" /\ UNCHANGED <<wpc, todo>>
  /\ UNCHANGED <<volume, dir, cur, queue, files, folders>>
  /\ UNCHANGED <<detached, handled, mainVars>>

(* Bug: the loop is not advanced past a file. *)
CountFile_Stays(w, e) ==
  /\ AtEntry(w, e)
  /\ volume.class[e] = "file"
  /\ files' = files + 1
  /\ handled' = handled \cup {<<dir[w], e>>}
  /\ UNCHANGED <<volume, proc, wpc, dir, todo, cur, queue, folders, detached>>
  /\ UNCHANGED mainVars

CountFile(w, e) ==
  /\ AtEntry(w, e)
  /\ volume.class[e] = "file"
  /\ Advance(w, e)
  /\ files' = files + 1
  /\ handled' = handled \cup {<<dir[w], e>>}
  /\ UNCHANGED <<volume, proc, wpc, dir, cur, queue, folders, detached>>
  /\ UNCHANGED mainVars

(* The child task is in the queue, and may run, before it is counted. *)
DetachEntry(w, e) ==
  /\ AtEntry(w, e)
  /\ volume.class[e] = "dir"
  /\ Advance(w, e)
  /\ queue' = queue \cup {e}
  /\ detached' = detached \cup {e}
  /\ cur' = [cur EXCEPT ![w] = e]
  /\ Goto(w, "count")
  /\ UNCHANGED <<volume, proc, dir, files, folders, handled, mainVars>>

(* Bug: the counter counts the folders left, and starts from none. *)
CountFolder_Down(w) ==
  /\ WorkerAt(w, "count")
  /\ folders' = folders - 1
  /\ handled' = handled \cup {<<dir[w], cur[w]>>}
  /\ Goto(w, "entry")
  /\ UNCHANGED <<volume, proc, dir, todo, cur, queue, files, detached>>
  /\ UNCHANGED mainVars

CountFolder(w) ==
  /\ WorkerAt(w, "count")
  /\ folders' = folders + 1
  /\ handled' = handled \cup {<<dir[w], cur[w]>>}
  /\ Goto(w, "entry")
  /\ UNCHANGED <<volume, proc, dir, todo, cur, queue, files, detached>>
  /\ UNCHANGED mainVars

TaskEnd(w) ==
  /\ WorkerAt(w, "entry")
  /\ todo[w] = {}
  /\ Goto(w, "idle")
  /\ UNCHANGED <<volume, proc, walkVars, mainVars>>

-----------------------------------------------------------------------------
MainNext ==
  \/ MainOpen \/ MainInit \/ MainDisk \/ MainNtfs \/ MainWalker \/ MainPool
  \/ MainLookup \/ MainDetach \/ MainWait \/ MainReport \/ MainJoin
  \/ MainClose \/ MainEnd

EntryNext(w, e) ==
  SkipEntry(w, e) \/ ThrowEntry(w, e) \/ CountFile(w, e) \/ DetachEntry(w, e)

WorkerNext(w) ==
  \/ InitFt(w) \/ InitDt(w) \/ ProcessExit(w)
  \/ Pop(w) \/ Index(w) \/ CountFolder(w) \/ TaskEnd(w)
  \/ \E e \in Record : EntryNext(w, e)

(* The process is gone: nothing moves any more. *)
Stopped == proc # "running" /\ UNCHANGED vars

Next == MainNext \/ (\E w \in Worker : WorkerNext(w)) \/ Stopped

Spec == Init /\ [][Next]_vars

(* The OS runs every runnable thread, and every read and SQLite call ends. *)
Fairness == WF_vars(MainNext) /\ \A w \in Worker : WF_vars(WorkerNext(w))
FairSpec == Spec /\ Fairness

-----------------------------------------------------------------------------
TypeOK ==
  /\ volume \in Volumes
  /\ main \in MainPC /\ rc \in {"none", "ok", "err"}
  /\ proc \in {"running", "exited", "aborted"}
  /\ db \in {"closed", "open", "destroyed"}
  /\ wpc \in [Worker -> WorkerPC]
  /\ dir \in [Worker -> Record] /\ cur \in [Worker -> Record]
  /\ todo \in [Worker -> SUBSET Record]
  /\ queue \subseteq Record /\ detached \subseteq Record
  /\ handled \subseteq Record \X Record
  /\ files \in Nat /\ folders \in Nat /\ printed \in Nat \X Nat

(***************************************************************************)
(* pool.wait() at main.cpp:401 is the only thing between the walk and the  *)
(* totals: when main() is past it, no task is queued or running, no        *)
(* initialiser is still on its way to an exit(1), and every link a         *)
(* sequential walk would count has been counted.                           *)
(***************************************************************************)
WaitIsComplete ==
  main = "report" \/ rc = "ok" => Quiet /\ handled = Links(volume)

(***************************************************************************)
(* The totals main() prints (main.cpp:410-411) are those of the sequential *)
(* walk, whatever the number of threads and their interleaving: no count   *)
(* is lost, made twice, or made after the totals were read.                *)
(***************************************************************************)
ReportIsExact ==
  rc = "ok" => printed = <<Cardinality(FileLinks(volume, Links(volume))),
                           Cardinality(DirLinks(volume, Links(volume)))>>

(***************************************************************************)
(* A directory is one task at a time: two workers never walk the same      *)
(* directory, and a directory that is queued is not being walked.          *)
(***************************************************************************)
InTask(w) == wpc[w] \in {"index", "entry", "count"}
OneTaskPerDirectory ==
  \A w \in Worker : InTask(w) =>
    /\ dir[w] \notin queue
    /\ \A x \in Worker : InTask(x) /\ dir[x] = dir[w] => x = w

(***************************************************************************)
(* The initialisers use the container through a reference main() owns: no  *)
(* worker is in its initialiser unless the container is open, also when    *)
(* main() returns 1 from a failed look-up while threads are still starting.*)
(***************************************************************************)
ContainerOutlivesInit ==
  \A w \in Worker : wpc[w] \in {"initFt", "initDt"} => db = "open"

(***************************************************************************)
(* The backup ends: it is never stuck waiting, on any volume.              *)
(***************************************************************************)
Terminates == <>(proc # "running")

(***************************************************************************)
(* The detailed walk implements the abstract one.                          *)
(***************************************************************************)
phase == IF rc = "ok" THEN "reported"
         ELSE IF proc # "running" THEN "failed" ELSE "walking"
Abstract == INSTANCE DirWalk WITH
  volume <- volume, handled <- handled,
  files <- files, folders <- folders, phase <- phase
ImplementsDirWalk == Abstract!Spec

-----------------------------------------------------------------------------
(***************************************************************************)
(* The inductive invariant behind the safety properties: BackupWalkProofs  *)
(* proves that every step keeps it.                                        *)
(***************************************************************************)
(* Where the main thread is decides what the workers can be doing. *)
Protocol ==
  /\ main \in {"open", "init", "disk", "ntfs", "walker", "pool"} =>
       \A w \in Worker : wpc[w] = "none"
  /\ main \in {"open", "init", "disk", "ntfs", "walker", "pool", "lookup",
               "detach"} => detached = {} /\ rc # "ok"
  /\ main \notin {"open", "end"} => db = "open"
  /\ main \in {"close", "end"} => \A w \in Worker : wpc[w] = "joined"
  /\ main \in {"wait", "report"} => volume.root \in detached /\ rc # "ok"
  /\ main = "report" => Quiet
  /\ rc = "ok" => /\ volume.root \in detached /\ Quiet
                  /\ printed = <<files, folders>>

(* Worker w is walking d and has not looked at entry e yet. *)
Ahead(w, d, e) ==
  InTask(w) /\ dir[w] = d /\ (wpc[w] = "index" \/ e \in todo[w])
Passed(d, e) == d \in detached \ queue /\ \A w \in Worker : ~Ahead(w, d, e)
Counting(w, d, e) == wpc[w] = "count" /\ dir[w] = d /\ cur[w] = e

(* A worker's loop is at the least of the entries it has still to visit. *)
LoopInv ==
  \A w \in Worker :
    /\ InTask(w) => dir[w] \in detached
    /\ wpc[w] \in {"entry", "count"} =>
         /\ dir[w] \notin volume.noindex
         /\ todo[w] \subseteq volume.index[dir[w]]
         /\ \A e \in volume.index[dir[w]] \ todo[w] :
              /\ volume.class[e] # "nameless"
              /\ \A f \in todo[w] : e < f
    /\ wpc[w] = "count" =>
         cur[w] \in Subdirs(volume, dir[w]) \ todo[w]

(* The pool has been given the root and what the loops have passed. *)
DetachedInv ==
  /\ queue \subseteq detached
  /\ detached \subseteq Walked(volume)
  /\ \A d \in Walked(volume) : \A e \in Subdirs(volume, d) :
       e \in detached <=> Passed(d, e)

(* The links counted are those passed, but for a folder being counted. *)
HandledInv ==
  /\ handled \subseteq Links(volume)
  /\ \A l \in Links(volume) :
       l \in handled <=> /\ Passed(l[1], l[2])
                         /\ \A w \in Worker : ~Counting(w, l[1], l[2])
  /\ files = Cardinality(FileLinks(volume, handled))
  /\ folders = Cardinality(DirLinks(volume, handled))

Inductive ==
  Protocol /\ OneTaskPerDirectory /\ LoopInv /\ DetachedInv /\ HandledInv
=============================================================================
