----------------------------- MODULE Container ------------------------------
(***************************************************************************)
(* The output file of re2 backup: sqlite_commander::open(), init() and the *)
(* statements the pool's initialisers prepare, over several runs of the    *)
(* program on one file.  A run may fail or be killed between any two       *)
(* calls, and two runs may be at it at the same time.  SQLite is modelled  *)
(* from how the code uses it: one sqlite3_exec of init() is one committed  *)
(* change of the schema or none.                                           *)
(***************************************************************************)
EXTENDS Integers, Sequences, FiniteSets

CONSTANTS
  Process,           \* the processes that run re2 backup on the file
  MaxRuns            \* how many times each of them does

ASSUME ContainerAssumption ==
  Process # {} /\ IsFiniteSet(Process) /\ MaxRuns \in Nat

-----------------------------------------------------------------------------
(* The schema *)

Table == {"RECORD_TABLE", "DATARUN_TABLE", "SYSTEM_COMPATIBILITY_TABLE"}
Index == {"IDX_RECORD_TABLE_PARENT", "IDX_RECORD_TABLE_UNIQUE_CHILD"}
Object == Table \cup Index

(* What init() executes, in order.  Each statement makes one object, on a  *)
(* table that must be there; the first, the pragmas, makes none.           *)
Pragma == [makes |-> {}, on |-> {}, ifNotExists |-> TRUE]
Create(name, on, ifNotExists) ==
  [makes |-> {name}, on |-> on, ifNotExists |-> ifNotExists]

(* Bug: an index is made before its table. *)
Setup_IndexFirst ==
  << Pragma,
     Create("IDX_RECORD_TABLE_PARENT", {"RECORD_TABLE"}, TRUE),
     Create("RECORD_TABLE", {}, TRUE),
     Create("DATARUN_TABLE", {}, TRUE),
     Create("SYSTEM_COMPATIBILITY_TABLE", {}, TRUE),
     Create("IDX_RECORD_TABLE_UNIQUE_CHILD", {"RECORD_TABLE"}, FALSE) >>

(* Another unique index: IF NOT EXISTS for it too. *)
Setup_AllIfNotExists ==
  << Pragma,
     Create("RECORD_TABLE", {}, TRUE),
     Create("DATARUN_TABLE", {}, TRUE),
     Create("SYSTEM_COMPATIBILITY_TABLE", {}, TRUE),
     Create("IDX_RECORD_TABLE_PARENT", {"RECORD_TABLE"}, TRUE),
     Create("IDX_RECORD_TABLE_UNIQUE_CHILD", {"RECORD_TABLE"}, TRUE) >>

Setup ==
  << Pragma,
     Create("RECORD_TABLE", {}, TRUE),
     Create("DATARUN_TABLE", {}, TRUE),
     Create("SYSTEM_COMPATIBILITY_TABLE", {}, TRUE),
     Create("IDX_RECORD_TABLE_PARENT", {"RECORD_TABLE"}, TRUE),
     Create("IDX_RECORD_TABLE_UNIQUE_CHILD", {"RECORD_TABLE"}, FALSE) >>

Accepted(s, objects) ==
  /\ s.on \subseteq objects
  /\ s.ifNotExists \/ s.makes \cap objects = {}

(* The sets of columns a foreign key may refer to, and the foreign keys.   *)
Keys == [t \in Table |->
           CASE t = "RECORD_TABLE" -> {{"RECORD_TABLE_ID"}, {"PARENT_ID", "NAME"}}
             [] t = "DATARUN_TABLE" -> {{"DATARUN_ID"}}
             [] OTHER -> {}]
ForeignKeys ==
  {[child |-> "RECORD_TABLE", parent |-> "RECORD_TABLE", columns |-> {"RECORD_TABLE_ID"}],
   [child |-> "DATARUN_TABLE", parent |-> "RECORD_TABLE", columns |-> {"RECORD_ID"}]}

Mismatch(f) == f.columns \notin Keys[f.parent]

(* The INSERTs a run compiles, in order, before it walks the volume: init() *)
(* of the three statement classes.  With foreign keys on, an INSERT is      *)
(* compiled together with the checks of its table's own keys; one with a    *)
(* RETURNING clause, also of the keys that refer to its table.              *)
SystemInsert == [into |-> "SYSTEM_COMPATIBILITY_TABLE", returning |-> FALSE]
FileInsert == [into |-> "RECORD_TABLE", returning |-> TRUE]
DatarunInsert == [into |-> "DATARUN_TABLE", returning |-> FALSE]
Inserts == <<SystemInsert, FileInsert, DatarunInsert>>

Checked(i) ==
  {f \in ForeignKeys : f.child = i.into \/ (i.returning /\ f.parent = i.into)}
CanPrepare(i, checking, objects) ==
  /\ i.into \in objects
  /\ checking => \A f \in Checked(i) : ~Mismatch(f)

-----------------------------------------------------------------------------
VARIABLES
  file,              \* the objects of the schema the file holds
  runs,              \* how many runs each process has begun
  pc,                \* where its run is
  step,              \* the statement of Setup, or of Inserts, it is at
  fk,                \* PRAGMA foreign_keys of its connection
  cause,             \* why its run ended before its end
  completed          \* history: the runs whose init() got through Setup

vars == <<file, runs, pc, step, fk, cause, completed>>

PC == {"off", "open", "init", "prepare", "walk"}

Init ==
  /\ file = {}
  /\ runs = [p \in Process |-> 0]
  /\ pc = [p \in Process |-> "off"]
  /\ step = [p \in Process |-> 1]
  /\ fk = [p \in Process |-> FALSE]
  /\ cause = [p \in Process |-> "none"]
  /\ completed = {}

At(p, l) == pc[p] = l
Goto(p, l) == pc' = [pc EXCEPT ![p] = l]

(* The run is over, and its connection gone: exit(1), or an exception.     *)
Stop(p, why) ==
  /\ Goto(p, "off")
  /\ fk' = [fk EXCEPT ![p] = FALSE]
  /\ cause' = [cause EXCEPT ![p] = why]

Start(p) ==
  /\ At(p, "off") /\ runs[p] < MaxRuns
  /\ runs' = [runs EXCEPT ![p] = @ + 1]
  /\ cause' = [cause EXCEPT ![p] = "none"]
  /\ step' = [step EXCEPT ![p] = 1]
  /\ Goto(p, "open")
  /\ UNCHANGED <<file, fk, completed>>

Open(p) ==
  /\ At(p, "open")
  /\ Goto(p, "init")
  /\ UNCHANGED <<file, runs, step, fk, cause, completed>>

(* Bug: the pragmas are executed for a new file only. *)
Exec_PragmaOnce(p) ==
  /\ At(p, "init")
  /\ Accepted(Setup[step[p]], file)
  /\ file' = file \cup Setup[step[p]].makes
  /\ fk' = [fk EXCEPT ![p] = @ \/ (step[p] = 1 /\ file = {})]
  /\ IF step[p] < Len(Setup)
     THEN /\ step' = [step EXCEPT ![p] = @ + 1]
          /\ UNCHANGED <<pc, completed>>
     ELSE /\ Goto(p, "prepare") /\ step' = [step EXCEPT ![p] = 1]
          /\ completed' = completed \cup {<<p, runs[p]>>}
  /\ UNCHANGED <<runs, cause>>

(* One sqlite3_exec of init(); the last one leaves the schema complete.    *)
Exec(p) ==
  /\ At(p, "init")
  /\ Accepted(Setup[step[p]], file)
  /\ file' = file \cup Setup[step[p]].makes
  /\ fk' = [fk EXCEPT ![p] = @ \/ step[p] = 1]
  /\ IF step[p] < Len(Setup)
     THEN /\ step' = [step EXCEPT ![p] = @ + 1]
          /\ UNCHANGED <<pc, completed>>
     ELSE /\ Goto(p, "prepare") /\ step' = [step EXCEPT ![p] = 1]
          /\ completed' = completed \cup {<<p, runs[p]>>}
  /\ UNCHANGED <<runs, cause>>

(* SQLite refuses the statement: init() fails and main() calls exit(1).    *)
Refuse(p) ==
  /\ At(p, "init")
  /\ ~Accepted(Setup[step[p]], file)
  /\ Stop(p, "refused")
  /\ UNCHANGED <<file, runs, step, completed>>

(* The INSERT of the system table is init()'s last call; the other two are *)
(* compiled by an initialiser of the pool, which exits when one fails.     *)
Prepare(p) ==
  /\ At(p, "prepare")
  /\ IF CanPrepare(Inserts[step[p]], fk[p], file)
     THEN /\ IF step[p] < Len(Inserts)
             THEN step' = [step EXCEPT ![p] = @ + 1] /\ UNCHANGED pc
             ELSE Goto(p, "walk") /\ UNCHANGED step
          /\ UNCHANGED <<fk, cause>>
     ELSE Stop(p, "mismatch") /\ UNCHANGED step
  /\ UNCHANGED <<file, runs, completed>>

(* Any call may fail (a file that cannot be opened or written, a lock of   *)
(* the other process, no such disk), and the user may kill the program:    *)
(* what was committed stays.                                               *)
Fail(p) ==
  /\ ~At(p, "off")
  /\ Stop(p, "failed")
  /\ UNCHANGED <<file, runs, step, completed>>

Next ==
  \E p \in Process :
    \/ Start(p) \/ Open(p) \/ Exec(p) \/ Refuse(p)
    \/ Prepare(p) \/ Fail(p)

Spec == Init /\ [][Next]_vars
-----------------------------------------------------------------------------
TypeOK ==
  /\ file \subseteq Object
  /\ runs \in [Process -> 0..MaxRuns]
  /\ pc \in [Process -> PC]
  /\ step \in [Process -> 1..Len(Setup)]
  /\ fk \in [Process -> BOOLEAN]
  /\ cause \in [Process -> {"none", "failed", "refused", "mismatch"}]
  /\ completed \subseteq Process \X (0..MaxRuns)

(***************************************************************************)
(* A run that fails or is killed anywhere in init() (container.hpp:383)    *)
(* leaves a file the next run can finish: SQLite refuses a statement of    *)
(* init() only on a file that holds the whole schema already, also when    *)
(* two runs set the same file up at the same time.                         *)
(***************************************************************************)
RefusedOnlyWhenComplete ==
  \A p \in Process : cause[p] = "refused" => file = Object

(***************************************************************************)
(* A run gets past the statements of init() only on a file with the whole  *)
(* schema, whoever made the parts of it, and with foreign keys checked on  *)
(* its own connection (container.hpp:384: the pragma is not persistent).   *)
(***************************************************************************)
SchemaBeforeInserts ==
  \A p \in Process :
    pc[p] \in {"prepare", "walk"} => file = Object /\ fk[p]

(***************************************************************************)
(* No two runs ever fill one container: over the whole life of a file at   *)
(* most one run gets through init(), because only one can create the       *)
(* unique index (container.hpp:333, 389).                                  *)
(***************************************************************************)
OneRunPerContainer == \A x, y \in completed : x = y

(***************************************************************************)
(* What the code and its tests expect, and does not hold.                  *)
(* init() works on a container that exists: five of its six statements say *)
(* IF NOT EXISTS, and test/sql_t.cpp:15,24 runs it on one fixed file.      *)
(***************************************************************************)
Reopenable == \A p \in Process : cause[p] # "refused"

(***************************************************************************)
(* After init(), a file table statement can be had: test/                  *)
(* mt_ntfs_walker.cpp:227 takes .value() of it without a check.            *)
(***************************************************************************)
PreparesAfterInit == \A p \in Process : cause[p] # "mismatch"

-----------------------------------------------------------------------------
(***************************************************************************)
(* The inductive invariant: what a run has executed is in the file, and    *)
(* the unique index is there exactly when some run got through init().     *)
(***************************************************************************)
Unique == "IDX_RECORD_TABLE_UNIQUE_CHILD"
Made(n) == UNION {Setup[i].makes : i \in 1..n}

Inductive ==
  /\ \A p \in Process :
       /\ pc[p] = "init" => /\ Made(step[p] - 1) \subseteq file
                            /\ fk[p] <=> step[p] > 1
       /\ pc[p] \in {"prepare", "walk"} => fk[p] /\ Unique \in file
       /\ pc[p] \in {"off", "open"} => ~fk[p]
       /\ pc[p] = "open" => step[p] = 1
       /\ cause[p] = "refused" => Unique \in file
  /\ Unique \in file => file = Object
  /\ Unique \in file <=> completed # {}
  /\ OneRunPerContainer
=============================================================================
