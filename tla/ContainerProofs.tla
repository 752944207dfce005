--------------------------- MODULE ContainerProofs --------------------------
(***************************************************************************)
(* Container's invariants, for any number of processes and runs.           *)
(***************************************************************************)
EXTENDS Container, TLAPS

(***************************************************************************)
(* The statements of init(), one by one: what each makes and needs.        *)
(***************************************************************************)
LEMMA SetupFacts ==
  /\ Len(Setup) = 6
  /\ Setup[1].makes = {} /\ Setup[1].on = {} /\ Setup[1].ifNotExists
  /\ Setup[2].makes = {"RECORD_TABLE"} /\ Setup[2].on = {}
  /\ Setup[2].ifNotExists
  /\ Setup[3].makes = {"DATARUN_TABLE"} /\ Setup[3].on = {}
  /\ Setup[3].ifNotExists
  /\ Setup[4].makes = {"SYSTEM_COMPATIBILITY_TABLE"} /\ Setup[4].on = {}
  /\ Setup[4].ifNotExists
  /\ Setup[5].makes = {"IDX_RECORD_TABLE_PARENT"}
  /\ Setup[5].on = {"RECORD_TABLE"} /\ Setup[5].ifNotExists
  /\ Setup[6].makes = {Unique} /\ Setup[6].on = {"RECORD_TABLE"}
  /\ ~Setup[6].ifNotExists
BY DEF Setup, Unique, Pragma, Create

LEMMA InsertsLength == Len(Inserts) = 3
BY DEF Inserts

(***************************************************************************)
(* Every statement but the last can be repeated and finds its table made   *)
(* by the ones before it; the last one makes the unique index.             *)
(***************************************************************************)
LEMMA EarlyStatement ==
  ASSUME NEW i \in 1..5
  PROVE  /\ Setup[i].ifNotExists
         /\ Setup[i].makes \subseteq Object \ {Unique}
         /\ Setup[i].on \subseteq Made(i - 1)
<1>1. i = 1 \/ i = 2 \/ i = 3 \/ i = 4 \/ i = 5
  OBVIOUS
<1>2. \A j \in 2..4 : Setup[2].makes \subseteq Made(j)
  BY DEF Made
<1>3. CASE i = 1
  BY <1>3, SetupFacts
<1>4. CASE i \in {2, 3, 4}
  BY <1>4, SetupFacts DEF Object, Table, Index, Unique
<1>5. CASE i = 5
  <2>1. Setup[5].on = Setup[2].makes
    BY SetupFacts
  <2>2. Setup[5].on \subseteq Made(4)
    BY <1>2, <2>1
  <2> QED
    BY <1>5, <2>2, SetupFacts DEF Object, Table, Index, Unique
<1> QED
  BY <1>1, <1>3, <1>4, <1>5

LEMMA LastStatement ==
  /\ ~Setup[6].ifNotExists
  /\ Setup[6].makes = {Unique}
  /\ Setup[6].on \subseteq Made(5)
<1>1. Setup[2].makes \subseteq Made(5)
  BY DEF Made
<1> QED
  BY <1>1, SetupFacts

LEMMA MadeStep ==
  ASSUME NEW n \in 1..6
  PROVE  Made(n) = Made(n - 1) \cup Setup[n].makes
<1>1. 1..n = (1..(n - 1)) \cup {n}
  OBVIOUS
<1> QED
  BY <1>1 DEF Made

LEMMA MadeNone == Made(0) = {}
BY DEF Made

(***************************************************************************)
(* The whole schema is what the statements make together.                  *)
(***************************************************************************)
LEMMA MadeAll == Made(5) \cup {Unique} = Object
<1>1. Made(1) = {}
  BY MadeNone, MadeStep, SetupFacts
<1>2. Made(2) = {"RECORD_TABLE"}
  <2>1. Made(2) = Made(1) \cup Setup[2].makes
    BY MadeStep
  <2> QED
    BY <1>1, <2>1, SetupFacts
<1>3. Made(3) = Made(2) \cup {"DATARUN_TABLE"}
  <2>1. Made(3) = Made(2) \cup Setup[3].makes
    BY MadeStep
  <2> QED
    BY <2>1, SetupFacts
<1>4. Made(4) = Made(3) \cup {"SYSTEM_COMPATIBILITY_TABLE"}
  <2>1. Made(4) = Made(3) \cup Setup[4].makes
    BY MadeStep
  <2> QED
    BY <2>1, SetupFacts
<1>5. Made(5) = Made(4) \cup {"IDX_RECORD_TABLE_PARENT"}
  <2>1. Made(5) = Made(4) \cup Setup[5].makes
    BY MadeStep
  <2> QED
    BY <2>1, SetupFacts
<1> QED
  BY <1>2, <1>3, <1>4, <1>5 DEF Object, Table, Index, Unique

-----------------------------------------------------------------------------
(***************************************************************************)
(* Type correctness.                                                       *)
(***************************************************************************)
THEOREM TypeCorrect == Spec => []TypeOK
<1>1. Init => TypeOK
  BY SetupFacts, ContainerAssumption DEF Init, TypeOK, PC
<1>2. TypeOK /\ [Next]_vars => TypeOK'
  <2> SUFFICES ASSUME TypeOK, [Next]_vars PROVE TypeOK'
    OBVIOUS
  <2> USE SetupFacts, InsertsLength, ContainerAssumption DEF TypeOK, PC
  <2>1. ASSUME NEW p \in Process, Start(p) PROVE TypeOK'
    BY <2>1 DEF Start, At, Goto
  <2>2. ASSUME NEW p \in Process, Open(p) PROVE TypeOK'
    BY <2>2 DEF Open, At, Goto
  <2>3. ASSUME NEW p \in Process, Exec(p) PROVE TypeOK'
    <3>1. step[p] \in 1..5 \/ step[p] = 6
      OBVIOUS
    <3>2. Setup[step[p]].makes \subseteq Object
      <4>1. CASE step[p] \in 1..5
        BY <4>1, EarlyStatement
      <4>2. CASE step[p] = 6
        BY <4>2 DEF Object, Index, Unique
      <4> QED
        BY <3>1, <4>1, <4>2
    <3>3. file' \subseteq Object /\ fk' \in [Process -> BOOLEAN]
      BY <2>3, <3>2 DEF Exec
    <3>4. CASE step[p] \in 1..5
      BY <2>3, <3>3, <3>4 DEF Exec
    <3>5. CASE step[p] = 6
      <4>1. runs[p] \in 0..MaxRuns
        OBVIOUS
      <4> QED
        BY <2>3, <3>3, <3>5, <4>1 DEF Exec, At, Goto
    <3> QED
      BY <3>1, <3>4, <3>5
  <2>4. ASSUME NEW p \in Process, Refuse(p) PROVE TypeOK'
    BY <2>4 DEF Refuse, Stop, At, Goto
  <2>5. ASSUME NEW p \in Process, Prepare(p) PROVE TypeOK'
    <3>1. CASE pc[p] = "prepare" /\ CanPrepare(Inserts[step[p]], fk[p], file)
      <4>1. CASE step[p] < 3
        BY <2>5, <3>1, <4>1 DEF Prepare
      <4>2. CASE ~(step[p] < 3)
        BY <2>5, <3>1, <4>2 DEF Prepare, Goto
      <4> QED
        BY <4>1, <4>2
    <3>2. CASE ~CanPrepare(Inserts[step[p]], fk[p], file)
      BY <2>5, <3>2 DEF Prepare, Stop, Goto
    <3> QED
      BY <2>5, <3>1, <3>2 DEF Prepare, At
  <2>6. ASSUME NEW p \in Process, Fail(p) PROVE TypeOK'
    BY <2>6 DEF Fail, Stop, At, Goto
  <2>7. CASE UNCHANGED vars
    BY <2>7 DEF vars
  <2> QED
    BY <2>1, <2>2, <2>3, <2>4, <2>5, <2>6, <2>7 DEF Next
<1> QED
  BY <1>1, <1>2, PTL DEF Spec

-----------------------------------------------------------------------------
(***************************************************************************)
(* What the invariant says of one run; a step of another run only adds to  *)
(* the file, which keeps it.                                               *)
(***************************************************************************)
RunInv(p) ==
  /\ pc[p] = "init" => /\ Made(step[p] - 1) \subseteq file
                       /\ fk[p] <=> step[p] > 1
  /\ pc[p] \in {"prepare", "walk"} => fk[p] /\ Unique \in file
  /\ pc[p] \in {"off", "open"} => ~fk[p]
  /\ pc[p] = "open" => step[p] = 1
  /\ cause[p] = "refused" => Unique \in file

FileInv ==
  /\ Unique \in file => file = Object
  /\ Unique \in file <=> completed # {}
  /\ OneRunPerContainer

LEMMA InductiveParts ==
  Inductive <=> FileInv /\ \A p \in Process : RunInv(p)
BY DEF Inductive, FileInv, RunInv

LEMMA OtherRuns ==
  ASSUME TypeOK, \A q \in Process : RunInv(q), NEW p \in Process,
         file \subseteq file',
         \A q \in Process \ {p} :
           /\ pc'[q] = pc[q] /\ step'[q] = step[q]
           /\ fk'[q] = fk[q] /\ cause'[q] = cause[q]
  PROVE  \A q \in Process \ {p} : RunInv(q)'
<1> TAKE q \in Process \ {p}
<1>1. Made(step[q] - 1)' = Made(step[q] - 1)
  BY DEF Made
<1> QED
  BY <1>1 DEF RunInv

(***************************************************************************)
(* No statement of init() changes what is known of the file, but the last. *)
(***************************************************************************)
LEMMA ExecFile ==
  ASSUME TypeOK, FileInv, NEW p \in Process, RunInv(p), Exec(p)
  PROVE  FileInv'
<1> USE DEF FileInv
<1>1. step[p] \in 1..5 \/ step[p] = 6
  BY SetupFacts DEF TypeOK
<1>2. file \subseteq Object
  BY DEF TypeOK
<1>3. CASE step[p] \in 1..5
  <2>1. Setup[step[p]].makes \subseteq Object \ {Unique}
    BY <1>3, EarlyStatement
  <2>2. file' = file \cup Setup[step[p]].makes /\ completed' = completed
    BY <1>3, SetupFacts DEF Exec
  <2>3. Unique \in file' <=> Unique \in file
    BY <2>1, <2>2
  <2>4. OneRunPerContainer'
    BY <2>2 DEF OneRunPerContainer
  <2> QED
    BY <1>2, <2>1, <2>2, <2>3, <2>4
<1>4. CASE step[p] = 6
  <2>1. Made(5) \subseteq file
    BY <1>4 DEF RunInv, Exec, At
  <2>2. Unique \notin file
    BY <1>4, SetupFacts DEF Exec, Accepted
  <2>3. /\ file' = file \cup {Unique}
        /\ completed' = completed \cup {<<p, runs[p]>>}
    BY <1>4, SetupFacts DEF Exec
  <2>4. file' = Object
    BY <1>2, <2>1, <2>3, MadeAll
  <2>5. completed' = {<<p, runs[p]>>}
    BY <2>2, <2>3
  <2>6. OneRunPerContainer'
    BY <2>5 DEF OneRunPerContainer
  <2> QED
    BY <2>3, <2>4, <2>5, <2>6
<1> QED
  BY <1>1, <1>3, <1>4

LEMMA ExecRun ==
  ASSUME TypeOK, NEW p \in Process, RunInv(p), Exec(p)
  PROVE  RunInv(p)'
<1>1. step[p] \in 1..5 \/ step[p] = 6
  BY SetupFacts DEF TypeOK
<1>2. pc[p] = "init" /\ Made(step[p] - 1) \subseteq file /\ cause' = cause
  BY DEF Exec, At, RunInv
<1>3. file' = file \cup Setup[step[p]].makes
  BY DEF Exec
<1>4. fk'[p] <=> (fk[p] \/ step[p] = 1)
  BY DEF Exec, TypeOK
<1>5. CASE step[p] \in 1..5
  <2>1. step'[p] = step[p] + 1 /\ pc' = pc
    BY <1>5, SetupFacts DEF Exec, TypeOK
  <2>2. Made(step'[p] - 1) = Made(step[p] - 1) \cup Setup[step[p]].makes
    <3>1. step'[p] - 1 = step[p]
      BY <1>5, <2>1
    <3> QED
      BY <1>5, <3>1, MadeStep
  <2>3. Made(step[p] - 1)' \subseteq file'
    <3>1. Made(step[p] - 1)' = Made(step'[p] - 1)
      BY DEF Made
    <3> QED
      BY <1>2, <1>3, <2>2, <3>1
  <2>4. fk'[p] <=> step'[p] > 1
    BY <1>2, <1>4, <1>5, <2>1 DEF RunInv
  <2>5. cause'[p] = "refused" => Unique \in file'
    BY <1>2, <1>3 DEF RunInv
  <2> QED
    BY <1>2, <2>1, <2>3, <2>4, <2>5 DEF RunInv
<1>6. CASE step[p] = 6
  <2>1. pc'[p] = "prepare"
    BY <1>6, SetupFacts DEF Exec, Goto, TypeOK
  <2>2. Unique \in file'
    BY <1>3, <1>6, SetupFacts
  <2>3. fk'[p]
    BY <1>2, <1>4, <1>6 DEF RunInv
  <2> QED
    BY <2>1, <2>2, <2>3 DEF RunInv
<1> QED
  BY <1>1, <1>5, <1>6

(***************************************************************************)
(* Only the last statement can be refused: the others say IF NOT EXISTS    *)
(* and find their table.                                                   *)
(***************************************************************************)
LEMMA RefusedIsLast ==
  ASSUME TypeOK, NEW p \in Process, RunInv(p), Refuse(p)
  PROVE  Unique \in file
<1>1. step[p] \in 1..5 \/ step[p] = 6
  BY SetupFacts DEF TypeOK
<1>2. Made(step[p] - 1) \subseteq file /\ ~Accepted(Setup[step[p]], file)
  BY DEF Refuse, At, RunInv
<1>3. step[p] \notin 1..5
  <2> SUFFICES ASSUME step[p] \in 1..5 PROVE FALSE
    OBVIOUS
  <2>1. Setup[step[p]].ifNotExists /\ Setup[step[p]].on \subseteq Made(step[p] - 1)
    BY EarlyStatement
  <2> QED
    BY <1>2, <2>1 DEF Accepted
<1>4. Setup[6].on \subseteq file /\ step[p] = 6
  <2>1. step[p] = 6
    BY <1>1, <1>3
  <2> QED
    BY <1>2, <2>1, LastStatement
<1> QED
  BY <1>2, <1>4, LastStatement DEF Accepted

(***************************************************************************)
(* The inductive invariant holds.                                          *)
(***************************************************************************)
THEOREM InductiveCorrect == Spec => []Inductive
<1>1. Init => Inductive
  BY DEF Init, Inductive, OneRunPerContainer, Unique
<1>2. TypeOK /\ Inductive /\ [Next]_vars => Inductive'
  <2> SUFFICES ASSUME TypeOK, Inductive, [Next]_vars PROVE Inductive'
    OBVIOUS
  <2>0. FileInv /\ \A q \in Process : RunInv(q)
    BY InductiveParts
  <2>a. ASSUME UNCHANGED <<file, completed>> PROVE FileInv'
    BY <2>0, <2>a DEF FileInv, OneRunPerContainer
  <2>b. ASSUME NEW p \in Process, FileInv', RunInv(p)', file \subseteq file',
               \A q \in Process \ {p} :
                 /\ pc'[q] = pc[q] /\ step'[q] = step[q]
                 /\ fk'[q] = fk[q] /\ cause'[q] = cause[q]
        PROVE  Inductive'
    <3>1. \A q \in Process \ {p} : RunInv(q)'
      BY <2>0, <2>b, OtherRuns
    <3>2. \A q \in Process : RunInv(q)'
      BY <2>b, <3>1
    <3> QED
      BY <2>b, <3>2 DEF Inductive, FileInv, RunInv
  <2>1. ASSUME NEW p \in Process, Start(p) PROVE Inductive'
    <3>1. RunInv(p)'
      BY <2>0, <2>1 DEF Start, At, Goto, RunInv, TypeOK
    <3>2. FileInv'
      BY <2>1, <2>a DEF Start
    <3> QED
      BY <2>1, <2>b, <3>1, <3>2 DEF Start, Goto, TypeOK
  <2>2. ASSUME NEW p \in Process, Open(p) PROVE Inductive'
    <3>1. step[p] = 1 => Made(step[p] - 1)' = {}
      BY <2>2, MadeNone DEF Open, Made
    <3>2. step[p] = 1
      BY <2>0, <2>2 DEF Open, At, RunInv
    <3>3. RunInv(p)'
      BY <2>0, <2>2, <3>1, <3>2 DEF Open, At, Goto, RunInv, TypeOK
    <3>4. FileInv'
      BY <2>2, <2>a DEF Open
    <3> QED
      BY <2>2, <2>b, <3>3, <3>4 DEF Open, Goto, TypeOK
  <2>3. ASSUME NEW p \in Process, Exec(p) PROVE Inductive'
    <3>1. RunInv(p)' /\ FileInv'
      BY <2>0, <2>3, ExecRun, ExecFile
    <3>2. \A q \in Process \ {p} :
            /\ pc'[q] = pc[q] /\ step'[q] = step[q]
            /\ fk'[q] = fk[q] /\ cause'[q] = cause[q]
      BY <2>3 DEF Exec, Goto, TypeOK
    <3>3. file \subseteq file'
      BY <2>3 DEF Exec
    <3> QED
      BY <2>b, <3>1, <3>2, <3>3
  <2>4. ASSUME NEW p \in Process, Refuse(p) PROVE Inductive'
    <3>1. Unique \in file
      BY <2>0, <2>4, RefusedIsLast
    <3>2. RunInv(p)'
      BY <2>0, <2>4, <3>1 DEF Refuse, Stop, At, Goto, RunInv, TypeOK
    <3>3. FileInv'
      BY <2>4, <2>a DEF Refuse
    <3> QED
      BY <2>4, <2>b, <3>2, <3>3 DEF Refuse, Stop, Goto, TypeOK
  <2>5. ASSUME NEW p \in Process, Prepare(p) PROVE Inductive'
    <3>1. pc[p] = "prepare" /\ UNCHANGED <<file, completed>>
      BY <2>5 DEF Prepare, At
    <3>2. \/ UNCHANGED <<fk, cause>> /\ pc'[p] \in {"prepare", "walk"}
          \/ pc'[p] = "off" /\ ~fk'[p] /\ cause'[p] = "mismatch"
      BY <2>5, <3>1 DEF Prepare, Stop, Goto, TypeOK
    <3>3. RunInv(p)'
      BY <2>0, <3>1, <3>2 DEF RunInv
    <3>4. FileInv'
      BY <2>a, <3>1
    <3>5. \A q \in Process \ {p} :
            /\ pc'[q] = pc[q] /\ step'[q] = step[q]
            /\ fk'[q] = fk[q] /\ cause'[q] = cause[q]
      BY <2>5 DEF Prepare, Stop, Goto, TypeOK
    <3> QED
      BY <2>b, <3>1, <3>3, <3>4, <3>5
  <2>6. ASSUME NEW p \in Process, Fail(p) PROVE Inductive'
    <3>1. RunInv(p)'
      BY <2>0, <2>6 DEF Fail, Stop, At, Goto, RunInv, TypeOK
    <3>2. FileInv'
      BY <2>6, <2>a DEF Fail
    <3> QED
      BY <2>6, <2>b, <3>1, <3>2 DEF Fail, Stop, Goto, TypeOK
  <2>7. CASE UNCHANGED vars
    <3>1. \A q \in Process : RunInv(q)'
      BY <2>0, <2>7 DEF vars, RunInv, Made
    <3> QED
      BY <2>7, <2>a, <3>1 DEF vars, Inductive, FileInv, RunInv
  <2> QED
    BY <2>1, <2>2, <2>3, <2>4, <2>5, <2>6, <2>7 DEF Next
<1> QED
  BY <1>1, <1>2, TypeCorrect, PTL DEF Spec

(***************************************************************************)
(* A statement of init() is refused only on a file with the whole schema.  *)
(***************************************************************************)
THEOREM RefusedComplete == Spec => []RefusedOnlyWhenComplete
<1>1. Inductive => RefusedOnlyWhenComplete
  BY DEF Inductive, RefusedOnlyWhenComplete
<1> QED
  BY <1>1, InductiveCorrect, PTL

(***************************************************************************)
(* A run that is past init() has the whole schema and checks foreign keys. *)
(***************************************************************************)
THEOREM SchemaComplete == Spec => []SchemaBeforeInserts
<1>1. Inductive => SchemaBeforeInserts
  BY DEF Inductive, SchemaBeforeInserts
<1> QED
  BY <1>1, InductiveCorrect, PTL

(***************************************************************************)
(* At most one run ever gets through init() on one file.                   *)
(***************************************************************************)
THEOREM OneRun == Spec => []OneRunPerContainer
<1>1. Inductive => OneRunPerContainer
  BY DEF Inductive
<1> QED
  BY <1>1, InductiveCorrect, PTL
=============================================================================
