--------------------------- MODULE DiskScanProofs ---------------------------
(***************************************************************************)
(* Proofs about DiskScan, for every set of machines.                       *)
(*                                                                         *)
(*   TypeInv     what the variables are                                    *)
(*   ProbeInv    of the numbers looked at so far at most one, g, is not    *)
(*               there, and the list has a disk for each of the others     *)
(*   TablesInv   on a drive with orderly tables: the EBRs read are those   *)
(*               of the chain so far, and the sectors of entries the first *)
(*   VolumesInv  a volume is formed as its drive and Windows say, and has  *)
(*               the place and the number of the partition it is made of   *)
(*   DisksInv    the disks in the list are finished with both              *)
(*   ListedInv   what follows for the list from ProbeInv, kept for the     *)
(*               commands                                                  *)
(*   AnswerInv   an answer is about a disk and a volume of the list        *)
(*                                                                         *)
(* "As many as" is a bijection (Matches), from the entries the disk has to *)
(* the partitions the drive has; it is joined piece by piece, so that no   *)
(* recursive definition is reasoned about but Places, of which only its    *)
(* equations are used.                                                     *)
(***************************************************************************)
EXTENDS DiskScan, DataLemmas, FunctionTheorems

IsSeq(s) == \E S : s \in Seq(S)

LEMMA SeqFacts ==
  ASSUME NEW s, IsSeq(s)
  PROVE  /\ Len(s) \in Nat /\ DOMAIN s = 1..Len(s)
         /\ ToSet(s) = {s[j] : j \in 1..Len(s)}
         /\ (s = <<>> <=> Len(s) = 0)
<1>1. PICK S : s \in Seq(S)
  BY DEF IsSeq
<1>2. Len(s) \in Nat /\ DOMAIN s = 1..Len(s)
  BY <1>1, LenProperties
<1>3. s = <<>> <=> Len(s) = 0
  BY <1>1, EmptySeq
<1> QED BY <1>2, <1>3 DEF ToSet

LEMMA AppendFacts ==
  ASSUME NEW s, IsSeq(s), NEW e
  PROVE  /\ IsSeq(Append(s, e)) /\ Len(Append(s, e)) = Len(s) + 1
         /\ \A j \in 1..Len(s) : Append(s, e)[j] = s[j]
         /\ Append(s, e)[Len(s) + 1] = e
<1>1. PICK S : s \in Seq(S)
  BY DEF IsSeq
<1>2. s \in Seq(S \cup {e})
  BY <1>1
<1>3. Append(s, e) \in Seq(S \cup {e})
  BY <1>2
<1> QED BY <1>2, <1>3 DEF IsSeq

-----------------------------------------------------------------------------
(* Each place of P is that of one entry of s, and every entry has one.     *)
Matches(s, P) ==
  \E w \in [1..Len(s) -> P] :
    /\ \A a, b \in 1..Len(s) : w[a] = w[b] => a = b
    /\ \A p \in P : \E a \in 1..Len(s) : w[a] = p
    /\ \A a \in 1..Len(s) : s[a].pos = w[a].pos

LEMMA MatchesEmpty == Matches(<<>>, {})
<1> DEFINE w == [a \in 1..0 |-> 0]
<1>1. Len(<<>>) = 0 /\ 1..0 = {}
  OBVIOUS
<1>2. w \in [1..Len(<<>>) -> {}]
  BY <1>1
<1> QED BY <1>1, <1>2 DEF Matches

LEMMA MatchesJoin ==
  ASSUME NEW S, NEW s \in Seq(S), NEW t \in Seq(S), NEW P, NEW Q,
         Matches(s, P), Matches(t, Q), P \cap Q = {}
  PROVE  Matches(s \o t, P \cup Q)
<1>1. PICK u \in [1..Len(s) -> P] :
        /\ \A a, b \in 1..Len(s) : u[a] = u[b] => a = b
        /\ \A p \in P : \E a \in 1..Len(s) : u[a] = p
        /\ \A a \in 1..Len(s) : s[a].pos = u[a].pos
  BY DEF Matches
<1>2. PICK v \in [1..Len(t) -> Q] :
        /\ \A a, b \in 1..Len(t) : v[a] = v[b] => a = b
        /\ \A p \in Q : \E a \in 1..Len(t) : v[a] = p
        /\ \A a \in 1..Len(t) : t[a].pos = v[a].pos
  BY DEF Matches
<1> DEFINE m == Len(s)
           n == Len(t)
           w == [a \in 1..(m + n) |-> IF a <= m THEN u[a] ELSE v[a - m]]
<1>3. m \in Nat /\ n \in Nat /\ Len(s \o t) = m + n /\ s \o t \in Seq(S)
  OBVIOUS
<1>4. \A a \in 1..(m + n) : a <= m => a \in 1..m /\ (s \o t)[a] = s[a]
  OBVIOUS
<1>5. \A a \in 1..(m + n) : ~(a <= m) => a - m \in 1..n /\ (s \o t)[a] = t[a - m]
  OBVIOUS
<1>6. (\A a \in 1..m : a \in 1..(m + n) /\ a <= m)
      /\ \A a \in 1..n : a + m \in 1..(m + n) /\ ~(a + m <= m) /\ (a + m) - m = a
  BY <1>3
<1>7. \A a \in 1..(m + n) : a \in Int /\ m \in Int
  BY <1>3
<1> HIDE DEF m, n
<1>8. w \in [1..(m + n) -> P \cup Q]
  BY <1>4, <1>5, <1>1, <1>2 DEF m, n
<1>9. ASSUME NEW a \in 1..(m + n), NEW b \in 1..(m + n), w[a] = w[b] PROVE a = b
  <2>1. CASE a <= m /\ b <= m
    BY <2>1, <1>9, <1>1, <1>4 DEF m
  <2>2. CASE ~(a <= m) /\ ~(b <= m)
    <3>1. a - m = b - m
      BY <2>2, <1>9, <1>2, <1>5 DEF n
    <3> QED BY <3>1, <1>7
  <2>3. CASE a <= m /\ ~(b <= m)
    <3>1. w[a] \in P /\ w[b] \in Q
      BY <2>3, <1>1, <1>2, <1>4, <1>5 DEF m, n
    <3> QED BY <3>1, <1>9
  <2>4. CASE ~(a <= m) /\ b <= m
    <3>1. w[b] \in P /\ w[a] \in Q
      BY <2>4, <1>1, <1>2, <1>4, <1>5 DEF m, n
    <3> QED BY <3>1, <1>9
  <2> QED BY <2>1, <2>2, <2>3, <2>4
<1>10. ASSUME NEW p \in P \cup Q PROVE \E a \in 1..(m + n) : w[a] = p
  <2>1. CASE p \in P
    <3>1. PICK a \in 1..m : u[a] = p
      BY <2>1, <1>1 DEF m
    <3> QED BY <3>1, <1>6
  <2>2. CASE p \in Q
    <3>1. PICK a \in 1..n : v[a] = p
      BY <2>2, <1>2 DEF n
    <3>2. a + m \in 1..(m + n) /\ w[a + m] = p
      BY <3>1, <1>6
    <3> QED BY <3>2
  <2> QED BY <2>1, <2>2
<1>11. ASSUME NEW a \in 1..(m + n) PROVE (s \o t)[a].pos = w[a].pos
  <2>1. CASE a <= m
    BY <2>1, <1>1, <1>4 DEF m
  <2>2. CASE ~(a <= m)
    BY <2>2, <1>2, <1>5 DEF n
  <2> QED BY <2>1, <2>2
<1>12. Len(s \o t) = m + n
  BY <1>3
<1> HIDE DEF w
<1>13. /\ w \in [1..Len(s \o t) -> P \cup Q]
       /\ \A a, b \in 1..Len(s \o t) : w[a] = w[b] => a = b
       /\ \A p \in P \cup Q : \E a \in 1..Len(s \o t) : w[a] = p
       /\ \A a \in 1..Len(s \o t) : (s \o t)[a].pos = w[a].pos
  BY ONLY <1>12, <1>8, <1>9, <1>10, <1>11
<1> QED BY ONLY <1>13 DEF Matches

LEMMA MatchesOne ==
  ASSUME NEW e, NEW p, e.pos = p.pos
  PROVE  Matches(<<e>>, {p})
<1> DEFINE w == [a \in 1..1 |-> p]
<1>1. Len(<<e>>) = 1 /\ <<e>>[1] = e /\ 1..1 = {1}
  OBVIOUS
<1>2. w \in [1..Len(<<e>>) -> {p}] /\ w[1] = p
  BY <1>1
<1> QED BY <1>1, <1>2 DEF Matches

LEMMA MatchesSame ==
  ASSUME NEW s, NEW t, NEW P, Matches(s, P), Len(t) = Len(s),
         \A a \in 1..Len(s) : t[a].pos = s[a].pos
  PROVE  Matches(t, P)
BY DEF Matches

(* As many of the entries as of the places are at x. *)
EntriesAt(s, x) == {j \in DOMAIN s : s[j].pos = x}
PlacesAt(P, x) == {p \in P : p.pos = x}

LEMMA MatchesCount ==
  ASSUME NEW s, IsSeq(s), NEW P, Matches(s, P), NEW x
  PROVE  Cardinality(EntriesAt(s, x)) = Cardinality(PlacesAt(P, x))
<1>1. PICK w \in [1..Len(s) -> P] :
        /\ \A a, b \in 1..Len(s) : w[a] = w[b] => a = b
        /\ \A p \in P : \E a \in 1..Len(s) : w[a] = p
        /\ \A a \in 1..Len(s) : s[a].pos = w[a].pos
  BY DEF Matches
<1> DEFINE A == {j \in DOMAIN s : s[j].pos = x}
           B == {p \in P : p.pos = x}
           f == [j \in A |-> w[j]]
<1>2. Len(s) \in Nat /\ DOMAIN s = 1..Len(s)
  BY SeqFacts
<1>3. IsFiniteSet(A)
  <2>1. IsFiniteSet(1..Len(s)) /\ A \subseteq 1..Len(s)
    BY <1>2, FS_Interval
  <2> QED BY <2>1, FS_Subset
<1>4. f \in Bijection(A, B)
  <2>1. f \in [A -> B]
    BY <1>1, <1>2
  <2>2. \A a, b \in A : f[a] = f[b] => a = b
    BY <1>1, <1>2
  <2>3. \A p \in B : \E a \in A : f[a] = p
    BY <1>1, <1>2
  <2> HIDE DEF f, A, B
  <2> QED BY <2>1, <2>2, <2>3, Fun_IsBij
<1>5. ExistsBijection(A, B)
  <2> HIDE DEF f, A, B
  <2> QED BY <1>4 DEF ExistsBijection
<1> HIDE DEF A, B
<1>6. Cardinality(A) = Cardinality(B)
  BY <1>3, <1>5, FS_Bijection
<1> QED BY <1>6 DEF A, B, EntriesAt, PlacesAt

-----------------------------------------------------------------------------
(* The numbers of the entries go up, from lo to below hi.                  *)
Rising(s, lo, hi) ==
  /\ \A a \in 1..Len(s) : lo <= s[a].number /\ s[a].number < hi
  /\ \A a, b \in 1..Len(s) : a < b => s[a].number < s[b].number

LEMMA RisingJoin ==
  ASSUME NEW s \in Seq(Partition), NEW t \in Seq(Partition),
         NEW lo \in Nat, NEW mid \in Nat, NEW hi \in Nat,
         lo <= mid, mid <= hi, Rising(s, lo, mid), Rising(t, mid, hi)
  PROVE  Rising(s \o t, lo, hi)
<1> DEFINE m == Len(s)
           n == Len(t)
<1>1. m \in Nat /\ n \in Nat /\ Len(s \o t) = m + n
  OBVIOUS
<1>2. \A a \in 1..(m + n) : a \in Int /\ (a <= m => a \in 1..m /\ (s \o t)[a] = s[a])
  OBVIOUS
<1>3. \A a \in 1..(m + n) : ~(a <= m) => a - m \in 1..n /\ (s \o t)[a] = t[a - m]
  OBVIOUS
<1>4. (\A a \in 1..m : s[a].number \in Nat) /\ \A a \in 1..n : t[a].number \in Nat
  <2>1. (\A a \in 1..m : s[a] \in Partition) /\ \A a \in 1..n : t[a] \in Partition
    BY ElementOfSeq
  <2> QED BY <2>1 DEF Partition
<1>5. /\ \A a \in 1..m : lo <= s[a].number /\ s[a].number < mid
      /\ \A a, b \in 1..m : a < b => s[a].number < s[b].number
  BY DEF Rising
<1>6. /\ \A a \in 1..n : mid <= t[a].number /\ t[a].number < hi
      /\ \A a, b \in 1..n : a < b => t[a].number < t[b].number
  BY DEF Rising
<1> DEFINE u == s \o t
<1> HIDE DEF m, n, u
<1>7. ASSUME NEW a \in 1..(m + n) PROVE lo <= u[a].number /\ u[a].number < hi
  <2>1. CASE a <= m
    <3>1. u[a] = s[a] /\ a \in 1..m
      BY <2>1, <1>2 DEF u
    <3> QED BY <3>1, <1>4, <1>5
  <2>2. CASE ~(a <= m)
    <3>1. u[a] = t[a - m] /\ a - m \in 1..n
      BY <2>2, <1>3 DEF u
    <3> QED BY <3>1, <1>4, <1>6
  <2> QED BY <2>1, <2>2
<1>8. ASSUME NEW a \in 1..(m + n), NEW b \in 1..(m + n), a < b
      PROVE  u[a].number < u[b].number
  <2>1. CASE b <= m
    <3>1. a <= m
      BY <2>1, <1>8, <1>2, <1>1
    <3> QED BY <2>1, <3>1, <1>8, <1>2, <1>5 DEF u
  <2>2. CASE a <= m /\ ~(b <= m)
    <3>1. u[a].number \in Nat /\ u[a].number < mid
      BY <2>2, <1>2, <1>4, <1>5 DEF u
    <3>2. u[b].number \in Nat /\ mid <= u[b].number
      BY <2>2, <1>3, <1>4, <1>6 DEF u
    <3> QED BY <3>1, <3>2
  <2>3. CASE ~(a <= m) /\ ~(b <= m)
    <3>1. a - m \in 1..n /\ b - m \in 1..n /\ u[a] = t[a - m] /\ u[b] = t[b - m]
      BY <2>3, <1>3 DEF u
    <3>2. a - m < b - m
      BY <1>8, <1>1
    <3> QED BY <3>1, <3>2, <1>6
  <2> QED BY <2>1, <2>2, <2>3
<1> QED BY <1>1, <1>7, <1>8 DEF Rising, u

LEMMA FunctionIsSeq ==
  ASSUME NEW S, NEW n \in Nat, NEW s \in [1..n -> S]
  PROVE  s \in Seq(S) /\ Len(s) = n
OBVIOUS

(* Four sequences, one after the other. *)
LEMMA FlattenFour ==
  ASSUME NEW S, NEW s \in [1..4 -> Seq(S)]
  PROVE  FlattenSeq(s) = ((s[1] \o s[2]) \o s[3]) \o s[4]
<1>1. s \in Seq(Seq(S)) /\ Len(s) = 4 /\ s # <<>>
  <2>1. 4 \in Nat
    OBVIOUS
  <2>2. s \in Seq(Seq(S)) /\ Len(s) = 4
    BY ONLY <2>1, s \in [1..4 -> Seq(S)], FunctionIsSeq
  <2>3. ASSUME s = <<>> PROVE FALSE
    <3>1. Len(<<>>) = 4
      BY <2>2, <2>3
    <3>2. Len(<<>>) = 0
      BY EmptySeq
    <3> QED BY ONLY <3>1, <3>2
  <2>4. s # <<>>
    BY <2>3
  <2> QED BY <2>2, <2>4
<1>2. PICK f \in [1..Len(s) -> Seq(S)] :
        /\ FlattenSeq(s) = f[Len(s)]
        /\ \A i \in 1..Len(s) : f[i] = IF i = 1 THEN s[i] ELSE f[i - 1] \o s[i]
  BY <1>1, FlattenIsRecursive
<1>3. FlattenSeq(s) = f[4] /\ \A i \in 1..4 : f[i] = IF i = 1 THEN s[i] ELSE f[i - 1] \o s[i]
  BY <1>1, <1>2
<1>4. f[1] = s[1] /\ f[2] = f[1] \o s[2] /\ f[3] = f[2] \o s[3] /\ f[4] = f[3] \o s[4]
  <2>1. 1 \in 1..4 /\ 2 \in 1..4 /\ 3 \in 1..4 /\ 4 \in 1..4
        /\ 2 - 1 = 1 /\ 3 - 1 = 2 /\ 4 - 1 = 3 /\ 2 # 1 /\ 3 # 1 /\ 4 # 1
    OBVIOUS
  <2> QED BY <1>3, <2>1
<1> QED BY <1>3, <1>4

LEMMA FlattenIsSeq ==
  ASSUME NEW S, NEW s \in Seq(Seq(S))
  PROVE  FlattenSeq(s) \in Seq(S)
<1>1. Len(s) \in Nat /\ \A j \in 1..Len(s) : Len(s[j]) \in Nat
  BY LenProperties, ElementOfSeq
<1>2. PICK b : Begins(b, s)
  BY <1>1, BeginsExist
<1> QED BY <1>2, FlattenFacts

-----------------------------------------------------------------------------
IsDisk(d) ==
  /\ d = [index |-> d.index, style |-> d.style, protective |-> d.protective,
          mbr |-> d.mbr, ebrs |-> d.ebrs, gpt |-> d.gpt, about |-> d.about,
          volumes |-> d.volumes, virtual |-> d.virtual]
  /\ d.index \in Nat /\ d.style \in Styles /\ d.protective \in BOOLEAN
  /\ d.mbr \in [1..4 -> MbrEntry] /\ d.ebrs \in Seq(MbrEntry) /\ Len(d.ebrs) <= MaxEbrs
  /\ d.gpt \in Seq(GptEntry)
  /\ IsSeq(d.volumes) /\ \A j \in 1..Len(d.volumes) : d.volumes[j].pos \in Nat
  /\ d.virtual \in BOOLEAN

Building == {"mbr", "ext", "ebr", "gpt", "entries", "info", "layout", "volumes"}
Done == {"listed", "failed", "over"}

TypeInv ==
  /\ machine \in Machines /\ command \in Commands
  /\ pc \in {"list", "probe", "virtual"} \cup Building \cup Done
  /\ probe \in [i : Nat, bound : Nat, last : BOOLEAN]
  /\ probe.last => probe.i <= probe.bound
  /\ IsDisk(disk) /\ ~disk.virtual
  /\ ext \in [i : 1..5, at : Nat, last : Nat]
  /\ pc \in Building => disk.index = probe.i /\ probe.i \in DOMAIN machine.drives
                       /\ (probe.last => probe.i < probe.bound)
  /\ pc = "mbr" => disk = NewDisk(probe.i)
  /\ pc = "ebr" => ext.i \in 1..4
  /\ pc = "entries" => todo \in Seq(Seq(GptEntry))
  /\ pc = "volumes" => todo \in Seq(Partition)
  /\ IsSeq(disks) /\ \A j \in 1..Len(disks) : IsDisk(disks[j])
  /\ calls \in 0..2 /\ (pc \notin Done => calls \in 0..1)
  /\ pc # "over" => result = Nothing

LEMMA MachineFacts ==
  ASSUME machine \in Machines
  PROVE  /\ IsFiniteSet(DOMAIN machine.drives) /\ DOMAIN machine.drives \subseteq Nat
         /\ \A n \in DOMAIN machine.drives : IsDrive(machine.drives[n])
         /\ IsOs(machine.os)
BY ScanAssumption DEF IsMachine

LEMMA DriveIsDrive == TypeInv /\ pc \in Building => IsDrive(Drive)
BY MachineFacts DEF TypeInv, Drive

LEMMA UnusedEntry == Unused \in MbrEntry /\ Unused.type = 0
<1>1. Lba \in Nat /\ 0 \in 0..(Lba - 1)
  BY ScanAssumption
<1> QED BY <1>1 DEF Unused, MbrEntry

LEMMA NewDiskFacts == \A n \in Nat : IsDisk(NewDisk(n)) /\ ~NewDisk(n).virtual
<1> TAKE n \in Nat
<1> DEFINE d == NewDisk(n)
<1>1. NoMbr \in [1..4 -> MbrEntry]
  BY UnusedEntry DEF NoMbr
<1>2. /\ <<>> \in Seq(MbrEntry) /\ <<>> \in Seq(GptEntry) /\ <<>> \in Seq({})
      /\ Len(<<>>) = 0 /\ 0 <= MaxEbrs
  BY ScanAssumption
<1>3. d = [index |-> n, style |-> "raw", protective |-> FALSE, mbr |-> NoMbr,
           ebrs |-> <<>>, gpt |-> <<>>, about |-> {}, volumes |-> <<>>,
           virtual |-> FALSE]
  BY DEF NewDisk
<1> HIDE DEF d
<1>4. IsSeq(<<>>) /\ 1..0 = {}
  BY <1>2 DEF IsSeq
<1>5. d.volumes = <<>> /\ d.virtual = FALSE /\ d.index = n /\ d.style = "raw"
      /\ d.protective = FALSE /\ d.mbr = NoMbr /\ d.ebrs = <<>> /\ d.gpt = <<>>
  BY <1>3
<1>6. d = [index |-> d.index, style |-> d.style, protective |-> d.protective,
           mbr |-> d.mbr, ebrs |-> d.ebrs, gpt |-> d.gpt, about |-> d.about,
           volumes |-> d.volumes, virtual |-> d.virtual]
  BY <1>3
<1>7. /\ d.mbr \in [1..4 -> MbrEntry] /\ d.ebrs \in Seq(MbrEntry) /\ d.gpt \in Seq(GptEntry)
      /\ Len(d.ebrs) <= MaxEbrs /\ d.index \in Nat /\ d.protective \in BOOLEAN
  BY ONLY <1>1, <1>2, <1>5, n \in Nat
<1>8. IsSeq(d.volumes) /\ \A j \in 1..Len(d.volumes) : d.volumes[j].pos \in Nat
  BY ONLY <1>2, <1>4, <1>5
<1>9. IsDisk(d)
  BY <1>5, <1>6, <1>7, <1>8 DEF IsDisk, Styles
<1> QED BY <1>5, <1>9 DEF d

LEMMA TypeInit == Init => TypeInv
<1> SUFFICES ASSUME Init PROVE TypeInv
  OBVIOUS
<1>1. IsDisk(disk) /\ ~disk.virtual
  BY NewDiskFacts DEF Init, NoDisk
<1>2. <<>> \in Seq({}) /\ Len(<<>>) = 0 /\ 1..0 = {}
  OBVIOUS
<1>3. IsSeq(disks) /\ \A j \in 1..Len(disks) : IsDisk(disks[j])
  BY <1>2 DEF Init, IsSeq
<1>4. ext \in [i : 1..5, at : Nat, last : Nat]
  BY DEF Init, NoExt
<1>5. probe \in [i : Nat, bound : Nat, last : BOOLEAN] /\ ~probe.last
  BY DEF Init
<1> QED BY <1>1, <1>3, <1>4, <1>5 DEF Init, TypeInv, Building, Done

-----------------------------------------------------------------------------
FoundName(os, n, p, name) ==
  IF name # NoName THEN name ELSE FindVolumeName(os, n, p.pos, p.len)

LEMMA DetectedFacts ==
  ASSUME NEW boot, NEW pos, NEW sound \in BOOLEAN, NEW d \in Detected(boot, pos, sound)
  PROVE  /\ d.boot \in {boot, "zeros"}
         /\ ~SeekSeen(pos) => d.boot = "zeros"
         /\ sound /\ SeekSeen(pos) => d.boot = boot
<1> DEFINE unread == {TRUE} \ {sound /\ SeekSeen(pos)}
           dying == IF SeekSeen(pos) THEN FveBlockDies(boot) ELSE {}
<1>1. \/ \E x \in unread : d = [boot |-> "zeros", dies |-> FALSE]
      \/ \E x \in dying : d = [boot |-> boot, dies |-> x]
  BY DEF Detected
<1>2. unread # {} => ~(sound /\ SeekSeen(pos))
  OBVIOUS
<1>3. dying # {} => SeekSeen(pos)
  OBVIOUS
<1> HIDE DEF unread, dying
<1> QED BY <1>1, <1>2, <1>3

LEMMA MadeFacts ==
  ASSUME NEW os, NEW n, NEW p, NEW boot, NEW sound, sound \in BOOLEAN, NEW name,
         NEW m \in MakeVolume(os, n, p, boot, sound, name)
  PROVE  /\ m.volume.index = p.number /\ m.volume.pos = p.pos /\ m.volume.len = p.len
         /\ m.volume.name = FoundName(os, n, p, name)
         /\ m.volume.about \in InfoByName(os, FoundName(os, n, p, name))
         /\ \E b \in {boot, "zeros"} :
              /\ ~SeekSeen(p.pos) => b = "zeros"
              /\ sound /\ SeekSeen(p.pos) => b = boot
              /\ m.volume.fs = Filesystem(b, p.style, p.type)
<1>1. PICK d \in Detected(boot, p.pos, sound),
           about \in InfoByName(os, FoundName(os, n, p, name)) :
        /\ m.volume.index = p.number /\ m.volume.pos = p.pos /\ m.volume.len = p.len
        /\ m.volume.name = FoundName(os, n, p, name) /\ m.volume.about = about
        /\ m.volume.fs = Filesystem(d.boot, p.style, p.type)
  BY DEF MakeVolume, FoundName
<1>2. /\ d.boot \in {boot, "zeros"}
      /\ ~SeekSeen(p.pos) => d.boot = "zeros"
      /\ sound /\ SeekSeen(p.pos) => d.boot = boot
  BY DetectedFacts
<1> QED BY <1>1, <1>2

LEMMA PartFacts ==
  ASSUME NEW style \in Styles, NEW e \in MbrEntry \cup GptEntry, NEW n \in Nat
  PROVE  /\ Part(style, e, n) \in Partition
         /\ Part(style, e, n).number = n /\ Part(style, e, n).pos = e.pos
<1>1. e.type \in Nat /\ e.pos \in Nat /\ e.len \in Nat /\ e.active \in BOOLEAN
  <2>1. CASE e \in MbrEntry
    <3>1. e.type \in 0..255 /\ e.pos \in 0..(Lba - 1) /\ e.len \in 0..(Lba - 1)
          /\ e.active \in BOOLEAN
      BY <2>1 DEF MbrEntry
    <3> QED BY <3>1, ScanAssumption
  <2>2. CASE e \in GptEntry
    BY <2>2 DEF GptEntry
  <2> QED BY <2>1, <2>2
<1> QED BY <1>1 DEF Part, Partition

LEMMA NumberedFacts ==
  ASSUME NEW style \in Styles, NEW es, es \in Seq(MbrEntry) \/ es \in Seq(GptEntry),
         NEW first \in Nat
  PROVE  /\ Numbered(style, es, first) \in Seq(Partition)
         /\ Len(Numbered(style, es, first)) = Len(es)
         /\ \A i \in 1..Len(es) : /\ Numbered(style, es, first)[i].pos = es[i].pos
                                /\ Numbered(style, es, first)[i].number = first + i - 1
<1> DEFINE n == Len(es)
           N == Numbered(style, es, first)
<1>1. n \in Nat /\ DOMAIN es = 1..n /\ \A i \in 1..n : es[i] \in MbrEntry \cup GptEntry
  BY LenProperties, ElementOfSeq
<1>2. N = [i \in 1..n |-> Part(style, es[i], first + i - 1)]
  BY <1>1 DEF Numbered
<1> HIDE DEF n, N
<1>3. ASSUME NEW i \in 1..n PROVE N[i] \in Partition /\ N[i].pos = es[i].pos
                                  /\ N[i].number = first + i - 1
  <2>1. first + i - 1 \in Nat
    BY <1>1
  <2>2. N[i] = Part(style, es[i], first + i - 1)
    BY <1>2
  <2> QED BY <1>1, <2>1, <2>2, PartFacts
<1>4. N \in [1..n -> Partition]
  BY <1>2, <1>3
<1>5. N \in Seq(Partition) /\ Len(N) = n
  BY <1>1, <1>4, FunctionIsSeq
<1> QED BY <1>3, <1>5 DEF n, N

LEMMA UnreadFacts ==
  ASSUME NEW os, NEW v, NEW boot, NEW sound, sound \in BOOLEAN, NEW name,
         NEW m, m \in MakeVolume(os, 0, Whole(v), boot, sound, name)
  PROVE  m.volume.pos = 0 /\ ~IsNtfs(m.volume)
<1>1. Whole(v).pos = 0 /\ Whole(v).style = "raw"
  BY DEF Whole
<1>2. ~SeekSeen(0)
  <2>1. SeekWord \in Nat \ {0} /\ 0 % SeekWord = 0
    BY SeekAssumption
  <2> QED BY <2>1 DEF SeekSeen
<1>3. /\ m.volume.pos = Whole(v).pos
      /\ \E b \in {boot, "zeros"} :
           /\ ~SeekSeen(Whole(v).pos) => b = "zeros"
           /\ m.volume.fs = Filesystem(b, Whole(v).style, Whole(v).type)
  BY MadeFacts
<1>4. m.volume.fs = "Unknown"
  BY <1>1, <1>2, <1>3 DEF Filesystem
<1> QED BY <1>1, <1>3, <1>4 DEF IsNtfs

LEMMA VirtualFacts ==
  ASSUME NEW v, NEW d \in Outcome(v)
  PROVE  /\ IsDisk(d) /\ d.virtual
         /\ \A j \in 1..Len(d.volumes) : d.volumes[j].pos = 0 /\ ~IsNtfs(d.volumes[j])
<1>0. 0 \in Nat /\ IsDisk(NewDisk(0))
  BY NewDiskFacts
<1>1. PICK made : /\ d = Virtual(v, made)
                  /\ \/ made = <<>>
                     \/ \E m \in MakeVolume(machine.os, 0, Whole(v), v.boot, FALSE, v.name) :
                          made = <<m.volume>>
  BY DEF Outcome
<1>2. IsSeq(made) /\ \A j \in 1..Len(made) : made[j].pos = 0 /\ ~IsNtfs(made[j])
  <2>1. CASE made = <<>>
    <3>1. <<>> \in Seq({}) /\ Len(<<>>) = 0 /\ 1..0 = {}
      OBVIOUS
    <3> QED BY <2>1, <3>1 DEF IsSeq
  <2>2. ASSUME NEW m \in MakeVolume(machine.os, 0, Whole(v), v.boot, FALSE, v.name),
               made = <<m.volume>>
        PROVE  IsSeq(made) /\ \A j \in 1..Len(made) : made[j].pos = 0 /\ ~IsNtfs(made[j])
    <3> DEFINE vol == m.volume
    <3>1. FALSE \in BOOLEAN /\ m \in MakeVolume(machine.os, 0, Whole(v), v.boot, FALSE, v.name)
      BY <2>2
    <3>2. vol.pos = 0 /\ ~IsNtfs(vol)
      BY <3>1, UnreadFacts, Zenon
    <3> HIDE DEF vol
    <3>7. <<vol>> \in Seq({vol}) /\ Len(<<vol>>) = 1 /\ <<vol>>[1] = vol /\ 1..1 = {1}
      OBVIOUS
    <3>8. IsSeq(<<vol>>) /\ \A j \in 1..Len(<<vol>>) : <<vol>>[j] = vol
      BY ONLY <3>7 DEF IsSeq
    <3>9. made = <<vol>>
      BY <2>2 DEF vol
    <3> QED BY ONLY <3>2, <3>8, <3>9
  <2> QED BY <1>1, <2>1, <2>2
<1>3. d = [NewDisk(0) EXCEPT !.volumes = made, !.virtual = TRUE, !.about = {"product"}]
  BY <1>1 DEF Virtual
<1> DEFINE n == NewDisk(0)
<1> HIDE DEF n
<1>4. IsDisk(n) /\ d = [n EXCEPT !.volumes = made, !.virtual = TRUE, !.about = {"product"}]
  BY <1>0, <1>3 DEF n
<1>5. /\ d.volumes = made /\ d.virtual = TRUE /\ d.index = n.index /\ d.style = n.style
      /\ d.protective = n.protective /\ d.mbr = n.mbr /\ d.ebrs = n.ebrs /\ d.gpt = n.gpt
      /\ d = [index |-> d.index, style |-> d.style, protective |-> d.protective,
              mbr |-> d.mbr, ebrs |-> d.ebrs, gpt |-> d.gpt, about |-> d.about,
              volumes |-> d.volumes, virtual |-> d.virtual]
  BY <1>4 DEF IsDisk
<1>6. \A j \in 1..Len(d.volumes) : d.volumes[j].pos \in Nat
  BY <1>2, <1>5
<1>7. IsDisk(d)
  BY <1>2, <1>4, <1>5, <1>6 DEF IsDisk
<1> QED BY <1>2, <1>5, <1>7

-----------------------------------------------------------------------------
(* What the entries of the table before the i-th make of the numbers.      *)
LEMMA BeforeFacts ==
  ASSUME NEW d, NEW types, NEW i \in 1..4
  PROVE  /\ Before(d, i, types) \in Nat
         /\ Before(d, i + 1, types) =
              IF d.mbr[i].type \in types THEN Before(d, i, types) + 1 ELSE Before(d, i, types)
<1> DEFINE A == {h \in 1..(i - 1) : d.mbr[h].type \in types}
           B == {h \in 1..((i + 1) - 1) : d.mbr[h].type \in types}
<1>1. IsFiniteSet(A) /\ Cardinality(A) \in Nat
  <2>1. IsFiniteSet(1..(i - 1))
    BY FS_Interval
  <2>2. IsFiniteSet(A)
    BY <2>1, FS_Subset
  <2> QED BY <2>2, FS_CardinalityType
<1>2. (i + 1) - 1 = i /\ 1..i = (1..(i - 1)) \cup {i} /\ i \notin 1..(i - 1)
  OBVIOUS
<1>3. B = IF d.mbr[i].type \in types THEN A \cup {i} ELSE A
  BY <1>2
<1>4. i \notin A
  BY <1>2
<1> HIDE DEF A, B
<1>5. Cardinality(A \cup {i}) = Cardinality(A) + 1
  BY <1>1, <1>4, FS_AddElement
<1>6. Cardinality(B) = IF d.mbr[i].type \in types THEN Cardinality(A) + 1 ELSE Cardinality(A)
  BY <1>3, <1>5
<1>7. Before(d, i, types) = Cardinality(A) /\ Before(d, i + 1, types) = Cardinality(B)
  BY DEF A, B, Before
<1> QED BY <1>1, <1>6, <1>7

LEMMA ProductFacts ==
  ASSUME NEW b \in Nat, NEW l \in Nat
  PROVE  b * l \in Nat /\ (b + 1) * l = b * l + l
OBVIOUS

LEMMA FirstFacts ==
  ASSUME NEW d, IsDisk(d), NEW i \in 1..4
  PROVE  /\ FirstNumber(d, i) \in Nat
         /\ d.mbr[i].type = 0 => FirstNumber(d, i + 1) = FirstNumber(d, i)
         /\ d.mbr[i].type = 15 => FirstNumber(d, i + 1) = FirstNumber(d, i) + 1 + Len(d.ebrs)
         /\ d.mbr[i].type \notin {0, 15} => FirstNumber(d, i + 1) = FirstNumber(d, i) + 1
<1> DEFINE u == Before(d, i, 1..255)
           c == Before(d, i, {15})
           u2 == Before(d, i + 1, 1..255)
           c2 == Before(d, i + 1, {15})
           l == Len(d.ebrs)
           t == d.mbr[i].type
<1>1. l \in Nat /\ t \in 0..255
  <2>1. d.mbr[i] \in MbrEntry /\ d.ebrs \in Seq(MbrEntry)
    BY DEF IsDisk
  <2> QED BY <2>1, LenProperties DEF MbrEntry
<1>2. /\ u \in Nat /\ u2 = IF t \in 1..255 THEN u + 1 ELSE u
      /\ c \in Nat /\ c2 = IF t \in {15} THEN c + 1 ELSE c
  BY BeforeFacts
<1>3. FirstNumber(d, i) = u + c * l /\ FirstNumber(d, i + 1) = u2 + c2 * l
  BY DEF FirstNumber
<1> HIDE DEF u, u2, c, c2, l, t
<1>4. c * l \in Nat /\ (c + 1) * l = c * l + l
  BY <1>1, <1>2, ProductFacts
<1> DEFINE p == c * l
           q == (c + 1) * l
           r == c2 * l
<1>5. p \in Nat /\ q = p + l /\ (t = 15 => r = q) /\ (t # 15 => r = p)
  BY <1>2, <1>4
<1>6. FirstNumber(d, i) = u + p /\ FirstNumber(d, i + 1) = u2 + r
  BY <1>3
<1> HIDE DEF p, q, r
<1>7. /\ FirstNumber(d, i) \in Nat
      /\ t = 0 => FirstNumber(d, i + 1) = FirstNumber(d, i)
      /\ t = 15 => FirstNumber(d, i + 1) = FirstNumber(d, i) + 1 + l
      /\ t \notin {0, 15} => FirstNumber(d, i + 1) = FirstNumber(d, i) + 1
  BY <1>1, <1>2, <1>5, <1>6
<1> QED BY <1>7 DEF t, l

-----------------------------------------------------------------------------
LEMMA StyleFacts == \A mbr : Style(mbr) \in Styles
BY DEF Style, Styles

LEMMA FallbackType == \A d : IsDisk(d) => Fallback(d) \in Seq(Partition)
<1> SUFFICES ASSUME NEW d, IsDisk(d) PROVE Fallback(d) \in Seq(Partition)
  OBVIOUS
<1>1. "mbr" \in Styles /\ "gpt" \in Styles /\ 0 \in Nat
  BY DEF Styles
<1>2. CASE d.protective
  <2>1. Numbered("gpt", d.gpt, 0) \in Seq(Partition)
    BY <1>1, NumberedFacts DEF IsDisk
  <2> QED BY <1>2, <2>1 DEF Fallback
<1>3. CASE ~d.protective
  <2> DEFINE s == [i \in 1..4 |-> OfEntry(d, i)]
  <2>1. ASSUME NEW i \in 1..4 PROVE OfEntry(d, i) \in Seq(Partition)
    <3>1. FirstNumber(d, i) \in Nat
      BY FirstFacts
    <3>2. d.ebrs \in Seq(MbrEntry) /\ <<d.mbr[i]>> \in Seq(MbrEntry)
      BY DEF IsDisk
    <3>3. FirstNumber(d, i) + 1 \in Nat
      BY <3>1
    <3> DEFINE k == FirstNumber(d, i)
               one == <<d.mbr[i]>>
               A == Numbered("mbr", d.ebrs, k + 1)
               B == Numbered("mbr", one, k)
    <3>4. k \in Nat /\ k + 1 \in Nat /\ one \in Seq(MbrEntry) /\ <<>> \in Seq(Partition)
      BY <3>1, <3>2, <3>3
    <3> HIDE DEF k, one
    <3>5. d.ebrs \in Seq(MbrEntry) \/ d.ebrs \in Seq(GptEntry)
      BY <3>2
    <3>6. one \in Seq(MbrEntry) \/ one \in Seq(GptEntry)
      BY <3>4
    <3>7. A \in Seq(Partition)
      BY <1>1, <3>4, <3>5, NumberedFacts
    <3>8. B \in Seq(Partition)
      BY <1>1, <3>4, <3>6, NumberedFacts
    <3>9. OfEntry(d, i) = <<>> \/ OfEntry(d, i) = A \/ OfEntry(d, i) = B
      BY DEF OfEntry, k, one
    <3> QED BY <3>4, <3>7, <3>8, <3>9
  <2>2. s \in [1..4 -> Seq(Partition)] /\ 4 \in Nat
    BY <2>1
  <2> HIDE DEF s
  <2>3. s \in Seq(Seq(Partition))
    BY <2>2, FunctionIsSeq
  <2>4. FlattenSeq(s) \in Seq(Partition)
    BY <2>3, FlattenIsSeq
  <2> QED BY <1>3, <2>4 DEF Fallback, s
<1> QED BY <1>2, <1>3

LEMMA GivenType ==
  ASSUME NEW parts \in Seq(Partition)
  PROVE  Given(parts) \in Seq(Partition)
<1> DEFINE n == Len(parts)
           s == [j \in 1..n |-> IF parts[j].len > 0 THEN <<parts[j]>> ELSE <<>>]
<1>1. n \in Nat /\ DOMAIN parts = 1..n /\ \A j \in 1..n : parts[j] \in Partition
  BY LenProperties, ElementOfSeq
<1>2. \A j \in 1..n : <<parts[j]>> \in Seq(Partition) /\ <<>> \in Seq(Partition)
  BY <1>1
<1>3. s \in [1..n -> Seq(Partition)]
  BY <1>2
<1>4. Given(parts) = FlattenSeq(s)
  BY <1>1 DEF Given
<1> HIDE DEF s, n
<1>5. s \in Seq(Seq(Partition))
  BY <1>1, <1>3, FunctionIsSeq
<1> QED BY <1>4, <1>5, FlattenIsSeq

(* A disk is made, or made anew, of its parts. *)
LEMMA MadeDisk ==
  ASSUME NEW n \in Nat, NEW s \in Styles, NEW p \in BOOLEAN, NEW m \in [1..4 -> MbrEntry],
         NEW e \in Seq(MbrEntry), Len(e) <= MaxEbrs, NEW g \in Seq(GptEntry), NEW a,
         NEW v, IsSeq(v), \A j \in 1..Len(v) : v[j].pos \in Nat, NEW x \in BOOLEAN,
         NEW d, d = [index |-> n, style |-> s, protective |-> p, mbr |-> m, ebrs |-> e,
                     gpt |-> g, about |-> a, volumes |-> v, virtual |-> x]
  PROVE  IsDisk(d)
<1>1. d.index = n /\ d.style = s /\ d.protective = p /\ d.mbr = m /\ d.ebrs = e
      /\ d.gpt = g /\ d.about = a /\ d.volumes = v /\ d.virtual = x
  OBVIOUS
<1>2. d = [index |-> d.index, style |-> d.style, protective |-> d.protective,
           mbr |-> d.mbr, ebrs |-> d.ebrs, gpt |-> d.gpt, about |-> d.about,
           volumes |-> d.volumes, virtual |-> d.virtual]
  BY <1>1
<1> QED BY <1>1, <1>2 DEF IsDisk

LEMMA HeadFacts ==
  ASSUME NEW S, NEW s \in Seq(S), s # <<>>
  PROVE  /\ Head(s) \in S /\ Head(s) = s[1] /\ Tail(s) \in Seq(S) /\ Len(s) >= 1
         /\ Len(Tail(s)) = Len(s) - 1
         /\ \A j \in 1..(Len(s) - 1) : Tail(s)[j] = s[j + 1]
OBVIOUS

LEMMA SubSeqFacts ==
  ASSUME NEW S, NEW s \in Seq(S), NEW n \in 0..Len(s)
  PROVE  /\ SubSeq(s, 1, n) \in Seq(S) /\ Len(SubSeq(s, 1, n)) = n
         /\ \A j \in 1..n : SubSeq(s, 1, n)[j] = s[j]
OBVIOUS

LEMMA MovedEntry ==
  ASSUME NEW e \in MbrEntry, NEW by \in Nat
  PROVE  /\ [e EXCEPT !.pos = (by + @) % Lba] \in MbrEntry
         /\ [e EXCEPT !.pos = (by + @) % Lba].pos = (by + e.pos) % Lba
<1>1. e.pos \in Nat /\ Lba \in Nat \ {0}
  BY ScanAssumption DEF MbrEntry
<1>2. (by + e.pos) % Lba \in 0..(Lba - 1)
  <2> DEFINE x == by + e.pos
  <2>1. x \in Nat
    BY <1>1
  <2> HIDE DEF x
  <2>2. x % Lba \in 0..(Lba - 1)
    BY <1>1, <2>1, ModRange
  <2> QED BY <2>2 DEF x
<1> DEFINE y == (by + e.pos) % Lba
<1> HIDE DEF y
<1>3. y \in 0..(Lba - 1)
  BY <1>2 DEF y
<1>4. [e EXCEPT !.pos = y] \in MbrEntry /\ [e EXCEPT !.pos = y].pos = y
  BY <1>3 DEF MbrEntry
<1> QED BY <1>4 DEF y

LEMMA EbrFacts ==
  ASSUME TypeInv, pc \in Building, NEW pos
  PROVE  Ebr(pos) \in EbrSector
<1>1. NoEbr \in EbrSector
  <2>1. 0 \in 0..(Lba - 1)
    BY ScanAssumption
  <2> QED BY <2>1, UnusedEntry DEF NoEbr, EbrSector
<1>2. \A p \in DOMAIN Drive.chain : Drive.chain[p] \in EbrSector
  BY DriveIsDrive DEF IsDrive
<1> QED BY <1>1, <1>2 DEF Ebr

LEMMA ReadMbrType == TypeInv /\ ReadMbr => TypeInv'
<1> SUFFICES ASSUME TypeInv, ReadMbr PROVE TypeInv'
  OBVIOUS
<1> USE DEF TypeInv, Building, Done
<1>1. IsDisk(disk) /\ disk.virtual = FALSE /\ pc = "mbr" /\ IsDrive(Drive)
  BY DriveIsDrive DEF ReadMbr, IsDisk
<1>2. IsDisk(disk') /\ ~disk'.virtual /\ disk'.index = disk.index
  <2>1. CASE disk' = disk
    BY <1>1, <2>1
  <2>2. CASE disk' = [disk EXCEPT !.mbr = Drive.mbr, !.style = Style(Drive.mbr),
                                !.protective = Style(Drive.mbr) = "gpt"]
    <3> DEFINE s == Style(Drive.mbr)
    <3>1. s \in Styles /\ Drive.mbr \in [1..4 -> MbrEntry] /\ (s = "gpt") \in BOOLEAN
      BY <1>1, StyleFacts DEF IsDrive
    <3> DEFINE p == s = "gpt"
    <3>2. s \in Styles /\ p \in BOOLEAN
      BY <3>1
    <3>3. disk' = [disk EXCEPT !.mbr = Drive.mbr, !.style = s, !.protective = p]
      BY <2>2
    <3> HIDE DEF s, p
    <3>4. disk' = [index |-> disk.index, style |-> s, protective |-> p, mbr |-> Drive.mbr,
                   ebrs |-> disk.ebrs, gpt |-> disk.gpt, about |-> disk.about,
                   volumes |-> disk.volumes, virtual |-> disk.virtual]
      BY <1>1, <3>3 DEF IsDisk
    <3>5. IsDisk(disk')
      BY ONLY <1>1, <3>1, <3>2, <3>4, MadeDisk DEF IsDisk
    <3> QED BY <1>1, <3>4, <3>5
  <2> QED BY <2>1, <2>2 DEF ReadMbr
<1>3. ext' \in [i : 1..5, at : Nat, last : Nat]
  BY DEF ReadMbr, NoExt
<1> QED BY <1>1, <1>2, <1>3 DEF ReadMbr, Goto

LEMMA ReadEbrType == TypeInv /\ ReadEbr => TypeInv'
<1> SUFFICES ASSUME TypeInv, ReadEbr PROVE TypeInv'
  OBVIOUS
<1> DEFINE e == Ebr(ext.at)
<1>1. /\ IsDisk(disk) /\ disk.virtual = FALSE /\ pc = "ebr" /\ pc \in Building
      /\ ext \in [i : 1..5, at : Nat, last : Nat] /\ ext.i \in 1..4
  BY DEF ReadEbr, IsDisk, TypeInv, Building
<1>2. e \in EbrSector
  BY <1>1, EbrFacts
<1>3. e.part \in MbrEntry /\ e.next \in Nat
  BY <1>2, ScanAssumption DEF EbrSector
<1>4. Entry.pos \in Nat
  <2>1. disk.mbr[ext.i] \in MbrEntry
    BY <1>1 DEF IsDisk
  <2> QED BY <2>1, ScanAssumption DEF Entry, MbrEntry
<1> HIDE DEF e
<1> DEFINE added == [e.part EXCEPT !.pos = (ext.last + @) % Lba]
           next == [ext EXCEPT !.i = @ + 1]
           at == Entry.pos + e.next
           far == [ext EXCEPT !.at = at, !.last = at % Lba]
<1>5. added \in MbrEntry
  BY <1>1, <1>3, MovedEntry
<1>6. at \in Nat /\ at % Lba \in Nat
  <2>1. at \in Nat
    BY <1>3, <1>4
  <2> HIDE DEF at
  <2> QED BY <2>1, ScanAssumption, ModRange
<1>7. Len(disk.ebrs) < MaxEbrs
      /\ \/ ext' = next /\ pc' = "ext" /\ disk' = disk
         \/ /\ disk' = [disk EXCEPT !.ebrs = Append(@, added)]
            /\ (ext' = far /\ pc' = pc) \/ (ext' = next /\ pc' = "ext")
  BY DEF ReadEbr, Goto, e
<1> HIDE DEF added, at
<1>8. next \in [i : 1..5, at : Nat, last : Nat] /\ far \in [i : 1..5, at : Nat, last : Nat]
      /\ far.i = ext.i
  <2>1. ext.i + 1 \in 1..5
    BY <1>1
  <2>2. next \in [i : 1..5, at : Nat, last : Nat]
    BY <1>1, <2>1
  <2> DEFINE low == at % Lba
  <2>3. at \in Nat /\ low \in Nat
    BY <1>6
  <2> HIDE DEF low
  <2>4. far \in [i : 1..5, at : Nat, last : Nat] /\ far.i = ext.i
    BY <1>1, <2>3 DEF low
  <2> QED BY <2>2, <2>4
<1> HIDE DEF next, far
<1>9. IsDisk(disk') /\ ~disk'.virtual /\ disk'.index = disk.index
  <2>1. CASE disk' = disk
    BY <1>1, <2>1
  <2>2. CASE disk' = [disk EXCEPT !.ebrs = Append(@, added)]
    <3> DEFINE more == Append(disk.ebrs, added)
    <3>1. more \in Seq(MbrEntry) /\ Len(more) = Len(disk.ebrs) + 1 /\ Len(disk.ebrs) \in Nat
      BY <1>1, <1>5 DEF IsDisk
    <3>2. Len(more) <= MaxEbrs
      BY <1>7, <3>1, ScanAssumption
    <3>3. disk' = [index |-> disk.index, style |-> disk.style, protective |-> disk.protective,
                   mbr |-> disk.mbr, ebrs |-> more, gpt |-> disk.gpt, about |-> disk.about,
                   volumes |-> disk.volumes, virtual |-> disk.virtual]
      BY <1>1, <2>2 DEF IsDisk
    <3> HIDE DEF more
    <3>4. IsDisk(disk')
      BY ONLY <1>1, <3>1, <3>2, <3>3, MadeDisk DEF IsDisk
    <3> QED BY <1>1, <3>3, <3>4
  <2> QED BY <1>7, <2>1, <2>2
<1>10. ext' \in [i : 1..5, at : Nat, last : Nat] /\ pc' \in {"ext", "ebr"}
       /\ (pc' = "ebr" => ext'.i \in 1..4)
  BY <1>1, <1>7, <1>8
<1> QED BY <1>1, <1>9, <1>10 DEF ReadEbr, TypeInv, Building, Done

LEMMA ReadHeaderType == TypeInv /\ ReadHeader => TypeInv'
<1> SUFFICES ASSUME TypeInv, ReadHeader PROVE TypeInv'
  OBVIOUS
<1>1. pc = "gpt" /\ IsDrive(Drive)
  BY DriveIsDrive DEF ReadHeader, Building
<1>2. CASE pc' = "entries"
  <2> DEFINE n == Min({GptSectors, Len(Drive.gpt)})
  <2>1. Drive.gpt \in Seq(Seq(GptEntry)) /\ Len(Drive.gpt) \in Nat
    BY <1>1 DEF IsDrive
  <2>2. n \in Nat /\ n <= Len(Drive.gpt)
    <3> DEFINE l == Len(Drive.gpt)
    <3>1. l \in Nat /\ GptSectors \in Nat
      BY <2>1, ScanAssumption
    <3> HIDE DEF l
    <3>2. Min({GptSectors, l}) \in Nat /\ Min({GptSectors, l}) <= l
      BY <3>1, MinOfTwo
    <3> QED BY <3>2 DEF l
  <2>3. todo' = SubSeq(Drive.gpt, 1, n)
    BY <1>2 DEF ReadHeader, Goto
  <2> HIDE DEF n
  <2>4. todo' \in Seq(Seq(GptEntry))
    <3>1. n \in 0..Len(Drive.gpt)
      BY <2>1, <2>2
    <3> QED BY <2>1, <2>3, <3>1, SubSeqFacts
  <2> QED BY <1>1, <1>2, <2>4 DEF ReadHeader, TypeInv, Building, Done
<1>3. CASE pc' = "info"
  BY <1>1, <1>3 DEF ReadHeader, TypeInv, Building, Done
<1> QED BY <1>2, <1>3 DEF ReadHeader, Goto

LEMMA ReadEntriesType == TypeInv /\ ReadEntries => TypeInv'
<1> SUFFICES ASSUME TypeInv, ReadEntries PROVE TypeInv'
  OBVIOUS
<1> DEFINE sector == Head(todo)
           unused == {i \in DOMAIN sector : sector[i].type = 0}
           used == IF unused = {} THEN sector ELSE SubSeq(sector, 1, Min(unused) - 1)
<1>1. /\ IsDisk(disk) /\ disk.virtual = FALSE /\ pc = "entries"
      /\ todo \in Seq(Seq(GptEntry)) /\ todo # <<>>
  BY DEF ReadEntries, IsDisk, TypeInv
<1>2. sector \in Seq(GptEntry) /\ Tail(todo) \in Seq(Seq(GptEntry))
      /\ <<>> \in Seq(Seq(GptEntry))
  BY <1>1, HeadFacts
<1>3. Len(sector) \in Nat /\ DOMAIN sector = 1..Len(sector)
  BY <1>2
<1>4. ASSUME unused # {} PROVE Min(unused) \in 1..Len(sector)
  <2>1. unused \subseteq Nat /\ unused \subseteq 1..Len(sector)
    BY <1>3
  <2> HIDE DEF unused
  <2>2. Min(unused) \in unused
    BY <1>4, <2>1, MinIsLeast
  <2> QED BY <2>1, <2>2
<1>5. used \in Seq(GptEntry)
  <2>1. CASE unused = {}
    BY <1>2, <2>1
  <2>2. CASE unused # {}
    <3> DEFINE n == Min(unused) - 1
    <3>1. n \in 0..Len(sector)
      BY <1>3, <1>4, <2>2
    <3>2. used = SubSeq(sector, 1, n)
      BY <2>2
    <3> HIDE DEF n, unused, sector, used
    <3> QED BY <1>2, <3>1, <3>2, SubSeqFacts
  <2> QED BY <2>1, <2>2
<1>6. /\ disk' = [disk EXCEPT !.gpt = @ \o used]
      /\ \/ todo' = Tail(todo) /\ pc' = pc
         \/ todo' = <<>> /\ pc' = "info"
  BY DEF ReadEntries, Goto
<1> HIDE DEF sector, unused, used
<1>7. IsDisk(disk') /\ ~disk'.virtual /\ disk'.index = disk.index
  <2> DEFINE more == disk.gpt \o used
  <2>1. more \in Seq(GptEntry)
    BY <1>1, <1>5 DEF IsDisk
  <2>2. disk' = [index |-> disk.index, style |-> disk.style, protective |-> disk.protective,
                 mbr |-> disk.mbr, ebrs |-> disk.ebrs, gpt |-> more, about |-> disk.about,
                 volumes |-> disk.volumes, virtual |-> disk.virtual]
    BY <1>1, <1>6 DEF IsDisk
  <2> HIDE DEF more
  <2>3. IsDisk(disk')
    BY ONLY <1>1, <2>1, <2>2, MadeDisk DEF IsDisk
  <2> QED BY <1>1, <2>2, <2>3
<1>8. (pc' = "entries" /\ todo' \in Seq(Seq(GptEntry))) \/ pc' = "info"
  BY <1>1, <1>2, <1>6
<1> QED BY <1>1, <1>7, <1>8 DEF ReadEntries, TypeInv, Building, Done

LEMMA ReadInfoType == TypeInv /\ ReadInfo => TypeInv'
<1> SUFFICES ASSUME TypeInv, ReadInfo PROVE TypeInv'
  OBVIOUS
<1>1. IsDisk(disk) /\ disk.virtual = FALSE /\ pc = "info"
  BY DEF ReadInfo, IsDisk, TypeInv
<1> DEFINE a == {Told[i] : i \in {i \in 1..Len(Told) :
                                   ToSet(SubSeq(Told, 1, i)) \subseteq Drive.tells}}
<1>2. disk' = [disk EXCEPT !.about = a]
  BY DEF ReadInfo
<1> HIDE DEF a
<1>3. disk' = [index |-> disk.index, style |-> disk.style, protective |-> disk.protective,
               mbr |-> disk.mbr, ebrs |-> disk.ebrs, gpt |-> disk.gpt, about |-> a,
               volumes |-> disk.volumes, virtual |-> disk.virtual]
  BY <1>1, <1>2 DEF IsDisk
<1>4. IsDisk(disk')
  BY ONLY <1>1, <1>3, MadeDisk DEF IsDisk
<1>5. disk'.virtual = FALSE /\ disk'.index = disk.index
  BY <1>1, <1>3
<1> QED BY <1>1, <1>4, <1>5 DEF ReadInfo, Goto, TypeInv, Building, Done

LEMMA LayoutType == TypeInv /\ Layout => TypeInv'
<1> SUFFICES ASSUME TypeInv, Layout PROVE TypeInv'
  OBVIOUS
<1>1. IsDisk(disk) /\ disk.virtual = FALSE /\ pc = "layout" /\ IsDrive(Drive)
  BY DriveIsDrive DEF Layout, IsDisk, TypeInv, Building
<1>2. IsDisk(disk') /\ ~disk'.virtual /\ disk'.index = disk.index /\ todo' \in Seq(Partition)
  <2>1. CASE ~Drive.layout.ok
    BY <1>1, <2>1, FallbackType DEF Layout
  <2>2. CASE Drive.layout.ok
    <3> DEFINE s == Drive.layout.style
               parts == Drive.layout.parts
    <3>1. s \in Styles /\ parts \in Seq(Partition)
      BY <1>1, <2>2 DEF IsDrive
    <3>2. disk' = [disk EXCEPT !.style = s] /\ todo' = Given(parts)
      BY <2>2 DEF Layout
    <3> HIDE DEF s, parts
    <3>3. disk' = [index |-> disk.index, style |-> s, protective |-> disk.protective,
                   mbr |-> disk.mbr, ebrs |-> disk.ebrs, gpt |-> disk.gpt,
                   about |-> disk.about, volumes |-> disk.volumes, virtual |-> disk.virtual]
      BY <1>1, <3>2 DEF IsDisk
    <3>4. IsDisk(disk')
      BY ONLY <1>1, <3>1, <3>3, MadeDisk DEF IsDisk
    <3>5. todo' \in Seq(Partition)
      BY <3>1, <3>2, GivenType
    <3> QED BY <1>1, <3>3, <3>4, <3>5
  <2> QED BY <2>1, <2>2
<1> QED BY <1>1, <1>2 DEF Layout, Goto, TypeInv, Building, Done

(* One volume more. *)
LEMMA AddVolumeFacts ==
  ASSUME TypeInv, AddVolume, pc' = "volumes"
  PROVE  /\ todo # <<>> /\ pc = "volumes"
         /\ todo' = Tail(todo) /\ result' = result
         /\ \E m \in MakeVolume(machine.os, disk.index, Head(todo), BootAt(Head(todo).pos),
                                Drive.sound, NoName) :
              disk' = [disk EXCEPT !.volumes = Append(@, m.volume)]
BY DEF AddVolume, Crash, Goto

LEMMA AddVolumeType == TypeInv /\ AddVolume => TypeInv'
<1> SUFFICES ASSUME TypeInv, AddVolume PROVE TypeInv'
  OBVIOUS
<1>1. /\ IsDisk(disk) /\ disk.virtual = FALSE /\ pc = "volumes" /\ IsDrive(Drive)
      /\ todo \in Seq(Partition) /\ todo # <<>>
  BY DriveIsDrive DEF AddVolume, IsDisk, TypeInv, Building
<1>2. CASE pc' = "over"
  <2>1. disk' = disk /\ todo' = todo
    BY <1>1, <1>2 DEF AddVolume, Crash, Goto
  <2> QED BY <1>1, <1>2, <2>1 DEF AddVolume, TypeInv, Building, Done
<1>3. CASE pc' = "volumes"
  <2>1. PICK m \in MakeVolume(machine.os, disk.index, Head(todo), BootAt(Head(todo).pos),
                              Drive.sound, NoName) :
          disk' = [disk EXCEPT !.volumes = Append(@, m.volume)]
    BY <1>3, AddVolumeFacts
  <2> DEFINE v == m.volume
             more == Append(disk.volumes, v)
  <2>2. v.pos \in Nat
    <3> DEFINE sound == Drive.sound
               p == Head(todo)
               boot == BootAt(p.pos)
    <3>1. sound \in BOOLEAN /\ m \in MakeVolume(machine.os, disk.index, p, boot, sound, NoName)
      BY <1>1, <2>1 DEF IsDrive
    <3>2. p \in Partition
      BY <1>1, HeadFacts
    <3> HIDE DEF sound, p, boot
    <3>3. v.pos = p.pos
      BY <3>1, MadeFacts
    <3> QED BY <3>2, <3>3 DEF Partition
  <2> HIDE DEF v
  <2>3. IsSeq(disk.volumes) /\ \A j \in 1..Len(disk.volumes) : disk.volumes[j].pos \in Nat
    BY <1>1 DEF IsDisk
  <2>4. IsSeq(more) /\ \A j \in 1..Len(more) : more[j].pos \in Nat
    <3>1. /\ IsSeq(more) /\ Len(more) = Len(disk.volumes) + 1
          /\ \A j \in 1..Len(disk.volumes) : more[j] = disk.volumes[j]
          /\ more[Len(disk.volumes) + 1] = v
      BY <2>3, AppendFacts
    <3>2. Len(disk.volumes) \in Nat
      BY <2>3, SeqFacts
    <3> HIDE DEF more
    <3> QED BY <2>2, <2>3, <3>1, <3>2
  <2>5. disk' = [index |-> disk.index, style |-> disk.style, protective |-> disk.protective,
                 mbr |-> disk.mbr, ebrs |-> disk.ebrs, gpt |-> disk.gpt,
                 about |-> disk.about, volumes |-> more, virtual |-> disk.virtual]
    BY <1>1, <2>1 DEF IsDisk, v
  <2> HIDE DEF more
  <2>6. IsDisk(disk')
    BY ONLY <1>1, <2>4, <2>5, MadeDisk DEF IsDisk
  <2>7. disk'.virtual = FALSE /\ disk'.index = disk.index
    BY <1>1, <2>5
  <2>8. todo' \in Seq(Partition) /\ result' = result
    BY <1>1, <1>3, AddVolumeFacts, HeadFacts
  <2> QED BY <1>1, <1>3, <2>6, <2>7, <2>8 DEF AddVolume, TypeInv, Building, Done
<1>4. pc' \in {"over", "volumes"}
  BY <1>1 DEF AddVolume, Crash, Goto
<1> QED BY <1>2, <1>3, <1>4

LEMMA AddDiskType == TypeInv /\ AddDisk => TypeInv'
<1> SUFFICES ASSUME TypeInv, AddDisk PROVE TypeInv'
  OBVIOUS
<1>1. IsDisk(disk) /\ IsSeq(disks) /\ \A j \in 1..Len(disks) : IsDisk(disks[j])
  BY DEF TypeInv
<1>2. IsDisk(disk') /\ ~disk'.virtual
  BY NewDiskFacts DEF AddDisk, NoDisk
<1>3. IsSeq(disks') /\ \A j \in 1..Len(disks') : IsDisk(disks'[j])
  <2> DEFINE more == Append(disks, disk)
  <2>1. /\ IsSeq(more) /\ Len(more) = Len(disks) + 1
        /\ \A j \in 1..Len(disks) : more[j] = disks[j]
        /\ more[Len(disks) + 1] = disk
    BY <1>1, AppendFacts
  <2>2. Len(disks) \in Nat /\ disks' = more
    BY <1>1, SeqFacts DEF AddDisk
  <2> HIDE DEF more
  <2> QED BY <1>1, <2>1, <2>2
<1>4. ext' \in [i : 1..5, at : Nat, last : Nat]
  BY DEF AddDisk, NoExt
<1>5. pc = "volumes" /\ pc' = "probe" /\ probe' = [probe EXCEPT !.i = @ + 1]
  BY DEF AddDisk, Goto
<1> QED BY <1>2, <1>3, <1>4, <1>5 DEF AddDisk, TypeInv, Building, Done

NumberedDisk(d, n) == [d EXCEPT !.index = n]

(* What stands in the list when the virtual disks are put behind the others. *)
IsPlaced(P, ds, vs, n) ==
  /\ IsSeq(P) /\ Len(P) = Len(ds) + n
  /\ \A j \in 1..Len(ds) : P[j] = ds[j]
  /\ \A j \in 1..n : P[Len(ds) + j] = NumberedDisk(vs[j], Len(ds) + j - 1)

LEMMA PlacedFacts ==
  ASSUME NEW ds, IsSeq(ds), NEW n \in Nat, NEW V, NEW vs \in [1..n -> V]
  PROVE  IsPlaced(Placed(ds, vs), ds, vs, n)
<1>1. PICK S : ds \in Seq(S)
  BY DEF IsSeq
<1> DEFINE t == [j \in 1..n |-> [vs[j] EXCEPT !.index = Len(ds) + j - 1]]
           T == S \cup {t[j] : j \in 1..n}
<1>2. t \in [1..n -> T]
  OBVIOUS
<1>3. \A j \in 1..n : t[j] = NumberedDisk(vs[j], Len(ds) + j - 1)
  BY DEF NumberedDisk
<1>4. Placed(ds, vs) = ds \o t
  BY DEF Placed
<1> HIDE DEF t
<1>5. ds \in Seq(T)
  BY <1>1
<1> HIDE DEF T
<1>6. t \in Seq(T) /\ Len(t) = n
  BY <1>2, FunctionIsSeq
<1>7. /\ ds \o t \in Seq(T) /\ Len(ds \o t) = Len(ds) + n
      /\ \A j \in 1..Len(ds) : (ds \o t)[j] = ds[j]
      /\ \A j \in 1..n : (ds \o t)[Len(ds) + j] = t[j]
  BY ONLY <1>5, <1>6, n \in Nat
<1> QED BY ONLY <1>3, <1>4, <1>7 DEF IsPlaced, IsSeq

LEMMA ListVirtualFacts ==
  ASSUME TypeInv, ListVirtual
  PROVE  /\ IsSeq(disks') /\ Len(disks) \in Nat /\ Len(disks') \in Nat
         /\ Len(disks) <= Len(disks')
         /\ \A j \in 1..Len(disks) : disks'[j] = disks[j]
         /\ \A j \in 1..Len(disks') : j > Len(disks) =>
              /\ IsDisk(disks'[j]) /\ disks'[j].virtual /\ disks'[j].index = j - 1
              /\ \A k \in 1..Len(disks'[j].volumes) :
                   disks'[j].volumes[k].pos = 0 /\ ~IsNtfs(disks'[j].volumes[k])
<1>1. PICK named \in SUBSET {j \in DOMAIN machine.os : machine.os[j].crypt} :
        LET vs == [j \in 1..Cardinality(named) |-> machine.os[InOrder(named)[j]]]
        IN  \E ds \in [DOMAIN vs -> UNION {Outcome(vs[j]) : j \in DOMAIN vs}] :
              /\ \A j \in DOMAIN vs : ds[j] \in Outcome(vs[j])
              /\ disks' = Placed(disks, ds)
  BY DEF ListVirtual
<1> DEFINE n == Cardinality(named)
           vs == [j \in 1..n |-> machine.os[InOrder(named)[j]]]
<1>2. n \in Nat
  <2>1. machine.os \in Seq(OsVolume)
    BY MachineFacts DEF TypeInv, IsOs
  <2> DEFINE l == Len(machine.os)
  <2>2. l \in Nat /\ DOMAIN machine.os = 1..l
    BY <2>1
  <2> HIDE DEF l
  <2>3. IsFiniteSet(1..l) /\ named \subseteq 1..l
    BY <2>2, FS_Interval
  <2>4. IsFiniteSet(named)
    BY <2>3, FS_Subset
  <2> QED BY <2>4, FS_CardinalityType
<1>3. PICK ds \in [1..n -> UNION {Outcome(vs[j]) : j \in 1..n}] :
        (\A j \in 1..n : ds[j] \in Outcome(vs[j])) /\ disks' = Placed(disks, ds)
  BY <1>1
<1> HIDE DEF n, vs
<1>4. \A j \in 1..n : /\ IsDisk(ds[j]) /\ ds[j].virtual
                      /\ \A k \in 1..Len(ds[j].volumes) :
                           ds[j].volumes[k].pos = 0 /\ ~IsNtfs(ds[j].volumes[k])
  BY <1>3, VirtualFacts
<1> DEFINE V == UNION {Outcome(vs[j]) : j \in 1..n}
<1>5. IsSeq(disks) /\ ds \in [1..n -> V]
  BY DEF TypeInv
<1> HIDE DEF V
<1> DEFINE m == Len(disks)
<1>6. /\ IsSeq(disks') /\ Len(disks') = m + n /\ m \in Nat
      /\ \A j \in 1..m : disks'[j] = disks[j]
      /\ \A j \in 1..n : disks'[m + j] = NumberedDisk(ds[j], m + j - 1)
  <2>1. m \in Nat
    BY <1>5, SeqFacts
  <2>2. /\ IsSeq(disks') /\ Len(disks') = Len(disks) + n
        /\ \A j \in 1..Len(disks) : disks'[j] = disks[j]
        /\ \A j \in 1..n : disks'[Len(disks) + j] = NumberedDisk(ds[j], Len(disks) + j - 1)
    <3>1. IsPlaced(Placed(disks, ds), disks, ds, n)
      BY <1>2, <1>5, PlacedFacts
    <3> QED BY ONLY <1>3, <3>1 DEF IsPlaced
  <2> QED BY ONLY <2>1, <2>2
<1> HIDE DEF m
<1>7. ASSUME NEW j \in 1..(m + n), j > m
      PROVE  /\ IsDisk(disks'[j]) /\ disks'[j].virtual /\ disks'[j].index = j - 1
             /\ \A k \in 1..Len(disks'[j].volumes) :
                  disks'[j].volumes[k].pos = 0 /\ ~IsNtfs(disks'[j].volumes[k])
  <2> DEFINE i == j - m
             d == ds[i]
             e == disks'[j]
  <2>1. i \in 1..n /\ m + i = j /\ j - 1 \in Nat /\ m + i - 1 = j - 1
    BY <1>2, <1>6, <1>7
  <2>2. e = [d EXCEPT !.index = j - 1]
    BY <1>6, <2>1 DEF NumberedDisk
  <2>3. /\ IsDisk(d) /\ d.virtual = TRUE
        /\ \A k \in 1..Len(d.volumes) : d.volumes[k].pos = 0 /\ ~IsNtfs(d.volumes[k])
    BY <1>4, <2>1 DEF IsDisk
  <2> HIDE DEF i, d, e
  <2>4. e = [index |-> j - 1, style |-> d.style, protective |-> d.protective,
             mbr |-> d.mbr, ebrs |-> d.ebrs, gpt |-> d.gpt,
             about |-> d.about, volumes |-> d.volumes, virtual |-> d.virtual]
    BY <2>2, <2>3 DEF IsDisk
  <2>5. IsDisk(e)
    BY ONLY <2>1, <2>3, <2>4, MadeDisk DEF IsDisk
  <2>6. e.index = j - 1 /\ e.virtual = TRUE /\ e.volumes = d.volumes
    BY <2>4, <2>3
  <2> QED BY <2>3, <2>5, <2>6 DEF e
<1>8. m + n \in Nat /\ m <= m + n
  BY <1>2, <1>6
<1> QED BY <1>6, <1>7, <1>8 DEF m

LEMMA ListVirtualType == TypeInv /\ ListVirtual => TypeInv'
<1> SUFFICES ASSUME TypeInv, ListVirtual PROVE TypeInv'
  OBVIOUS
<1>1. IsSeq(disks') /\ \A j \in 1..Len(disks') : IsDisk(disks'[j])
  <2>1. /\ IsSeq(disks') /\ Len(disks) \in Nat /\ Len(disks') \in Nat
        /\ \A j \in 1..Len(disks) : disks'[j] = disks[j]
        /\ \A j \in 1..Len(disks') : j > Len(disks) => IsDisk(disks'[j])
    BY ListVirtualFacts
  <2>2. \A j \in 1..Len(disks) : IsDisk(disks[j])
    BY DEF TypeInv
  <2> QED BY <2>1, <2>2
<1>2. pc = "virtual" /\ pc' = "listed" /\ calls' = calls + 1
      /\ UNCHANGED <<machine, command, probe, disk, ext, todo, result>>
  BY DEF ListVirtual, Goto, scan
<1> QED BY <1>1, <1>2 DEF TypeInv, Building, Done

LEMMA TypeStep == TypeInv /\ [Next]_vars => TypeInv'
<1> SUFFICES ASSUME TypeInv, [Next]_vars PROVE TypeInv'
  OBVIOUS
<1>1. CASE List
  <2>1. <<>> \in Seq({}) /\ Len(<<>>) = 0 /\ 1..0 = {}
    OBVIOUS
  <2>2. IsSeq(disks') /\ \A j \in 1..Len(disks') : IsDisk(disks'[j])
    BY <1>1, <2>1 DEF List, IsSeq
  <2>3. probe' = [i |-> 0, bound |-> 0, last |-> FALSE]
    BY <1>1 DEF List
  <2>4. pc = "list" /\ pc' = "probe"
        /\ UNCHANGED <<machine, command, disk, ext, todo, calls, result>>
    BY <1>1 DEF List, Goto
  <2>5. probe' \in [i : Nat, bound : Nat, last : BOOLEAN] /\ ~probe'.last
    BY <2>3
  <2> QED BY <2>2, <2>4, <2>5 DEF TypeInv, Building, Done
<1>2. CASE ProbeDisk
  <2>1. IsDisk(disk') /\ ~disk'.virtual /\ disk'.index = probe.i
    BY <1>2, NewDiskFacts DEF TypeInv, ProbeDisk, NewDisk
  <2> QED BY <1>2, <2>1 DEF ProbeDisk, Opened, Goto, TypeInv, Building, Done
<1>3. CASE ProbeMissing
  <2>1. CASE probe.last
    BY <1>3, <2>1 DEF ProbeMissing, Goto, TypeInv, Building, Done
  <2>2. CASE ~probe.last
    <3>1. probe' = [i |-> probe.i + 1, bound |-> probe.i + Gap, last |-> TRUE]
      BY <1>3, <2>2 DEF ProbeMissing
    <3>2. probe.i \in Nat /\ Gap \in Nat \ {0}
      BY ScanAssumption DEF TypeInv
    <3>3. probe' \in [i : Nat, bound : Nat, last : BOOLEAN] /\ probe'.i <= probe'.bound
      BY <3>1, <3>2
    <3> QED BY <1>3, <2>2, <3>3 DEF ProbeMissing, Goto, TypeInv, Building, Done
  <2> QED BY <2>1, <2>2
<1>4. CASE ProbeBound
  BY <1>4 DEF ProbeBound, Goto, scan, TypeInv, Building, Done
<1>5. CASE NextEntry
  BY <1>5 DEF NextEntry, TypeInv, Building, Done
<1>6. CASE EntriesEnd \/ SkipGpt
  BY <1>6 DEF EntriesEnd, SkipGpt, Goto, scan, TypeInv, Building, Done
<1>7. CASE EnterContainer
  <2>1. disk.mbr[ext.i] \in MbrEntry
    BY <1>7 DEF EnterContainer, TypeInv, IsDisk
  <2>2. Entry.pos \in Nat
    BY <2>1, ScanAssumption DEF MbrEntry, Entry
  <2>3. /\ pc = "ext" /\ pc' = "ebr" /\ ext.i <= 4
        /\ ext' = [ext EXCEPT !.at = Entry.pos, !.last = Entry.pos]
        /\ UNCHANGED <<machine, command, probe, disk, todo, disks, calls, result>>
    BY <1>7 DEF EnterContainer, Goto
  <2>4. ext \in [i : 1..5, at : Nat, last : Nat]
    BY DEF TypeInv
  <2>5. ext' \in [i : 1..5, at : Nat, last : Nat] /\ ext'.i = ext.i
    BY <2>2, <2>3, <2>4
  <2>6. ext'.i \in 1..4
    BY <2>3, <2>4, <2>5
  <2> QED BY <2>3, <2>5, <2>6 DEF TypeInv, Building, Done
<1>8. CASE EbrFails
  BY <1>8 DEF EbrFails, Goto, TypeInv, Building, Done
<1>9. CASE EntriesOver
  BY <1>9 DEF EntriesOver, Goto, TypeInv, Building, Done
<1>10. CASE VirtualFails
  BY <1>10 DEF VirtualFails, Goto, scan, TypeInv, Building, Done
<1>11. CASE InfoDisks
  <2>1. CASE pc' = "over"
    BY <1>11, <2>1 DEF InfoDisks, Stays, scan, TypeInv, Building, Done
  <2>2. CASE pc' # "over"
    <3>1. pc' = "list" /\ calls = 1 /\ UNCHANGED result /\ pc # "over"
      BY <1>11, <2>2 DEF InfoDisks, Over, Goto
    <3> QED BY <1>11, <3>1 DEF InfoDisks, Stays, scan, TypeInv, Building, Done
  <2> QED BY <2>1, <2>2
<1>12. CASE InfoDisk \/ InfoVolume \/ InfoAlone \/ Backup
  <2>1. pc' = "over" /\ Stays
    BY <1>12 DEF InfoDisk, InfoVolume, InfoAlone, Backup, Over, Goto
  <2>2. UNCHANGED <<machine, command, probe, disk, ext, todo, disks, calls>>
    BY <2>1 DEF Stays, scan
  <2>3. calls \in 0..2
    BY DEF TypeInv
  <2> QED BY <2>1, <2>2, <2>3 DEF TypeInv, Building, Done
<1>13. CASE UNCHANGED vars
  BY <1>13 DEF vars, scan, TypeInv, Building, Done
<1> QED BY <1>1, <1>2, <1>3, <1>4, <1>5, <1>6, <1>7, <1>8, <1>9, <1>10, <1>11, <1>12, <1>13,
           ReadMbrType, ReadEbrType, ReadHeaderType, ReadEntriesType, ReadInfoType,
           LayoutType, AddVolumeType, AddDiskType, ListVirtualType
        DEF Next

(***************************************************************************)
(* The type invariant of the scan: at most MaxEbrs logical partitions, and *)
(* the search for more disks does not pass its bound.                      *)
(***************************************************************************)
THEOREM ScanTypeOK == Spec => []TypeOK
<1>1. TypeInv => TypeOK
  <2> SUFFICES ASSUME TypeInv PROVE TypeOK
    OBVIOUS
  <2>1. ASSUME NEW d \in ToSet(disks) \cup {disk} PROVE IsDisk(d)
    BY SeqFacts DEF TypeInv
  <2>2. ASSUME NEW d, IsDisk(d)
        PROVE  /\ d.style \in Styles
               /\ Len(d.ebrs) <= MaxEbrs /\ \A j \in DOMAIN d.ebrs : d.ebrs[j] \in MbrEntry
               /\ \A j \in DOMAIN d.volumes : d.volumes[j].pos \in Nat
    BY <2>2, SeqFacts DEF IsDisk
  <2>3. /\ pc \in {"list", "probe", "virtual"} \cup Building \cup Done
        /\ probe.i \in Nat /\ (probe.last => probe.i <= probe.bound)
        /\ ext.i \in 1..5 /\ calls \in 0..2
    BY DEF TypeInv
  <2> QED BY <2>1, <2>2, <2>3 DEF TypeOK, Building, Done
<1>2. TypeInv /\ [Next]_vars => TypeInv'
  BY TypeStep
<1> QED BY TypeInit, <1>1, <1>2, PTL DEF Spec

-----------------------------------------------------------------------------
(***************************************************************************)
(* The inductive invariant of the answer.  A volume is made as its drive   *)
(* and Windows say; the disks in the list have what the tables describe;   *)
(* the numbers in the list leave out one at most, g.                       *)
(***************************************************************************)
BeginsAsNtfs(D, pos) == pos \in DOMAIN D.boot /\ D.boot[pos] \in {"ntfs", "fve"}
Formed(m, n, v) ==
  /\ v.name = FindVolumeName(m.os, n, v.pos, v.len)
  /\ v.about \in InfoByName(m.os, v.name)
  /\ IsNtfs(v) => BeginsAsNtfs(m.drives[n], v.pos)
  /\ BeginsAsNtfs(m.drives[n], v.pos) /\ m.drives[n].sound /\ SeekSeen(v.pos) => IsNtfs(v)

(* Volume v is made of partition p. *)
MadeOf(v, p) == v.pos = p.pos /\ v.index = p.number

EbrsRead(d, D) ==
  \A i \in 1..4 : D.mbr[i].type = 15 => Matches(d.ebrs, InChain(D, D.mbr[i].pos))
GptRead(d, D) ==
  d.protective => Matches(d.gpt, UNION {InGpt(D, s) : s \in DOMAIN D.gpt})
MbrRead(d, D) == d.mbr = D.mbr /\ d.protective = (Style(D.mbr) = "gpt")

Finished(m, d) ==
  /\ d.index \in DOMAIN m.drives
  /\ \A j \in 1..Len(d.volumes) : Formed(m, d.index, d.volumes[j])
  /\ ~m.drives[d.index].layout.ok =>
       /\ Len(d.volumes) = Len(Fallback(d))
       /\ \A j \in 1..Len(d.volumes) : MadeOf(d.volumes[j], Fallback(d)[j])
  /\ Orderly(m.drives[d.index]) =>
       /\ MbrRead(d, m.drives[d.index])
       /\ EbrsRead(d, m.drives[d.index])
       /\ GptRead(d, m.drives[d.index])
Unreadable(d) ==
  \A j \in 1..Len(d.volumes) : d.volumes[j].pos = 0 /\ ~IsNtfs(d.volumes[j])
DisksInv ==
  \A j \in 1..Len(disks) : IF disks[j].virtual THEN Unreadable(disks[j])
                            ELSE Finished(machine, disks[j])

(* The volumes made so far. *)
VolumesInv ==
  /\ pc \in Building \ {"volumes"} => disk.volumes = <<>>
  /\ pc = "volumes" =>
       \A j \in 1..Len(disk.volumes) : Formed(machine, disk.index, disk.volumes[j])
  /\ pc = "volumes" /\ ~Drive.layout.ok =>
       /\ Len(disk.volumes) + Len(todo) = Len(Fallback(disk))
       /\ \A j \in 1..Len(disk.volumes) : MadeOf(disk.volumes[j], Fallback(disk)[j])
       /\ \A j \in 1..Len(todo) : todo[j] = Fallback(disk)[Len(disk.volumes) + j]

(* The EBRs read so far, and where the next one is. *)
Linked(d, at, n, e) ==
  /\ IsEbr(d, at[n]) /\ at[n + 1] # 0
  /\ e.pos = at[n] + d.chain[at[n]].part.pos
OnTheWay(d, es, c, last, pos) ==
  LET at == Places(d, c)
      n == Len(es)
  IN  /\ n + 1 <= MaxEbrs
      /\ at[n + 1] = pos /\ pos # 0 /\ last = pos % Lba
      /\ \A k \in 1..n : Linked(d, at, k, es[k])
EbrsInv ==
  /\ pc \in {"mbr", "ext"} =>
       \A i \in 1..4 : Drive.mbr[i].type = 15 =>
         IF pc = "ext" /\ i < ext.i THEN Matches(disk.ebrs, InChain(Drive, Drive.mbr[i].pos))
         ELSE disk.ebrs = <<>>
  /\ pc = "ebr" => /\ Drive.mbr[ext.i].type = 15
                   /\ OnTheWay(Drive, disk.ebrs, Drive.mbr[ext.i].pos, ext.last, ext.at)
  /\ pc \in {"gpt", "entries", "info", "layout", "volumes"} => EbrsRead(disk, Drive)

(* The sectors of entries read so far are the first k. *)
GptInv ==
  /\ pc \in {"mbr", "ext", "ebr", "gpt"} => disk.gpt = <<>>
  /\ pc = "entries" =>
       \E k \in 0..Len(Drive.gpt) :
         /\ Len(todo) = Len(Drive.gpt) - k
         /\ \A j \in 1..Len(todo) : todo[j] = Drive.gpt[k + j]
         /\ Matches(disk.gpt, UNION {InGpt(Drive, s) : s \in 1..k})
  /\ pc \in {"info", "layout", "volumes"} => GptRead(disk, Drive)
TablesInv ==
  pc \in Building /\ Orderly(Drive) =>
    /\ pc # "mbr" => MbrRead(disk, Drive)
    /\ EbrsInv
    /\ GptInv

ProbeInv ==
  pc \in {"probe", "virtual"} \cup Building =>
    \E g \in 0..probe.i :
      /\ \A n \in 0..(probe.i - 1) : Missing(n) <=> n = g
      /\ IF g < probe.i THEN probe.last /\ probe.bound = g + Gap /\ Len(disks) = probe.i - 1
         ELSE ~probe.last /\ Len(disks) = probe.i
      /\ \A j \in 1..Len(disks) : /\ disks[j].virtual = FALSE
                                  /\ disks[j].index = IF j - 1 < g THEN j - 1 ELSE j
      /\ pc = "virtual" => probe.last /\ (Missing(probe.i) \/ probe.i = probe.bound)
ListedInv ==
  pc = "listed" =>
    /\ NoneMissing => \A j \in 1..Len(disks) : disks[j].index = j - 1
    /\ OneGap => {d.index : d \in Physical} = DOMAIN machine.drives

-----------------------------------------------------------------------------
ProbeAt(g) ==
  /\ g \in 0..probe.i
  /\ \A n \in 0..(probe.i - 1) : Missing(n) <=> n = g
  /\ IF g < probe.i THEN probe.last /\ probe.bound = g + Gap /\ Len(disks) = probe.i - 1
     ELSE ~probe.last /\ Len(disks) = probe.i
  /\ \A j \in 1..Len(disks) : /\ disks[j].virtual = FALSE
                              /\ disks[j].index = IF j - 1 < g THEN j - 1 ELSE j
  /\ pc = "virtual" => probe.last /\ (Missing(probe.i) \/ probe.i = probe.bound)

LEMMA ProbeIsAt ==
  ProbeInv <=> (pc \in {"probe", "virtual"} \cup Building => \E g : ProbeAt(g))
BY DEF ProbeInv, ProbeAt

LEMMA ProbeMissingStep ==
  ASSUME TypeInv, ProbeInv, ProbeMissing
  PROVE  ProbeInv'
<1>1. pc = "probe" /\ Missing(probe.i) /\ machine' = machine /\ disks' = disks
  BY DEF ProbeMissing, Opened, Missing
<1>2. PICK g : ProbeAt(g)
  BY <1>1, ProbeIsAt
<1>3. probe.i \in Nat /\ probe.last \in BOOLEAN /\ Gap \in Nat \ {0}
  BY ScanAssumption DEF TypeInv
<1>4. CASE probe.last
  <2>1. probe' = probe /\ pc' = "virtual"
    BY <1>4 DEF ProbeMissing, Goto
  <2>2. ProbeAt(g)'
    BY <1>1, <1>2, <1>4, <2>1 DEF ProbeAt, Missing
  <2> QED BY <2>2 DEF ProbeInv, ProbeAt
<1>5. CASE ~probe.last
  <2>1. /\ probe'.i = probe.i + 1 /\ probe'.bound = probe.i + Gap /\ probe'.last = TRUE
        /\ pc' = "probe"
    BY <1>1, <1>5 DEF ProbeMissing
  <2>2. g = probe.i /\ Len(disks) = probe.i
    BY <1>2, <1>3, <1>5 DEF ProbeAt
  <2>3. \A n \in 0..(probe'.i - 1) : n \in 0..(probe.i - 1) \/ n = probe.i
    BY <1>3, <2>1
  <2>4. \A n \in 0..(probe'.i - 1) : Missing(n)' <=> n = probe.i
    BY <1>1, <1>2, <2>2, <2>3 DEF ProbeAt, Missing
  <2>5. \A j \in 1..Len(disks) : /\ disks[j].virtual = FALSE /\ j - 1 < probe.i
                                 /\ disks[j].index = j - 1
    BY <1>2, <1>3, <2>2 DEF ProbeAt
  <2>6. probe.i \in 0..probe'.i /\ probe.i < probe'.i /\ probe'.i - 1 = probe.i
    BY <1>3, <2>1
  <2>7. ProbeAt(g)'
    BY <1>1, <2>1, <2>2, <2>4, <2>5, <2>6 DEF ProbeAt
  <2> QED BY <2>7 DEF ProbeInv, ProbeAt
<1> QED BY <1>3, <1>4, <1>5

LEMMA AddDiskProbe ==
  ASSUME TypeInv, ProbeInv, AddDisk
  PROVE  ProbeInv'
<1>1. /\ pc = "volumes" /\ pc' = "probe" /\ disks' = Append(disks, disk)
      /\ probe' = [probe EXCEPT !.i = @ + 1] /\ machine' = machine
  BY DEF AddDisk, Goto
<1>2. PICK g : ProbeAt(g)
  BY <1>1, ProbeIsAt DEF Building
<1>3. /\ probe \in [i : Nat, bound : Nat, last : BOOLEAN] /\ IsSeq(disks)
      /\ disk.index = probe.i /\ probe.i \in DOMAIN machine.drives
      /\ disk.virtual = FALSE
  BY <1>1 DEF TypeInv, Building, IsDisk
<1> DEFINE i == probe.i
           more == Append(disks, disk)
<1>4. probe'.i = i + 1 /\ probe'.bound = probe.bound /\ probe'.last = probe.last
  BY <1>1, <1>3
<1>5. /\ Len(more) = Len(disks) + 1 /\ \A j \in 1..Len(disks) : more[j] = disks[j]
      /\ more[Len(disks) + 1] = disk /\ Len(disks) \in Nat
  BY <1>3, AppendFacts, SeqFacts
<1>6. ~Missing(i) /\ i \in Nat
  BY <1>3 DEF Missing
<1>7. \A n \in 0..((i + 1) - 1) : n \in 0..(i - 1) \/ n = i
  BY <1>6
<1>8. Len(more) \in Nat /\ \A j \in 1..Len(more) : j \in 1..Len(disks) \/ j = Len(disks) + 1
  <2> HIDE DEF more
  <2> QED BY <1>5
<1> DEFINE l == Len(disks)
<1>14. disks' = more
  BY <1>1
<1> HIDE DEF more
<1>9. CASE g < i
  <2>1. /\ g \in Nat /\ probe.last /\ probe.bound = g + Gap /\ l = i - 1
        /\ \A n \in 0..(i - 1) : Missing(n) <=> n = g
        /\ \A j \in 1..l : /\ disks[j].virtual = FALSE
                            /\ disks[j].index = IF j - 1 < g THEN j - 1 ELSE j
    BY <1>2, <1>6, <1>9 DEF ProbeAt
  <2>2. \A n \in 0..((i + 1) - 1) : Missing(n) <=> n = g
    BY <1>6, <1>7, <1>9, <2>1
  <2> HIDE DEF l
  <2>3. disk.index = IF (l + 1) - 1 < g THEN (l + 1) - 1 ELSE l + 1
    BY <1>3, <1>6, <1>9, <2>1
  <2>4. \A j \in 1..Len(more) : /\ more[j].virtual = FALSE
                                /\ more[j].index = IF j - 1 < g THEN j - 1 ELSE j
    BY <1>3, <1>5, <1>8, <2>1, <2>3 DEF l
  <2>5. g \in 0..(i + 1) /\ g < i + 1 /\ Len(more) = (i + 1) - 1
    BY <1>5, <1>6, <1>9, <2>1 DEF l
  <2>6. ProbeAt(g)'
    BY <1>1, <1>4, <1>14, <2>1, <2>2, <2>4, <2>5 DEF ProbeAt, Missing
  <2> QED BY <2>6 DEF ProbeInv, ProbeAt
<1>10. CASE ~(g < i)
  <2>1. /\ g = i /\ ~probe.last /\ l = i
        /\ \A n \in 0..(i - 1) : ~Missing(n)
        /\ \A j \in 1..l : disks[j].virtual = FALSE /\ disks[j].index = j - 1
    BY <1>2, <1>6, <1>10 DEF ProbeAt
  <2>2. \A n \in 0..((i + 1) - 1) : ~Missing(n) /\ n # i + 1
    BY <1>6, <1>7, <2>1
  <2> HIDE DEF l
  <2>3. disk.index = (l + 1) - 1
    BY <1>3, <1>6, <2>1
  <2>4. \A j \in 1..Len(more) : more[j].virtual = FALSE /\ more[j].index = j - 1
    BY <1>3, <1>5, <1>8, <2>1, <2>3 DEF l
  <2>5. i + 1 \in 0..(i + 1) /\ ~(i + 1 < i + 1) /\ Len(more) = i + 1
    BY <1>5, <1>6, <2>1 DEF l
  <2>6. \A j \in 1..Len(more) : j - 1 < i + 1
    BY <1>6, <2>5
  <2>7. PICK h \in Nat : h = i + 1
    BY <1>6
  <2>8. ProbeAt(h)'
    BY <1>1, <1>4, <1>14, <2>1, <2>2, <2>4, <2>5, <2>6, <2>7 DEF ProbeAt, Missing
  <2> QED BY <2>8 DEF ProbeInv, ProbeAt
<1> QED BY <1>9, <1>10

LEMMA ProbeStep == TypeInv /\ ProbeInv /\ [Next]_vars => ProbeInv'
<1> SUFFICES ASSUME TypeInv, ProbeInv, [Next]_vars PROVE ProbeInv'
  OBVIOUS
<1>1. CASE List
  <2>1. /\ probe'.i = 0 /\ probe'.last = FALSE /\ disks' = <<>> /\ pc' = "probe"
    BY <1>1 DEF List, Goto
  <2>2. Len(disks') = 0 /\ 1..0 = {} /\ 0..(0 - 1) = {} /\ 0 \in 0..0 /\ ~(0 < 0)
    BY <2>1
  <2>3. ProbeAt(0)'
    BY <2>1, <2>2 DEF ProbeAt
  <2> QED BY <2>3 DEF ProbeInv, ProbeAt
<1>2. CASE ProbeBound
  <2>1. /\ pc = "probe" /\ probe.last /\ probe.i = probe.bound /\ pc' = "virtual"
        /\ UNCHANGED <<machine, probe, disks>>
    BY <1>2 DEF ProbeBound, Goto, scan
  <2>2. PICK g : ProbeAt(g)
    BY <2>1, ProbeIsAt
  <2>3. ProbeAt(g)'
    BY <2>1, <2>2 DEF ProbeAt, Missing
  <2> QED BY <2>3 DEF ProbeInv, ProbeAt
<1>3. ASSUME UNCHANGED <<machine, probe, disks>>,
             pc \in {"probe"} \cup Building, pc' # "virtual"
      PROVE  ProbeInv'
  <2>1. PICK g : ProbeAt(g)
    BY <1>3, ProbeIsAt
  <2>2. ProbeAt(g)'
    BY <1>3, <2>1 DEF ProbeAt, Missing
  <2> QED BY <2>2 DEF ProbeInv, ProbeAt
<1>4. CASE \/ ProbeDisk \/ ReadMbr \/ NextEntry \/ EntriesEnd \/ EnterContainer \/ ReadEbr
           \/ EbrFails \/ SkipGpt \/ ReadHeader \/ ReadEntries \/ EntriesOver
           \/ ReadInfo \/ Layout \/ AddVolume
  <2>1. UNCHANGED <<machine, probe, disks>> /\ pc \in {"probe"} \cup Building
    BY <1>4 DEF ProbeDisk, ReadMbr, NextEntry, EntriesEnd, EnterContainer, ReadEbr, EbrFails,
         SkipGpt, ReadHeader, ReadEntries, EntriesOver, ReadInfo, Layout, AddVolume, scan,
         Building
  <2>2. pc' # "virtual"
    BY <1>4 DEF ProbeDisk, ReadMbr, NextEntry, EntriesEnd, EnterContainer, ReadEbr, EbrFails,
         SkipGpt, ReadHeader, ReadEntries, EntriesOver, ReadInfo, Layout, AddVolume, Goto, Crash
  <2> QED BY <1>3, <2>1, <2>2
<1>5. CASE ListVirtual \/ VirtualFails \/ InfoDisks \/ InfoDisk \/ InfoVolume \/ InfoAlone
           \/ Backup
  <2>1. pc' \in {"listed", "failed", "list", "over"}
    BY <1>5 DEF ListVirtual, VirtualFails, InfoDisks, InfoDisk, InfoVolume, InfoAlone, Backup,
         Goto, Over
  <2> QED BY <2>1 DEF ProbeInv, Building
<1>6. CASE UNCHANGED vars
  BY <1>6 DEF vars, scan, ProbeInv, Missing
<1> QED BY <1>1, <1>2, <1>4, <1>5, <1>6, ProbeMissingStep, AddDiskProbe DEF Next

LEMMA FiniteIsBounded ==
  ASSUME NEW S \in SUBSET Nat, IsFiniteSet(S)
  PROVE  \E b \in Nat : S \subseteq 0..b
<1> DEFINE n == Cardinality(S)
<1>1. n \in Nat
  BY FS_CardinalityType
<1>2. PICK f \in [1..n -> S] : \A x \in S : \E i \in 1..n : f[i] = x
  <2>1. ExistsBijection(1..n, S)
    BY FS_CardinalityType
  <2> HIDE DEF n
  <2>2. PICK f : f \in Bijection(1..n, S)
    BY <2>1 DEF ExistsBijection
  <2>3. f \in [1..n -> S] /\ \A x \in S : \E i \in 1..n : f[i] = x
    BY <2>2 DEF Bijection, Surjection, Injection
  <2> QED BY <2>3
<1> HIDE DEF n
<1> DEFINE P == {k \in 0..n : \E b \in Nat : \A i \in 1..k : f[i] <= b}
<1>3. 0 \in P
  <2>1. 0 \in 0..n /\ 1..0 = {} /\ 0 \in Nat
    BY <1>1
  <2> QED BY <2>1
<1>4. ASSUME NEW k \in 0..(n - 1), k \in P PROVE k + 1 \in P
  <2>1. PICK b \in Nat : \A i \in 1..k : f[i] <= b
    BY <1>4
  <2>2. k + 1 \in 0..n /\ k + 1 \in 1..n
        /\ \A i \in 1..(k + 1) : (i \in 1..k \/ i = k + 1) /\ i \in 1..n
    BY <1>1
  <2>3. \A i \in 1..n : f[i] \in Nat
    BY <1>2
  <2> DEFINE c == b + f[k + 1]
  <2>4. c \in Nat /\ b <= c /\ f[k + 1] <= c
    BY <2>2, <2>3
  <2> HIDE DEF c
  <2>5. \A i \in 1..(k + 1) : f[i] <= c
    BY <2>1, <2>2, <2>3, <2>4
  <2> QED BY <2>2, <2>4, <2>5
<1> HIDE DEF P
<1>5. 0..n \subseteq P
  BY <1>1, <1>3, <1>4, Induction
<1>6. n \in P
  BY <1>1, <1>5
<1>7. PICK b \in Nat : \A i \in 1..n : f[i] <= b
  BY <1>6 DEF P
<1>8. \A x \in S : x \in 0..b
  BY <1>2, <1>7
<1> QED BY <1>8

(* The numbers in the list are those that were looked at and are there. *)
LEMMA IndicesBelow ==
  ASSUME TypeInv, NEW g, ProbeAt(g)
  PROVE  {disks[j].index : j \in 1..Len(disks)} = {n \in DOMAIN machine.drives : n < probe.i}
<1>1. /\ probe.i \in Nat /\ g \in 0..probe.i /\ Len(disks) \in Nat
      /\ DOMAIN machine.drives \subseteq Nat
  BY MachineFacts, SeqFacts DEF TypeInv, ProbeAt
<1>2. /\ \A n \in 0..(probe.i - 1) : Missing(n) <=> n = g
      /\ (g < probe.i => Len(disks) = probe.i - 1) /\ (g = probe.i => Len(disks) = probe.i)
      /\ \A j \in 1..Len(disks) : disks[j].index = IF j - 1 < g THEN j - 1 ELSE j
  <2>1. IF g < probe.i THEN probe.last /\ probe.bound = g + Gap /\ Len(disks) = probe.i - 1
        ELSE ~probe.last /\ Len(disks) = probe.i
    BY DEF ProbeAt
  <2>2. g = probe.i => ~(g < probe.i)
    BY <1>1
  <2>3. (g < probe.i => Len(disks) = probe.i - 1) /\ (g = probe.i => Len(disks) = probe.i)
    BY ONLY <2>1, <2>2
  <2> QED BY <2>3 DEF ProbeAt
<1>3. ASSUME NEW j \in 1..Len(disks)
      PROVE  disks[j].index \in DOMAIN machine.drives /\ disks[j].index < probe.i
  <2> DEFINE n == IF j - 1 < g THEN j - 1 ELSE j
  <2>1. n \in 0..(probe.i - 1) /\ n # g
    BY <1>1, <1>2
  <2> HIDE DEF n
  <2>2. n \in DOMAIN machine.drives /\ n < probe.i
    BY <1>1, <1>2, <2>1 DEF Missing
  <2> QED BY <1>2, <2>2 DEF n
<1>4. ASSUME NEW n \in DOMAIN machine.drives, n < probe.i
      PROVE  \E j \in 1..Len(disks) : disks[j].index = n
  <2> DEFINE j == IF n < g THEN n + 1 ELSE n
  <2>1. n \in 0..(probe.i - 1) /\ n # g
    BY <1>1, <1>2, <1>4 DEF Missing
  <2>2. j \in 1..Len(disks) /\ (IF j - 1 < g THEN j - 1 ELSE j) = n
    BY <1>1, <1>2, <2>1
  <2> HIDE DEF j
  <2> QED BY <1>2, <2>2
<1> QED BY <1>3, <1>4

LEMMA AllWereLookedAt ==
  ASSUME TypeInv, NEW g, ProbeAt(g), pc = "virtual", OneGap
  PROVE  \A n \in DOMAIN machine.drives : n < probe.i
<1> DEFINE D == DOMAIN machine.drives
           last == Max(D \cup {0})
           gaps == {n \in 0..last : Missing(n)}
<1>1. IsFiniteSet(D) /\ D \subseteq Nat /\ probe.i \in Nat /\ Gap \in Nat
  BY MachineFacts, ScanAssumption DEF TypeInv
<1>2. /\ g \in 0..probe.i /\ probe.last /\ (Missing(probe.i) \/ probe.i = probe.bound)
      /\ g < probe.i /\ probe.bound = g + Gap /\ Missing(g)
  BY <1>1 DEF ProbeAt
<1>3. last \in Nat /\ \A n \in D : n <= last
  <2>1. PICK b \in Nat : D \subseteq 0..b
    <3> HIDE DEF D
    <3> QED BY <1>1, FiniteIsBounded
  <2> DEFINE S == D \cup {0}
  <2>2. S \in SUBSET (0..b) /\ S # {}
    BY <2>1
  <2>3. D \subseteq S /\ last = Max(S)
    OBVIOUS
  <2> HIDE DEF S, last, D
  <2>4. Max(S) \in S /\ \A n \in S : n <= Max(S)
    BY <2>2, MaxIsGreatest
  <2>5. Max(S) \in Nat
    <3>1. \A x \in S : x \in Nat
      BY <2>2
    <3> QED BY ONLY <3>1, <2>4
  <2>6. \A n \in D : n <= Max(S)
    BY <2>3, <2>4
  <2> QED BY ONLY <2>3, <2>5, <2>6
<1>4. Cardinality(gaps) <= 1 /\ \A h \in gaps : last < h + Gap
  BY DEF OneGap
<1>5. IsFiniteSet(gaps)
  <2> HIDE DEF last
  <2>1. IsFiniteSet(0..last) /\ gaps \subseteq 0..last
    BY <1>3, FS_Interval
  <2> HIDE DEF gaps
  <2> QED BY <2>1, FS_Subset
<1> SUFFICES ASSUME NEW n \in D, ~(n < probe.i) PROVE FALSE
  OBVIOUS
<1>6. n \in Nat /\ probe.i <= n /\ n <= last
  BY <1>1, <1>3
<1> HIDE DEF D, last
<1>7. g \in gaps
  BY <1>1, <1>2, <1>3, <1>6
<1>8. CASE Missing(probe.i)
  <2>1. probe.i \in gaps /\ probe.i # g
    BY <1>1, <1>2, <1>3, <1>6, <1>8
  <2> HIDE DEF gaps
  <2>2. {g, probe.i} \subseteq gaps
    BY <1>7, <2>1
  <2>3. Cardinality({g, probe.i}) = 2
    <3>1. Cardinality({g}) = 1 /\ IsFiniteSet({g})
      BY FS_Singleton
    <3>2. Cardinality({g} \cup {probe.i}) = Cardinality({g}) + 1
      BY <2>1, <3>1, FS_AddElement
    <3>3. {g} \cup {probe.i} = {g, probe.i} /\ 1 + 1 = 2
      OBVIOUS
    <3> QED BY <3>1, <3>2, <3>3
  <2>4. Cardinality({g, probe.i}) <= Cardinality(gaps) /\ Cardinality(gaps) \in Nat
    BY <1>5, <2>2, FS_Subset, FS_CardinalityType
  <2> QED BY <1>4, <2>3, <2>4
<1>9. CASE probe.i = probe.bound
  <2>1. last < g + Gap
    BY <1>4, <1>7
  <2> QED BY <1>1, <1>2, <1>3, <1>6, <1>9, <2>1
<1> QED BY <1>2, <1>8, <1>9

LEMMA ListVirtualListed ==
  ASSUME TypeInv, ProbeInv, ListVirtual
  PROVE  ListedInv'
<1>1. pc = "virtual" /\ UNCHANGED machine /\ pc' = "listed"
  BY DEF ListVirtual, Goto
<1>2. PICK g : ProbeAt(g)
  BY <1>1, ProbeIsAt
<1>3. /\ IsSeq(disks') /\ Len(disks) \in Nat /\ Len(disks') \in Nat
      /\ Len(disks) <= Len(disks')
      /\ \A j \in 1..Len(disks) : disks'[j] = disks[j]
      /\ \A j \in 1..Len(disks') : j > Len(disks) =>
           disks'[j].virtual /\ disks'[j].index = j - 1
  BY ListVirtualFacts
<1>4. NoneMissing' => \A j \in 1..Len(disks') : disks'[j].index = j - 1
  <2> SUFFICES ASSUME NoneMissing', NEW j \in 1..Len(disks') PROVE disks'[j].index = j - 1
    OBVIOUS
  <2>1. CASE j > Len(disks)
    BY <1>3, <2>1
  <2>2. CASE ~(j > Len(disks))
    <3>1. j \in 1..Len(disks) /\ disks'[j] = disks[j]
      BY <1>3, <2>2
    <3>2. disks[j].index = IF j - 1 < g THEN j - 1 ELSE j
      BY <1>2, <3>1 DEF ProbeAt
    <3>3. ASSUME ~(j - 1 < g) PROVE FALSE
      <4>1. disks[j].index = j /\ g \in 0..j /\ g < probe.i
        BY <1>2, <1>3, <3>1, <3>2, <3>3 DEF ProbeAt, TypeInv
      <4>2. Missing(g)
        BY <1>2, <4>1 DEF ProbeAt, TypeInv
      <4>3. j \in DOMAIN machine.drives
        <5>1. disks[j].index \in {n \in DOMAIN machine.drives : n < probe.i}
          BY <1>2, <3>1, IndicesBelow
        <5> QED BY <4>1, <5>1
      <4>4. \A m \in 0..j : ~Missing(m)
        BY <1>1, <4>3 DEF NoneMissing, Missing
      <4> QED BY <4>1, <4>2, <4>4
    <3> QED BY <3>1, <3>2, <3>3
  <2> QED BY <2>1, <2>2
<1>5. OneGap' => {d.index : d \in Physical'} = DOMAIN machine'.drives
  <2>1. Physical' = {disks[j] : j \in 1..Len(disks)}
    <3>1. ToSet(disks') = {disks'[j] : j \in 1..Len(disks')}
      BY <1>3, SeqFacts
    <3>2. \A j \in 1..Len(disks) : ~disks[j].virtual /\ j \in 1..Len(disks')
      BY <1>2, <1>3 DEF ProbeAt
    <3>3. \A j \in 1..Len(disks') : j \in 1..Len(disks) \/ j > Len(disks)
      BY <1>3
    <3> QED BY <1>3, <3>1, <3>2, <3>3 DEF Physical
  <2>2. {d.index : d \in Physical'} = {disks[j].index : j \in 1..Len(disks)}
    BY <2>1
  <2>3. OneGap' => \A n \in DOMAIN machine.drives : n < probe.i
    <3>1. OneGap' => OneGap
      BY <1>1 DEF OneGap, Missing
    <3> QED BY <1>1, <1>2, <3>1, AllWereLookedAt
  <2> QED BY <1>1, <1>2, <2>2, <2>3, IndicesBelow
<1> QED BY <1>4, <1>5 DEF ListedInv

LEMMA ListedStep == TypeInv /\ ProbeInv /\ ListedInv /\ [Next]_vars => ListedInv'
<1> SUFFICES ASSUME TypeInv, ProbeInv, ListedInv, [Next]_vars PROVE ListedInv'
  OBVIOUS
<1>1. CASE UNCHANGED vars
  BY <1>1 DEF vars, ListedInv, NoneMissing, OneGap, Missing, Physical
<1>2. CASE \/ List \/ ProbeDisk \/ ProbeMissing \/ ProbeBound \/ ReadMbr \/ NextEntry
           \/ EntriesEnd \/ EnterContainer \/ ReadEbr \/ EbrFails \/ SkipGpt \/ ReadHeader
           \/ ReadEntries \/ EntriesOver \/ ReadInfo \/ Layout \/ AddVolume \/ AddDisk
           \/ VirtualFails
  <2>1. pc' # "listed"
    BY <1>2 DEF List, ProbeDisk, ProbeMissing, ProbeBound, ReadMbr, NextEntry, EntriesEnd,
         EnterContainer, ReadEbr, EbrFails, SkipGpt, ReadHeader, ReadEntries, EntriesOver,
         ReadInfo, Layout, AddVolume, AddDisk, VirtualFails, Goto, Crash
  <2> QED BY <2>1 DEF ListedInv
<1>3. CASE InfoDisks \/ InfoDisk \/ InfoVolume \/ InfoAlone \/ Backup
  <2>1. pc' # "listed"
    BY <1>3 DEF InfoDisks, InfoDisk, InfoVolume, InfoAlone, Backup, Over, Goto
  <2> QED BY <2>1 DEF ListedInv
<1> QED BY <1>1, <1>2, <1>3, ListVirtualListed DEF Next

-----------------------------------------------------------------------------
LEMMA FallbackSame ==
  ASSUME NEW d, NEW e, d.protective = e.protective, d.mbr = e.mbr, d.ebrs = e.ebrs,
         d.gpt = e.gpt
  PROVE  Fallback(d) = Fallback(e)
<1>1. \A i \in 1..4 : OfEntry(d, i) = OfEntry(e, i)
  <2> TAKE i \in 1..4
  <2>1. \A S : Before(d, i, S) = Before(e, i, S)
    BY DEF Before
  <2>2. FirstNumber(d, i) = FirstNumber(e, i)
    BY <2>1 DEF FirstNumber
  <2> QED BY <2>2 DEF OfEntry
<1> QED BY <1>1 DEF Fallback

LEMMA FilesystemFacts ==
  ASSUME NEW b, NEW style, NEW type
  PROVE  Filesystem(b, style, type) \in {"NTFS", "Bitlocker"} <=> b \in {"ntfs", "fve"}
BY DEF Filesystem

LEMMA AddedIsFormed ==
  ASSUME TypeInv, pc = "volumes", todo # <<>>,
         NEW m \in MakeVolume(machine.os, disk.index, Head(todo), BootAt(Head(todo).pos),
                              Drive.sound, NoName)
  PROVE  Formed(machine, disk.index, m.volume) /\ MadeOf(m.volume, Head(todo))
<1> DEFINE p == Head(todo)
           boot == BootAt(p.pos)
           sound == Drive.sound
           v == m.volume
<1>1. IsDrive(Drive)
  BY DriveIsDrive DEF Building
<1>2. sound \in BOOLEAN /\ m \in MakeVolume(machine.os, disk.index, p, boot, sound, NoName)
  BY <1>1 DEF IsDrive
<1>3. boot = IF p.pos \in DOMAIN machine.drives[disk.index].boot
             THEN machine.drives[disk.index].boot[p.pos] ELSE "other"
  BY DEF BootAt, Drive
<1>4. sound = machine.drives[disk.index].sound
  BY DEF Drive
<1> HIDE DEF p, boot, sound, v
<1>5. /\ v.index = p.number /\ v.pos = p.pos /\ v.len = p.len
      /\ v.name = FoundName(machine.os, disk.index, p, NoName)
      /\ v.about \in InfoByName(machine.os, FoundName(machine.os, disk.index, p, NoName))
      /\ \E b \in {boot, "zeros"} :
           /\ ~SeekSeen(p.pos) => b = "zeros"
           /\ sound /\ SeekSeen(p.pos) => b = boot
           /\ v.fs = Filesystem(b, p.style, p.type)
  BY <1>2, MadeFacts DEF v
<1>6. v.name = FindVolumeName(machine.os, disk.index, v.pos, v.len)
      /\ v.about \in InfoByName(machine.os, v.name)
  BY <1>5 DEF FoundName
<1>7. PICK b \in {boot, "zeros"} :
        /\ sound /\ SeekSeen(p.pos) => b = boot
        /\ IsNtfs(v) <=> b \in {"ntfs", "fve"}
  BY <1>5, FilesystemFacts DEF IsNtfs
<1>8. boot \in {"ntfs", "fve"} <=> BeginsAsNtfs(machine.drives[disk.index], v.pos)
  BY <1>3, <1>5 DEF BeginsAsNtfs
<1>9. IsNtfs(v) => BeginsAsNtfs(machine.drives[disk.index], v.pos)
  BY <1>7, <1>8
<1>10. BeginsAsNtfs(machine.drives[disk.index], v.pos) /\ machine.drives[disk.index].sound
         /\ SeekSeen(v.pos) => IsNtfs(v)
  BY <1>4, <1>5, <1>7, <1>8
<1> QED BY <1>5, <1>6, <1>9, <1>10 DEF Formed, MadeOf, v, p

LEMMA AddVolumeVolumes ==
  ASSUME TypeInv, VolumesInv, AddVolume, pc' = "volumes"
  PROVE  VolumesInv'
<1>1. /\ todo # <<>> /\ pc = "volumes" /\ todo' = Tail(todo) /\ machine' = machine
  BY AddVolumeFacts DEF AddVolume
<1>2. PICK m \in MakeVolume(machine.os, disk.index, Head(todo), BootAt(Head(todo).pos),
                            Drive.sound, NoName) :
        disk' = [disk EXCEPT !.volumes = Append(@, m.volume)]
  BY AddVolumeFacts
<1>3. Formed(machine, disk.index, m.volume) /\ MadeOf(m.volume, Head(todo))
  BY <1>1, AddedIsFormed
<1> DEFINE v == m.volume
           old == disk.volumes
           more == Append(old, v)
<1>4. IsDisk(disk) /\ todo \in Seq(Partition) /\ IsSeq(old)
  BY <1>1 DEF TypeInv, IsDisk
<1>5. /\ disk'.volumes = more /\ disk'.index = disk.index /\ disk'.mbr = disk.mbr
      /\ disk'.protective = disk.protective /\ disk'.ebrs = disk.ebrs /\ disk'.gpt = disk.gpt
  BY <1>2, <1>4 DEF IsDisk
<1>6. Fallback(disk') = Fallback(disk)
  BY <1>5, FallbackSame
<1>7. /\ Len(more) = Len(old) + 1 /\ \A j \in 1..Len(old) : more[j] = old[j]
      /\ more[Len(old) + 1] = v /\ Len(old) \in Nat
  BY <1>4, AppendFacts, SeqFacts
<1>8. /\ Head(todo) = todo[1] /\ Len(todo) \in Nat /\ Len(todo) >= 1
      /\ Len(todo') = Len(todo) - 1
      /\ \A j \in 1..(Len(todo) - 1) : todo'[j] = todo[j + 1]
  BY <1>1, <1>4, HeadFacts
<1> HIDE DEF v, more
<1> DEFINE n == Len(old)
           l == Len(todo)
           F == Fallback(disk)
<1>9. \A j \in 1..Len(more) : j \in 1..n \/ j = n + 1
  BY <1>7
<1>10. \A j \in 1..Len(more) : Formed(machine, disk.index, more[j])
  <2>1. \A j \in 1..n : Formed(machine, disk.index, old[j])
    BY <1>1 DEF VolumesInv
  <2> QED BY <1>3, <1>7, <1>9, <2>1 DEF v
<1>11. ~Drive.layout.ok =>
         /\ Len(more) + Len(todo') = Len(F)
         /\ \A j \in 1..Len(more) : MadeOf(more[j], F[j])
         /\ \A j \in 1..Len(todo') : todo'[j] = F[Len(more) + j]
  <2> SUFFICES ASSUME ~Drive.layout.ok
               PROVE  /\ Len(more) + Len(todo') = Len(F)
                      /\ \A j \in 1..Len(more) : MadeOf(more[j], F[j])
                      /\ \A j \in 1..Len(todo') : todo'[j] = F[Len(more) + j]
    OBVIOUS
  <2>1. /\ n + l = Len(F) /\ \A j \in 1..n : MadeOf(old[j], F[j])
        /\ \A j \in 1..l : todo[j] = F[n + j]
    BY <1>1 DEF VolumesInv
  <2> HIDE DEF n, l, F
  <2>2. Len(more) = n + 1 /\ Len(todo') = l - 1 /\ n \in Nat /\ l \in Nat /\ l >= 1
    BY <1>7, <1>8 DEF n, l
  <2>3. Len(more) + Len(todo') = Len(F)
    <3>1. (n + 1) + (l - 1) = n + l
      BY ONLY <2>2
    <3>2. Len(more) + Len(todo') = (n + 1) + (l - 1)
      BY ONLY <2>2
    <3> QED BY ONLY <2>1, <3>1, <3>2
  <2>4. 1 \in 1..l /\ \A j \in 1..(l - 1) : j + 1 \in 1..l /\ n + (j + 1) = (n + 1) + j
    BY <2>2
  <2>5. MadeOf(v, F[n + 1])
    BY <1>3, <1>8, <2>1, <2>4 DEF v
  <2>6. \A j \in 1..Len(more) : MadeOf(more[j], F[j])
    BY <1>7, <1>9, <2>1, <2>5 DEF n
  <2>7. \A j \in 1..Len(todo') : todo'[j] = F[Len(more) + j]
    BY <1>8, <2>1, <2>2, <2>4 DEF l
  <2> QED BY <2>3, <2>6, <2>7
<1>12. Drive' = Drive
  BY <1>1, <1>5 DEF Drive
<1> HIDE DEF old, n, l, F
<1> QED BY <1>1, <1>5, <1>6, <1>10, <1>11, <1>12 DEF VolumesInv, F

LEMMA VolumesStep == TypeInv /\ VolumesInv /\ [Next]_vars => VolumesInv'
<1> SUFFICES ASSUME TypeInv, VolumesInv, [Next]_vars PROVE VolumesInv'
  OBVIOUS
<1>1. CASE UNCHANGED vars
  BY <1>1 DEF vars, scan, VolumesInv, Drive
<1>2. ASSUME pc' \notin Building PROVE VolumesInv'
  BY <1>2 DEF VolumesInv, Building
<1>3. ASSUME pc' \in Building \ {"volumes"}, disk'.volumes = <<>> PROVE VolumesInv'
  BY <1>3 DEF VolumesInv
<1>4. CASE \/ List \/ ProbeMissing \/ ProbeBound \/ AddDisk \/ ListVirtual \/ VirtualFails
           \/ InfoDisks \/ InfoDisk \/ InfoVolume \/ InfoAlone \/ Backup
  <2>1. pc' \in {"probe", "virtual", "listed", "failed", "list", "over"}
    BY <1>4 DEF List, ProbeMissing, ProbeBound, AddDisk, ListVirtual, VirtualFails,
         InfoDisks, InfoDisk, InfoVolume, InfoAlone, Backup, Goto, Over
  <2> QED BY <1>2, <2>1 DEF Building
<1>5. CASE ProbeDisk
  <2>1. pc' = "mbr" /\ disk'.volumes = <<>>
    BY <1>5 DEF ProbeDisk, Goto, NewDisk
  <2> QED BY <1>3, <2>1 DEF Building
<1>6. CASE \/ ReadMbr \/ NextEntry \/ EntriesEnd \/ EnterContainer \/ ReadEbr
           \/ EbrFails \/ SkipGpt \/ ReadHeader \/ ReadEntries \/ EntriesOver \/ ReadInfo
  <2>1. pc \in Building \ {"volumes"}
    BY <1>6 DEF ReadMbr, NextEntry, EntriesEnd, EnterContainer, ReadEbr, EbrFails,
         SkipGpt, ReadHeader, ReadEntries, EntriesOver, ReadInfo, Building
  <2>2. pc' \in Building \ {"volumes"}
    BY <1>6 DEF ReadMbr, NextEntry, EntriesEnd, EnterContainer, ReadEbr, EbrFails,
         SkipGpt, ReadHeader, ReadEntries, EntriesOver, ReadInfo, Building, Goto
  <2>3. IsDisk(disk) /\ disk.volumes = <<>>
    BY <2>1 DEF TypeInv, VolumesInv
  <2>4. disk'.volumes = disk.volumes
    <3>1. CASE \/ NextEntry \/ EntriesEnd \/ EnterContainer \/ EbrFails \/ SkipGpt
               \/ ReadHeader \/ EntriesOver
      BY <3>1 DEF NextEntry, EntriesEnd, EnterContainer, EbrFails, SkipGpt, ReadHeader,
           EntriesOver, scan
    <3>2. CASE ReadMbr
      BY <2>3, <3>2 DEF ReadMbr, IsDisk
    <3>3. CASE ReadEbr
      <4>1. disk' = disk \/ \E e : disk' = [disk EXCEPT !.ebrs = e]
        BY <3>3 DEF ReadEbr
      <4> QED BY <2>3, <4>1 DEF IsDisk
    <3>4. CASE ReadEntries
      <4>1. \E e : disk' = [disk EXCEPT !.gpt = e]
        BY <3>4 DEF ReadEntries
      <4> QED BY <2>3, <4>1 DEF IsDisk
    <3>5. CASE ReadInfo
      <4>1. \E e : disk' = [disk EXCEPT !.about = e]
        BY <3>5 DEF ReadInfo
      <4> QED BY <2>3, <4>1 DEF IsDisk
    <3> QED BY <1>6, <3>1, <3>2, <3>3, <3>4, <3>5
  <2> QED BY <1>3, <2>2, <2>3, <2>4
<1>7. CASE Layout
  <2>1. pc = "layout" /\ pc' = "volumes" /\ machine' = machine
    BY <1>7 DEF Layout, Goto
  <2>2. IsDisk(disk) /\ disk.volumes = <<>>
    BY <2>1 DEF TypeInv, VolumesInv, Building
  <2>3. disk'.volumes = <<>> /\ Drive' = Drive
    <3>1. disk' = disk \/ \E e : disk' = [disk EXCEPT !.style = e]
      BY <1>7 DEF Layout
    <3>2. disk'.volumes = disk.volumes /\ disk'.index = disk.index
      BY <2>2, <3>1 DEF IsDisk
    <3> QED BY <2>1, <2>2, <3>2 DEF Drive
  <2>4. Len(disk'.volumes) = 0 /\ 1..0 = {}
    BY <2>3
  <2>5. ~Drive.layout.ok => todo' = Fallback(disk) /\ disk' = disk
    BY <1>7 DEF Layout
  <2>6. Fallback(disk) \in Seq(Partition)
    BY <2>2, FallbackType
  <2> DEFINE F == Fallback(disk)
             l == Len(F)
  <2>7. l \in Nat /\ 0 + l = l /\ \A j \in 1..l : 0 + j = j
    BY <2>6
  <2>8. ~Drive.layout.ok => Fallback(disk)' = F /\ todo' = F
    BY <2>5
  <2> HIDE DEF F, l
  <2>9. ~Drive.layout.ok =>
          /\ Len(disk'.volumes) + Len(todo') = Len(F)
          /\ \A j \in 1..Len(todo') : todo'[j] = F[Len(disk'.volumes) + j]
    BY <2>4, <2>7, <2>8 DEF l
  <2>10. ~Drive'.layout.ok =>
          /\ Len(disk'.volumes) + Len(todo') = Len(Fallback(disk)')
          /\ \A j \in 1..Len(todo') : todo'[j] = Fallback(disk)'[Len(disk'.volumes) + j]
    BY <2>3, <2>8, <2>9
  <2> QED BY <2>1, <2>4, <2>10 DEF VolumesInv
<1>8. CASE AddVolume
  <2>1. pc' = "over" \/ pc' = "volumes"
    BY <1>8 DEF AddVolume, Crash, Goto
  <2> QED BY <1>2, <1>8, <2>1, AddVolumeVolumes DEF Building
<1> QED BY <1>1, <1>4, <1>5, <1>6, <1>7, <1>8 DEF Next

-----------------------------------------------------------------------------
(***************************************************************************)
(* The EBRs of a container, one after the other.  A chain that ends does   *)
(* not come back to where it was: the steps behind two equal places are    *)
(* the same, so the earlier one would never be left.                       *)
(***************************************************************************)
Follows(at, D, c) ==
  /\ at \in [1..(MaxEbrs + 1) -> Nat]
  /\ at[1] = c
  /\ \A n \in 1..MaxEbrs : at[n + 1] = After(D, c, at[n])

LEMMA DriveFacts ==
  ASSUME NEW D, IsDrive(D)
  PROVE  /\ \A p : IsEbr(D, p) => p \in Nat \ {0} /\ D.chain[p] \in EbrSector
         /\ \A i \in 1..4 : D.mbr[i] \in MbrEntry
         /\ \A i \in 1..4 : D.mbr[i].pos \in Nat
         /\ \A i \in 1..4 : D.mbr[i].type = 15 => D.mbr[i].pos # 0
<1>1. \A i \in 1..4 : D.mbr[i] \in MbrEntry
  BY DEF IsDrive
<1>2. \A i \in 1..4 : D.mbr[i].pos \in 0..(Lba - 1)
  BY <1>1 DEF MbrEntry
<1>3. \A i \in 1..4 : D.mbr[i].pos \in Nat
  BY <1>2, ScanAssumption
<1> QED BY <1>1, <1>3 DEF IsDrive, IsEbr, Extended

LEMMA SectorFacts ==
  ASSUME NEW e \in EbrSector
  PROVE  e.part \in MbrEntry /\ e.part.pos \in Nat /\ e.next \in Nat /\ e.valid \in BOOLEAN
<1>1. e.part \in MbrEntry /\ e.next \in 0..(Lba - 1) /\ e.valid \in BOOLEAN
  BY DEF EbrSector
<1>2. e.part.pos \in 0..(Lba - 1)
  BY <1>1 DEF MbrEntry
<1> QED BY <1>1, <1>2, ScanAssumption

LEMMA PlacesFollow ==
  ASSUME NEW D, IsDrive(D), NEW c \in Nat
  PROVE  Follows(Places(D, c), D, c)
<1> DEFINE m == MaxEbrs + 1
           step == [h \in 1..m |-> [x \in Nat |-> After(D, c, x)]]
           V(f) == f = [n \in 1..m |-> IF n = 1 THEN c ELSE After(D, c, f[n - 1])]
<1>1. m \in Nat /\ 1 \in 1..m /\ MaxEbrs \in Nat
  BY ScanAssumption
<1>2. \A x \in Nat : After(D, c, x) \in Nat
  <2> SUFFICES ASSUME NEW x \in Nat PROVE After(D, c, x) \in Nat
    OBVIOUS
  <2>1. CASE IsEbr(D, x) /\ D.chain[x].next # 0
    <3>1. D.chain[x].next \in Nat
      BY <2>1, DriveFacts, SectorFacts
    <3> QED BY <2>1, <3>1 DEF After
  <2>2. CASE ~(IsEbr(D, x) /\ D.chain[x].next # 0)
    BY <2>2 DEF After
  <2> QED BY <2>1, <2>2
<1>3. IsSteps(step, m, Nat)
  BY <1>2 DEF IsSteps
<1>4. PICK f : IsMadeBy(f, m, Nat, c, step)
  <2> HIDE DEF step, m
  <2> QED BY <1>1, <1>3, RecursiveFunction
<1>5. f \in [1..m -> Nat]
  BY <1>4 DEF IsMadeBy
<1>6. \A h \in 1..m : f[h] = IF h = 1 THEN c ELSE After(D, c, f[h - 1])
  <2> SUFFICES ASSUME NEW h \in 1..m
               PROVE  f[h] = IF h = 1 THEN c ELSE After(D, c, f[h - 1])
    OBVIOUS
  <2>1. f[h] = IF h = 1 THEN c ELSE step[h][f[h - 1]]
    <3> HIDE DEF step
    <3> QED BY <1>4 DEF IsMadeBy
  <2>2. h # 1 => f[h - 1] \in Nat
    <3>1. h # 1 => h - 1 \in 1..m
      BY <1>1
    <3> QED BY <1>5, <3>1
  <2> QED BY <2>1, <2>2
<1>7. V(f)
  <2>1. f = [h \in 1..m |-> f[h]]
    BY <1>5
  <2> HIDE DEF m
  <2>2. [h \in 1..m |-> f[h]] = [n \in 1..m |-> IF n = 1 THEN c ELSE After(D, c, f[n - 1])]
    BY <1>6
  <2> QED BY <2>1, <2>2
<1>8. Places(D, c) = CHOOSE v : V(v)
  BY DEF Places
<1>9. V(Places(D, c))
  <2> HIDE DEF V
  <2> QED BY <1>7, <1>8
<1> DEFINE at == Places(D, c)
<1>10. \A n \in 1..m : at[n] = IF n = 1 THEN c ELSE After(D, c, at[n - 1])
  BY <1>9
<1>11. at = f
  <2>1. \A n \in 1..m : n \in {k \in 1..m : at[k] = f[k]}
    <3> DEFINE P == {k \in 1..m : at[k] = f[k]}
    <3> HIDE DEF at
    <3>1. 1 \in P
      BY <1>1, <1>6, <1>10
    <3>2. ASSUME NEW n \in 1..(m - 1), n \in P PROVE n + 1 \in P
      <4>1. n + 1 \in 1..m /\ n + 1 # 1 /\ (n + 1) - 1 = n
        BY <1>1
      <4> QED BY <1>6, <1>10, <3>2, <4>1
    <3> HIDE DEF P, m
    <3>3. 1..m \subseteq P
      BY <1>1, <3>1, <3>2, Induction
    <3> QED BY <3>3 DEF P
  <2>2. DOMAIN at = 1..m /\ DOMAIN f = 1..m /\ at = [n \in 1..m |-> at[n]]
    BY <1>5, <1>9
  <2> HIDE DEF at, m
  <2> QED BY <2>1, <2>2, <1>5
<1>12. \A n \in 1..MaxEbrs : n + 1 \in 1..m /\ n + 1 # 1 /\ (n + 1) - 1 = n
  BY <1>1
<1>13. at[1] = c /\ \A n \in 1..MaxEbrs : at[n + 1] = After(D, c, at[n])
  <2> HIDE DEF at
  <2> QED BY <1>1, <1>10, <1>12
<1> QED BY <1>5, <1>11, <1>13 DEF Follows

LEMMA AfterTheEnd ==
  ASSUME NEW D, IsDrive(D), NEW c \in Nat, NEW at, Follows(at, D, c),
         NEW n \in 1..(MaxEbrs + 1), at[n] = 0
  PROVE  \A k \in n..(MaxEbrs + 1) : at[k] = 0
<1> DEFINE m == MaxEbrs + 1
           P == {k \in n..m : at[k] = 0}
<1>1. m \in Nat /\ MaxEbrs \in Nat /\ n \in Nat /\ n <= m
  BY ScanAssumption
<1>2. n \in P
  BY <1>1
<1>3. ASSUME NEW k \in n..(m - 1), k \in P PROVE k + 1 \in P
  <2>1. k \in 1..MaxEbrs /\ k + 1 \in n..m
    BY <1>1
  <2>2. at[k + 1] = After(D, c, 0)
    BY <1>3, <2>1 DEF Follows
  <2>3. ~IsEbr(D, 0)
    BY DriveFacts
  <2> QED BY <2>1, <2>2, <2>3 DEF After
<1> HIDE DEF P, m
<1>4. n..m \subseteq P
  BY <1>1, <1>2, <1>3, Induction
<1> QED BY <1>4 DEF P, m

LEMMA NoPlaceTwice ==
  ASSUME NEW D, IsDrive(D), NEW c \in Nat, NEW at, Follows(at, D, c), at[MaxEbrs + 1] = 0,
         NEW a \in 1..(MaxEbrs + 1), NEW b \in 1..(MaxEbrs + 1), a < b, at[a] = at[b]
  PROVE  at[a] = 0
<1> DEFINE m == MaxEbrs + 1
           s == b - a
           Z == {k \in 1..m : at[k] = 0}
<1>1. m \in Nat /\ MaxEbrs \in Nat /\ a \in Nat /\ b \in Nat /\ s \in Nat \ {0} /\ b <= m
      /\ s < b /\ 1 <= a
  BY ScanAssumption
<1>2. SUFFICES ASSUME at[a] # 0 PROVE FALSE
  OBVIOUS
<1>3. PICK z \in Z : \A k \in Z : z <= k
  <2>1. Z \in SUBSET Nat /\ m \in Z
    BY <1>1
  <2> HIDE DEF Z
  <2> QED BY <2>1, NatMin
<1>4. z \in 1..m /\ at[z] = 0 /\ \A k \in 1..m : at[k] = 0 => z <= k
  BY <1>3
<1> HIDE DEF Z, s
<1>5. ~(z <= b)
  <2>1. CASE z <= b
    <3>1. b \in z..(MaxEbrs + 1)
      BY <1>1, <1>4, <2>1
    <3>2. at[b] = 0
      BY <1>4, <3>1, AfterTheEnd
    <3> QED BY <1>2, <3>2
  <2> QED BY <2>1
<1> DEFINE P == {k \in b..m : at[k - s] = at[k]}
<1>6. b \in P
  BY <1>1 DEF s
<1>7. ASSUME NEW k \in b..(m - 1), k \in P PROVE k + 1 \in P
  <2>1. k \in 1..MaxEbrs /\ k - s \in 1..MaxEbrs /\ k + 1 \in b..m
        /\ (k - s) + 1 = (k + 1) - s
    BY <1>1
  <2>2. at[k + 1] = After(D, c, at[k]) /\ at[(k - s) + 1] = After(D, c, at[k - s])
    BY <2>1 DEF Follows
  <2> QED BY <1>7, <2>1, <2>2
<1> HIDE DEF P, m
<1>8. b..m \subseteq P
  BY <1>1, <1>6, <1>7, Induction
<1>9. z \in b..m
  BY <1>1, <1>4, <1>5
<1>10. at[z - s] = 0
  BY <1>4, <1>8, <1>9 DEF P
<1>11. z - s \in 1..m /\ ~(z <= z - s)
  BY <1>1, <1>4, <1>5
<1> QED BY <1>4, <1>10, <1>11

(* The first n places of a chain are its EBRs, and no other. *)
ChainIs(D, at, n) ==
  /\ \A k \in 1..n : IsEbr(D, at[k])
  /\ \A k \in (n + 1)..(MaxEbrs + 1) : ~IsEbr(D, at[k])

LEMMA ChainMatches ==
  ASSUME NEW D, IsDrive(D), NEW c \in Nat, Places(D, c)[MaxEbrs + 1] = 0,
         NEW es \in Seq(MbrEntry), ChainIs(D, Places(D, c), Len(es)), Len(es) <= MaxEbrs,
         \A k \in 1..Len(es) :
           es[k].pos = Places(D, c)[k] + D.chain[Places(D, c)[k]].part.pos
  PROVE  Matches(es, InChain(D, c))
<1> DEFINE at == Places(D, c)
           n == Len(es)
           place(p) == [in |-> p, entry |-> 1, pos |-> p + D.chain[p].part.pos]
           w == [k \in 1..n |-> place(at[k])]
<1>1. Follows(at, D, c) /\ n \in Nat /\ n <= MaxEbrs /\ MaxEbrs \in Nat
  BY PlacesFollow, ScanAssumption
<1> HIDE DEF at, n
<1>2. at \in [1..(MaxEbrs + 1) -> Nat]
  BY <1>1 DEF Follows
<1>3. InChain(D, c) = {place(p) : p \in Chain(D, c)}
  BY DEF InChain
<1>4. Chain(D, c) = {at[k] : k \in 1..n}
  <2>1. Chain(D, c) = {p \in {at[k] : k \in 1..(MaxEbrs + 1)} : IsEbr(D, p)}
    BY <1>2 DEF Chain, Range, at
  <2>2. \A k \in 1..(MaxEbrs + 1) : IsEbr(D, at[k]) <=> k \in 1..n
    <3>1. \A k \in 1..(MaxEbrs + 1) : k \in 1..n \/ k \in (n + 1)..(MaxEbrs + 1)
      BY <1>1
    <3> QED BY <3>1 DEF ChainIs, at, n
  <2>3. \A k \in 1..n : k \in 1..(MaxEbrs + 1)
    BY <1>1
  <2> QED BY <2>1, <2>2, <2>3
<1>5. w \in [1..n -> InChain(D, c)]
  BY <1>3, <1>4
<1>6. \A p \in InChain(D, c) : \E a \in 1..n : w[a] = p
  BY <1>3, <1>4
<1>7. ASSUME NEW a \in 1..n, NEW b \in 1..n, w[a] = w[b] PROVE a = b
  <2>1. at[a] = at[b]
    <3>1. w[a].in = at[a] /\ w[b].in = at[b]
      OBVIOUS
    <3> QED BY <1>7, <3>1
  <2>2. at[a] # 0 /\ at[b] # 0
    BY DriveFacts DEF ChainIs, at, n
  <2>3. a \in 1..(MaxEbrs + 1) /\ b \in 1..(MaxEbrs + 1)
    BY <1>1
  <2>4. at[MaxEbrs + 1] = 0
    BY DEF at
  <2>5. ~(a < b) /\ ~(b < a)
    BY <1>1, <2>1, <2>2, <2>3, <2>4, NoPlaceTwice
  <2> QED BY <2>3, <2>5
<1>8. \A a \in 1..n : es[a].pos = w[a].pos
  BY DEF at, n
<1> HIDE DEF w
<1> QED BY <1>5, <1>6, <1>7, <1>8 DEF Matches, n

LEMMA ChainEnds ==
  ASSUME NEW D, IsDrive(D), NEW c \in Nat, NEW n \in 0..MaxEbrs,
         \A k \in 1..n : IsEbr(D, Places(D, c)[k]), ~IsEbr(D, Places(D, c)[n + 1])
  PROVE  ChainIs(D, Places(D, c), n)
<1> DEFINE at == Places(D, c)
           m == MaxEbrs + 1
<1>1. Follows(at, D, c) /\ MaxEbrs \in Nat
  BY PlacesFollow, ScanAssumption
<1>2. (\A k \in 1..n : IsEbr(D, at[k])) /\ ~IsEbr(D, at[n + 1])
  OBVIOUS
<1> HIDE DEF at
<1>3. ASSUME NEW k \in (n + 1)..m, k # n + 1 PROVE ~IsEbr(D, at[k])
  <2>1. n + 1 \in 1..MaxEbrs /\ (n + 1) + 1 \in 1..m /\ k \in ((n + 1) + 1)..m
    BY <1>1, <1>3
  <2>2. at[(n + 1) + 1] = After(D, c, at[n + 1])
    BY <1>1, <2>1 DEF Follows
  <2>3. at[(n + 1) + 1] = 0
    BY <1>2, <2>2 DEF After
  <2>4. at[k] = 0
    BY <1>1, <2>1, <2>3, AfterTheEnd
  <2> QED BY <2>4, DriveFacts
<1> QED BY <1>2, <1>3 DEF ChainIs, at

LEMMA MovedRight ==
  ASSUME NEW D, IsDrive(D), Orderly(D), NEW p, IsEbr(D, p)
  PROVE  ((p % Lba) + D.chain[p].part.pos) % Lba = p + D.chain[p].part.pos
<1> DEFINE q == D.chain[p].part.pos
<1>1. p \in Nat /\ q \in Nat /\ p + q < Lba /\ Lba \in Nat \ {0}
  BY DriveFacts, SectorFacts, ScanAssumption DEF Orderly, IsEbr
<1> HIDE DEF q
<1>2. p \in 0..(Lba - 1) /\ p + q \in 0..(Lba - 1)
  BY <1>1
<1>3. \A x \in 0..(Lba - 1) : x % Lba = x
  BY <1>1, ModRange
<1>4. p % Lba = p
  BY <1>2, <1>3
<1>5. ((p % Lba) + q) % Lba = (p + q) % Lba
  BY <1>4
<1>6. (p + q) % Lba = p + q
  BY <1>2, <1>3
<1> QED BY <1>5, <1>6 DEF q

LEMMA ReadEbrTables ==
  ASSUME TypeInv, TablesInv, ReadEbr
  PROVE  TablesInv'
<1> DEFINE D == Drive
           e == Ebr(ext.at)
           c == Entry.pos
           at == Places(D, c)
           n == Len(disk.ebrs)
           added == [e.part EXCEPT !.pos = (ext.last + @) % Lba]
<1>1. /\ IsDisk(disk) /\ pc = "ebr" /\ IsDrive(D) /\ disk.ebrs \in Seq(MbrEntry)
      /\ ext \in [i : 1..5, at : Nat, last : Nat] /\ ext.i \in 1..4 /\ n \in Nat
  <2>1. pc = "ebr"
    BY DEF ReadEbr
  <2>2. IsDrive(D)
    BY <2>1, DriveIsDrive DEF Building
  <2>3. /\ IsDisk(disk) /\ ext \in [i : 1..5, at : Nat, last : Nat] /\ ext.i \in 1..4
    BY <2>1 DEF TypeInv
  <2>4. disk.ebrs \in Seq(MbrEntry)
    BY <2>3 DEF IsDisk
  <2> QED BY <2>1, <2>2, <2>3, <2>4, LenProperties
<1>2. /\ \/ /\ ~e.valid /\ ext' = [ext EXCEPT !.i = @ + 1] /\ pc' = "ext" /\ disk' = disk
         \/ /\ e.valid /\ e.next = 0 /\ ext' = [ext EXCEPT !.i = @ + 1] /\ pc' = "ext"
            /\ disk' = [disk EXCEPT !.ebrs = Append(@, added)]
         \/ /\ e.valid /\ e.next # 0 /\ pc' = "ebr"
            /\ ext' = [ext EXCEPT !.at = c + e.next, !.last = (c + e.next) % Lba]
            /\ disk' = [disk EXCEPT !.ebrs = Append(@, added)]
      /\ machine' = machine
  BY <1>1 DEF ReadEbr, Goto
<1>3. /\ disk'.index = disk.index /\ disk'.mbr = disk.mbr /\ disk'.gpt = disk.gpt
      /\ disk'.protective = disk.protective
  <2>1. disk' = disk \/ disk' = [disk EXCEPT !.ebrs = Append(@, added)]
    BY <1>2
  <2> HIDE DEF added
  <2> QED BY <1>1, <2>1 DEF IsDisk
<1>4. Drive' = D
  BY <1>2, <1>3 DEF Drive
<1> SUFFICES ASSUME Orderly(D) PROVE TablesInv'
  BY <1>4 DEF TablesInv
<1>5. /\ MbrRead(disk, D) /\ disk.gpt = <<>> /\ D.mbr[ext.i].type = 15
      /\ OnTheWay(D, disk.ebrs, D.mbr[ext.i].pos, ext.last, ext.at)
  BY <1>1 DEF TablesInv, EbrsInv, GptInv, Building
<1>6. c = D.mbr[ext.i].pos /\ c \in Nat
  BY <1>1, <1>5, DriveFacts DEF MbrRead, Entry
<1>7. MbrRead(disk', D)
  BY <1>3, <1>5 DEF MbrRead
<1>8. /\ n + 1 <= MaxEbrs /\ at[n + 1] = ext.at /\ ext.at # 0 /\ ext.last = ext.at % Lba
      /\ \A k \in 1..n : Linked(D, at, k, disk.ebrs[k])
  BY <1>5, <1>6 DEF OnTheWay
<1>9. (e.valid <=> IsEbr(D, ext.at)) /\ (IsEbr(D, ext.at) => e = D.chain[ext.at])
  BY DEF Ebr, IsEbr, NoEbr
<1>10. Follows(at, D, c) /\ MaxEbrs \in Nat /\ at[MaxEbrs + 1] = 0
  <2>1. Places(D, D.mbr[ext.i].pos)[MaxEbrs + 1] = 0
    BY <1>1, <1>5 DEF Orderly, Acyclic, Extended
  <2> QED BY <1>1, <1>6, <2>1, PlacesFollow, ScanAssumption
<1>11. \A k \in 1..4 : D.mbr[k].type = 15 => k = ext.i
  BY <1>1, <1>5 DEF Orderly
<1>12. ASSUME e.valid
       PROVE  /\ added.pos = ext.at + D.chain[ext.at].part.pos /\ added \in MbrEntry
              /\ at[(n + 1) + 1] = IF e.next # 0 THEN c + e.next ELSE 0
  <2>1. IsEbr(D, ext.at) /\ e = D.chain[ext.at]
    BY <1>9, <1>12
  <2>2. e.part \in MbrEntry /\ ext.last \in Nat
    BY <1>1, <2>1, DriveFacts, SectorFacts
  <2>3. added.pos = (ext.last + e.part.pos) % Lba /\ added \in MbrEntry
    BY <2>2, MovedEntry
  <2>4. ((ext.at % Lba) + D.chain[ext.at].part.pos) % Lba = ext.at + D.chain[ext.at].part.pos
    BY <1>1, <2>1, MovedRight
  <2>5. n + 1 \in 1..MaxEbrs
    BY <1>1, <1>8, <1>10
  <2>6. at[(n + 1) + 1] = After(D, c, ext.at)
    BY <1>8, <1>10, <2>5 DEF Follows
  <2> HIDE DEF at
  <2>7. at[(n + 1) + 1] = IF e.next # 0 THEN c + e.next ELSE 0
    BY <2>1, <2>6 DEF After
  <2> QED BY <1>8, <2>1, <2>3, <2>4, <2>7
<1> DEFINE more == Append(disk.ebrs, added)
<1>13. ASSUME e.valid, disk' = [disk EXCEPT !.ebrs = Append(@, added)]
       PROVE  /\ disk'.ebrs = more /\ more \in Seq(MbrEntry) /\ Len(more) = n + 1
              /\ \A k \in 1..n : more[k] = disk.ebrs[k]
              /\ more[n + 1] = added
  <2>1. added \in MbrEntry
    BY <1>12, <1>13
  <2> HIDE DEF added
  <2>2. disk'.ebrs = more
    BY <1>1, <1>13 DEF IsDisk
  <2> QED BY <1>1, <2>1, <2>2
<1> HIDE DEF D, e, c, at, n, added, more
<1>14. ASSUME e.valid, disk' = [disk EXCEPT !.ebrs = Append(@, added)]
       PROVE  \A k \in 1..(n + 1) : /\ IsEbr(D, at[k])
                                    /\ more[k].pos = at[k] + D.chain[at[k]].part.pos
  <2> SUFFICES ASSUME NEW k \in 1..(n + 1)
               PROVE  IsEbr(D, at[k]) /\ more[k].pos = at[k] + D.chain[at[k]].part.pos
    OBVIOUS
  <2>1. CASE k \in 1..n
    BY <1>8, <1>13, <1>14, <2>1 DEF Linked
  <2>2. CASE k = n + 1
    BY <1>8, <1>9, <1>12, <1>13, <1>14, <2>2
  <2> QED BY <1>1, <2>1, <2>2
<1>15. ASSUME pc' = "ext", ext' = [ext EXCEPT !.i = @ + 1],
              Matches(disk'.ebrs, InChain(D, c))
       PROVE  TablesInv'
  <2>1. ext'.i = ext.i + 1
    BY <1>1, <1>15
  <2>2. \A k \in 1..4 : D.mbr[k].type = 15 => k < ext'.i /\ D.mbr[k].pos = c
    BY <1>1, <1>6, <1>11, <2>1
  <2>3. EbrsInv'
    BY <1>4, <1>15, <2>2 DEF EbrsInv
  <2>4. GptInv'
    BY <1>3, <1>5, <1>15 DEF GptInv
  <2> QED BY <1>4, <1>7, <1>15, <2>3, <2>4 DEF TablesInv
<1>16. CASE ~e.valid
  <2>1. \A k \in 1..n : IsEbr(D, at[k])
    BY <1>8 DEF Linked
  <2>2. n \in 0..MaxEbrs /\ n <= MaxEbrs /\ ~IsEbr(D, at[n + 1])
    BY <1>1, <1>8, <1>9, <1>10, <1>16
  <2>3. ChainIs(D, at, n)
    BY <1>1, <1>6, <2>1, <2>2, ChainEnds DEF at
  <2>4. \A k \in 1..n : disk.ebrs[k].pos = at[k] + D.chain[at[k]].part.pos
    BY <1>8 DEF Linked
  <2>5. Matches(disk.ebrs, InChain(D, c))
    BY <1>1, <1>6, <1>10, <2>2, <2>3, <2>4, ChainMatches DEF at, n
  <2> QED BY <1>2, <1>15, <1>16, <2>5
<1>17. CASE e.valid /\ e.next = 0
  <2>1. disk' = [disk EXCEPT !.ebrs = Append(@, added)] /\ e.valid
        /\ pc' = "ext" /\ ext' = [ext EXCEPT !.i = @ + 1]
    BY <1>2, <1>17
  <2>2. n + 1 \in 0..MaxEbrs /\ ~IsEbr(D, at[(n + 1) + 1])
    BY <1>1, <1>8, <1>10, <1>12, <1>17, DriveFacts
  <2>3. ChainIs(D, at, n + 1)
    BY <1>1, <1>6, <1>14, <2>1, <2>2, ChainEnds DEF at
  <2>4. /\ more \in Seq(MbrEntry) /\ ChainIs(D, at, Len(more)) /\ Len(more) <= MaxEbrs
        /\ \A k \in 1..Len(more) : more[k].pos = at[k] + D.chain[at[k]].part.pos
    BY <1>8, <1>13, <1>14, <2>1, <2>3
  <2>5. Matches(more, InChain(D, c))
    BY <1>1, <1>6, <1>10, <2>4, ChainMatches DEF at
  <2> QED BY <1>13, <1>15, <2>1, <2>5
<1>18. CASE e.valid /\ e.next # 0
  <2>1. /\ disk' = [disk EXCEPT !.ebrs = Append(@, added)] /\ e.valid /\ pc' = "ebr"
        /\ ext' = [ext EXCEPT !.at = c + e.next, !.last = (c + e.next) % Lba]
    BY <1>2, <1>18
  <2>2. e.next \in Nat \ {0}
    <3>1. e = D.chain[ext.at] /\ IsEbr(D, ext.at)
      BY <1>9, <2>1
    <3> QED BY <1>1, <1>18, <3>1, DriveFacts, SectorFacts
  <2>3. /\ ext'.at = c + e.next /\ ext'.last = (c + e.next) % Lba /\ ext'.i = ext.i
    BY <1>1, <2>1
  <2>4. at[(n + 1) + 1] = c + e.next /\ c + e.next # 0
    BY <1>6, <1>12, <1>18, <2>2
  <2>5. (n + 1) + 1 <= MaxEbrs
    <3>1. (n + 1) + 1 # MaxEbrs + 1
      BY <1>10, <2>4
    <3> QED BY <1>1, <1>8, <1>10, <3>1
  <2>6. \A k \in 1..(n + 1) : at[k + 1] # 0
    <3>1. \A k \in 1..n : at[k + 1] # 0
      BY <1>8 DEF Linked
    <3>2. \A k \in 1..(n + 1) : k \in 1..n \/ k = n + 1
      BY <1>1
    <3> QED BY <2>4, <3>1, <3>2
  <2>7. \A k \in 1..(n + 1) : Linked(D, at, k, more[k])
    BY <1>14, <2>1, <2>6 DEF Linked
  <2>8. disk'.ebrs = more /\ Len(more) = n + 1
    BY <1>13, <2>1
  <2>9. OnTheWay(D, disk'.ebrs, D.mbr[ext'.i].pos, ext'.last, ext'.at)
    BY <1>6, <2>3, <2>4, <2>5, <2>7, <2>8 DEF OnTheWay, at
  <2>10. EbrsInv'
    BY <1>4, <1>5, <2>1, <2>3, <2>9 DEF EbrsInv
  <2>11. GptInv'
    BY <1>3, <1>5, <2>1 DEF GptInv
  <2> QED BY <1>4, <1>7, <2>10, <2>11 DEF TablesInv
<1> QED BY <1>16, <1>17, <1>18

-----------------------------------------------------------------------------
(* A sector whose first n entries are the used ones. *)
LEMMA SectorMatches ==
  ASSUME NEW D, IsDrive(D), NEW s \in DOMAIN D.gpt, NEW n \in 0..Len(D.gpt[s]),
         \A i \in 1..Len(D.gpt[s]) : D.gpt[s][i].type # 0 <=> i <= n,
         NEW es, Len(es) = n, \A i \in 1..n : es[i] = D.gpt[s][i]
  PROVE  Matches(es, InGpt(D, s))
<1> DEFINE g == D.gpt[s]
           place(i) == [in |-> s, entry |-> i, pos |-> g[i].pos]
           w == [i \in 1..n |-> place(i)]
<1>1. g \in Seq(GptEntry)
  BY ElementOfSeq, LenProperties DEF IsDrive
<1>2. Len(g) \in Nat /\ DOMAIN g = 1..Len(g) /\ n <= Len(g) /\ n \in Nat
  BY <1>1
<1> HIDE DEF g
<1>3. InGpt(D, s) = {place(i) : i \in {i \in DOMAIN g : g[i].type # 0}}
  BY DEF InGpt, g
<1>4. {i \in DOMAIN g : g[i].type # 0} = 1..n
  <2>1. \A i \in 1..Len(g) : g[i].type # 0 <=> i <= n
    BY DEF g
  <2> QED BY <1>2, <2>1
<1>5. InGpt(D, s) = {place(i) : i \in 1..n}
  BY <1>3, <1>4
<1>6. w \in [1..n -> InGpt(D, s)] /\ \A p \in InGpt(D, s) : \E a \in 1..n : w[a] = p
  BY <1>5
<1>7. \A a, b \in 1..n : w[a] = w[b] => a = b
  <2> SUFFICES ASSUME NEW a \in 1..n, NEW b \in 1..n, w[a] = w[b] PROVE a = b
    OBVIOUS
  <2>1. w[a].entry = a /\ w[b].entry = b
    OBVIOUS
  <2> QED BY <2>1
<1>8. \A a \in 1..n : es[a].pos = w[a].pos
  BY DEF g
<1> HIDE DEF w
<1> QED BY <1>6, <1>7, <1>8 DEF Matches

(* The entries of the first sectors, and those of one sector more. *)
FirstSectors(D, k) == UNION {InGpt(D, s) : s \in 1..k}

LEMMA SectorsMore ==
  ASSUME NEW D, NEW k \in Nat
  PROVE  /\ FirstSectors(D, k + 1) = FirstSectors(D, k) \cup InGpt(D, k + 1)
         /\ FirstSectors(D, k) \cap InGpt(D, k + 1) = {}
         /\ FirstSectors(D, 0) = {}
<1>1. 1..(k + 1) = (1..k) \cup {k + 1} /\ k + 1 \notin 1..k /\ 1..0 = {}
  OBVIOUS
<1>2. \A s, p : p \in InGpt(D, s) => p.in = s
  BY DEF InGpt
<1>3. FirstSectors(D, k + 1) = FirstSectors(D, k) \cup InGpt(D, k + 1)
  BY <1>1 DEF FirstSectors
<1>4. FirstSectors(D, k) \cap InGpt(D, k + 1) = {}
  BY <1>1, <1>2 DEF FirstSectors
<1> QED BY <1>1, <1>3, <1>4 DEF FirstSectors

(* Behind an entry that is not used no sector has one. *)
LEMMA NoneBehind ==
  ASSUME NEW D, IsDrive(D), Dense(D), NEW s \in DOMAIN D.gpt, NEW i \in DOMAIN D.gpt[s],
         D.gpt[s][i].type = 0
  PROVE  UNION {InGpt(D, r) : r \in DOMAIN D.gpt} = FirstSectors(D, s)
<1>1. Len(D.gpt) \in Nat /\ DOMAIN D.gpt = 1..Len(D.gpt)
  BY LenProperties DEF IsDrive
<1>2. \A r \in DOMAIN D.gpt : r > s => InGpt(D, r) = {}
  BY DEF Dense, InGpt
<1>3. \A r \in DOMAIN D.gpt : r \in 1..s \/ r > s
  BY <1>1
<1>4. \A r \in 1..s : r \in DOMAIN D.gpt
  BY <1>1
<1> QED BY <1>2, <1>3, <1>4 DEF FirstSectors

LEMMA ReadEntriesTables ==
  ASSUME TypeInv, TablesInv, ReadEntries
  PROVE  TablesInv'
<1> DEFINE D == Drive
           sector == Head(todo)
           unused == {i \in DOMAIN sector : sector[i].type = 0}
           used == IF unused = {} THEN sector ELSE SubSeq(sector, 1, Min(unused) - 1)
<1>1. /\ IsDisk(disk) /\ pc = "entries" /\ IsDrive(D) /\ disk.gpt \in Seq(GptEntry)
      /\ todo \in Seq(Seq(GptEntry)) /\ todo # <<>>
  BY DriveIsDrive DEF ReadEntries, IsDisk, TypeInv, Building
<1>2. /\ disk' = [disk EXCEPT !.gpt = @ \o used] /\ machine' = machine
      /\ \/ unused = {} /\ todo' = Tail(todo) /\ pc' = pc
         \/ unused # {} /\ todo' = <<>> /\ pc' = "info"
  BY DEF ReadEntries, Goto
<1>3. /\ disk'.index = disk.index /\ disk'.mbr = disk.mbr /\ disk'.ebrs = disk.ebrs
      /\ disk'.protective = disk.protective /\ disk'.gpt = disk.gpt \o used
  <2> HIDE DEF used
  <2> QED BY <1>1, <1>2 DEF IsDisk
<1>4. Drive' = D
  BY <1>2, <1>3 DEF Drive
<1> SUFFICES ASSUME Orderly(D) PROVE TablesInv'
  BY <1>4 DEF TablesInv
<1>5. MbrRead(disk, D) /\ EbrsRead(disk, D)
  BY <1>1 DEF TablesInv, EbrsInv, Building
<1>6. MbrRead(disk', D) /\ EbrsRead(disk', D)
  BY <1>3, <1>5 DEF MbrRead, EbrsRead
<1>7. PICK k \in 0..Len(D.gpt) :
        /\ Len(todo) = Len(D.gpt) - k
        /\ \A j \in 1..Len(todo) : todo[j] = D.gpt[k + j]
        /\ Matches(disk.gpt, FirstSectors(D, k))
  BY <1>1 DEF TablesInv, GptInv, Building, FirstSectors
<1> DEFINE s == k + 1
           l == Len(D.gpt)
           rest == Tail(todo)
<1>8. /\ sector = todo[1] /\ Len(todo) >= 1 /\ sector \in Seq(GptEntry)
      /\ Len(rest) = Len(todo) - 1 /\ \A j \in 1..(Len(todo) - 1) : rest[j] = todo[j + 1]
  BY <1>1, HeadFacts
<1>9. l \in Nat /\ DOMAIN D.gpt = 1..l /\ Len(todo) \in Nat
  <2>1. D.gpt \in Seq(Seq(GptEntry))
    BY <1>1 DEF IsDrive
  <2> QED BY <1>1, <2>1
<1> HIDE DEF l, rest, sector, unused, used
<1>10. /\ k \in Nat /\ s \in 1..l /\ 1 \in 1..Len(todo) /\ sector = D.gpt[s]
       /\ Len(rest) = l - s /\ \A j \in 1..Len(rest) : rest[j] = D.gpt[s + j]
  <2>1. k \in Nat /\ s \in 1..l /\ 1 \in 1..Len(todo) /\ Len(rest) = l - s
    BY <1>7, <1>8, <1>9 DEF l
  <2>2. sector = D.gpt[s]
    BY <1>7, <1>8, <2>1
  <2>3. \A j \in 1..Len(rest) : /\ j \in 1..(Len(todo) - 1) /\ j + 1 \in 1..Len(todo)
                               /\ k + (j + 1) = s + j
    BY <1>8, <1>9, <2>1
  <2>4. \A j \in 1..Len(rest) : rest[j] = D.gpt[s + j]
    BY <1>7, <1>8, <2>3
  <2> QED BY <2>1, <2>2, <2>4
<1> HIDE DEF s, D
<1>11. Len(sector) \in Nat /\ DOMAIN sector = 1..Len(sector)
  BY <1>8
<1>12. PICK n \in 0..Len(sector) :
         /\ \A i \in 1..Len(sector) : sector[i].type # 0 <=> i <= n
         /\ used \in Seq(GptEntry) /\ Len(used) = n /\ \A i \in 1..n : used[i] = sector[i]
  <2>1. CASE unused = {}
    <3>1. \A i \in 1..Len(sector) : sector[i].type # 0 <=> i <= Len(sector)
      BY <1>11, <2>1 DEF unused
    <3>2. used = sector /\ Len(sector) \in 0..Len(sector)
      BY <1>11, <2>1 DEF used
    <3> QED BY <1>8, <3>1, <3>2
  <2>2. CASE unused # {}
    <3> DEFINE h == Min(unused)
    <3>1. unused \subseteq Nat /\ unused \subseteq 1..Len(sector)
      BY <1>11 DEF unused
    <3>2. h \in unused /\ \A i \in unused : h <= i
      BY <2>2, <3>1, MinIsLeast
    <3> HIDE DEF h
    <3>3. h \in 1..Len(sector) /\ sector[h].type = 0
      BY <1>11, <3>2 DEF unused
    <3>4. \A i \in 1..Len(sector) : i > h => sector[i].type = 0
      <4>1. Dense(D) /\ s \in DOMAIN D.gpt
        BY <1>9, <1>10 DEF Orderly
      <4> QED BY <1>10, <1>11, <3>3, <4>1 DEF Dense
    <3>5. \A i \in 1..Len(sector) : sector[i].type = 0 => h <= i
      BY <1>11, <3>2 DEF unused
    <3> DEFINE n == h - 1
    <3>6. n \in 0..Len(sector) /\ \A i \in 1..Len(sector) : i <= n <=> i < h
      BY <1>11, <3>3
    <3>7. \A i \in 1..Len(sector) : sector[i].type # 0 <=> i <= n
      BY <1>11, <3>3, <3>4, <3>5, <3>6
    <3>8. used = SubSeq(sector, 1, n)
      BY <2>2 DEF used, h
    <3> HIDE DEF n
    <3>9. used \in Seq(GptEntry) /\ Len(used) = n /\ \A i \in 1..n : used[i] = sector[i]
      BY <1>8, <3>6, <3>8, SubSeqFacts
    <3> QED BY <3>6, <3>7, <3>9
  <2> QED BY <2>1, <2>2
<1>13. Matches(used, InGpt(D, s))
  <2>1. s \in DOMAIN D.gpt /\ n \in 0..Len(D.gpt[s])
    BY <1>9, <1>10, <1>12
  <2> QED BY <1>1, <1>10, <1>12, <2>1, SectorMatches
<1>14. Matches(disk'.gpt, FirstSectors(D, s))
  <2>1. /\ FirstSectors(D, s) = FirstSectors(D, k) \cup InGpt(D, s)
        /\ FirstSectors(D, k) \cap InGpt(D, s) = {}
    BY <1>10, SectorsMore DEF s
  <2>2. Matches(disk.gpt \o used, FirstSectors(D, k) \cup InGpt(D, s))
    BY <1>1, <1>7, <1>12, <1>13, <2>1, MatchesJoin
  <2> QED BY <1>3, <2>1, <2>2
<1>15. CASE unused = {}
  <2>1. todo' = rest /\ pc' = "entries"
    BY <1>1, <1>2, <1>15 DEF rest
  <2>2. EbrsInv'
    BY <1>4, <1>6, <2>1 DEF EbrsInv, D
  <2>3. /\ s \in 0..Len(D.gpt) /\ Len(todo') = Len(D.gpt) - s
        /\ \A j \in 1..Len(todo') : todo'[j] = D.gpt[s + j]
        /\ Matches(disk'.gpt, UNION {InGpt(D, r) : r \in 1..s})
    <3>1. l = Len(D.gpt) /\ s \in 0..l /\ Len(todo') = l - s
      BY <1>9, <1>10, <2>1 DEF l
    <3>2. \A j \in 1..Len(todo') : todo'[j] = D.gpt[s + j]
      BY <1>10, <2>1
    <3> QED BY <1>14, <3>1, <3>2 DEF FirstSectors
  <2>4. GptInv'
    BY <1>4, <2>1, <2>3 DEF GptInv, D
  <2> QED BY <1>4, <1>6, <2>1, <2>2, <2>4 DEF TablesInv, D
<1>16. CASE unused # {}
  <2>1. pc' = "info"
    BY <1>2, <1>16
  <2>2. EbrsInv'
    BY <1>4, <1>6, <2>1 DEF EbrsInv, D
  <2>3. PICK i \in DOMAIN sector : sector[i].type = 0
    BY <1>16 DEF unused
  <2>4. UNION {InGpt(D, r) : r \in DOMAIN D.gpt} = FirstSectors(D, s)
    BY <1>1, <1>9, <1>10, <2>3, NoneBehind DEF Orderly
  <2>5. GptRead(disk', D)
    BY <1>14, <2>4 DEF GptRead
  <2>6. GptInv'
    BY <1>4, <2>1, <2>5 DEF GptInv, D
  <2> QED BY <1>4, <1>6, <2>1, <2>2, <2>6 DEF TablesInv, D
<1> QED BY <1>15, <1>16

LEMMA ReadMbrTables ==
  ASSUME TypeInv, TablesInv, ReadMbr
  PROVE  TablesInv'
<1> DEFINE D == Drive
<1>1. IsDisk(disk) /\ pc = "mbr" /\ machine' = machine
  BY DEF ReadMbr, TypeInv
<1>2. \/ /\ disk' = [disk EXCEPT !.mbr = D.mbr, !.style = Style(D.mbr),
                                !.protective = Style(D.mbr) = "gpt"]
         /\ pc' = "ext" /\ ext' = NoExt
      \/ ~D.sound /\ disk' = disk
  BY DEF ReadMbr, Goto
<1>3. disk'.index = disk.index
  BY <1>1, <1>2 DEF IsDisk
<1>4. Drive' = D
  BY <1>1, <1>3 DEF Drive
<1> SUFFICES ASSUME Orderly(D) PROVE TablesInv'
  BY <1>4 DEF TablesInv
<1>5. disk.gpt = <<>> /\ \A i \in 1..4 : D.mbr[i].type = 15 => disk.ebrs = <<>>
  BY <1>1 DEF TablesInv, EbrsInv, GptInv, Building
<1>6. /\ disk' = [disk EXCEPT !.mbr = D.mbr, !.style = Style(D.mbr),
                              !.protective = Style(D.mbr) = "gpt"]
      /\ pc' = "ext" /\ ext' = NoExt
  BY <1>2 DEF Orderly
<1>7. /\ disk'.mbr = D.mbr /\ disk'.protective = (Style(D.mbr) = "gpt")
      /\ disk'.ebrs = disk.ebrs /\ disk'.gpt = disk.gpt
  BY <1>1, <1>6 DEF IsDisk
<1> HIDE DEF D
<1>8. ext'.i = 1 /\ \A i \in 1..4 : ~(i < 1)
  BY <1>6 DEF NoExt
<1>9. EbrsInv'
  BY <1>4, <1>5, <1>6, <1>7, <1>8 DEF EbrsInv, D
<1>10. GptInv'
  BY <1>4, <1>5, <1>6, <1>7 DEF GptInv
<1> QED BY <1>4, <1>7, <1>9, <1>10 DEF TablesInv, MbrRead, D

LEMMA NextEntryTables ==
  ASSUME TypeInv, TablesInv, NextEntry
  PROVE  TablesInv'
<1> DEFINE D == Drive
<1>1. /\ pc = "ext" /\ pc' = "ext" /\ disk' = disk /\ machine' = machine
      /\ ext.i \in 1..4 /\ Entry.type \notin Extended /\ ext' = [ext EXCEPT !.i = @ + 1]
      /\ ext \in [i : 1..5, at : Nat, last : Nat]
  BY DEF NextEntry, TypeInv
<1>2. Drive' = D
  BY <1>1 DEF Drive
<1> SUFFICES ASSUME Orderly(D) PROVE TablesInv'
  BY <1>2 DEF TablesInv
<1>3. /\ MbrRead(disk, D) /\ GptInv
      /\ \A i \in 1..4 : D.mbr[i].type = 15 =>
           IF i < ext.i THEN Matches(disk.ebrs, InChain(D, D.mbr[i].pos)) ELSE disk.ebrs = <<>>
  BY <1>1 DEF TablesInv, EbrsInv, Building
<1>4. ext'.i = ext.i + 1 /\ D.mbr[ext.i].type # 15
  BY <1>1, <1>3 DEF MbrRead, Entry, Extended
<1>5. \A i \in 1..4 : D.mbr[i].type = 15 => (i < ext'.i <=> i < ext.i)
  BY <1>1, <1>4
<1> HIDE DEF D
<1>6. EbrsInv'
  BY <1>1, <1>2, <1>3, <1>5 DEF EbrsInv, D
<1>7. GptInv'
  BY <1>1, <1>3 DEF GptInv
<1> QED BY <1>1, <1>2, <1>3, <1>6, <1>7 DEF TablesInv

LEMMA EnterContainerTables ==
  ASSUME TypeInv, TablesInv, EnterContainer
  PROVE  TablesInv'
<1> DEFINE D == Drive
           c == Entry.pos
<1>1. /\ pc = "ext" /\ pc' = "ebr" /\ disk' = disk /\ machine' = machine /\ IsDrive(D)
      /\ ext.i \in 1..4 /\ Entry.type \in Extended
      /\ ext' = [ext EXCEPT !.at = c, !.last = c]
      /\ ext \in [i : 1..5, at : Nat, last : Nat]
  BY DriveIsDrive DEF EnterContainer, TypeInv, Goto, Building
<1>2. Drive' = D
  BY <1>1 DEF Drive
<1> SUFFICES ASSUME Orderly(D) PROVE TablesInv'
  BY <1>2 DEF TablesInv
<1>3. /\ MbrRead(disk, D) /\ GptInv
      /\ \A i \in 1..4 : D.mbr[i].type = 15 => (~(i < ext.i) => disk.ebrs = <<>>)
  BY <1>1 DEF TablesInv, EbrsInv, Building
<1>4. Entry = D.mbr[ext.i] /\ D.mbr[ext.i].type = 15
  BY <1>1, <1>3 DEF MbrRead, Entry, Extended, Orderly
<1>5. D.mbr[ext.i] \in MbrEntry /\ c = D.mbr[ext.i].pos /\ c # 0 /\ c \in Nat
  BY <1>1, <1>4, DriveFacts
<1>6. c \in 0..(Lba - 1)
  BY <1>5 DEF MbrEntry
<1>7. disk.ebrs = <<>>
  BY <1>1, <1>3, <1>4
<1>8. ext'.at = c /\ ext'.last = c /\ ext'.i = ext.i
  BY <1>1
<1> HIDE DEF c
<1>9. Follows(Places(D, c), D, c) /\ Places(D, c)[MaxEbrs + 1] = 0
  BY <1>1, <1>4, <1>5, PlacesFollow DEF Orderly, Acyclic, Extended
<1>10. Places(D, c)[1] = c
  BY <1>9 DEF Follows
<1>11. 0 + 1 <= MaxEbrs
  <2>1. MaxEbrs \in Nat /\ MaxEbrs + 1 # 1
    BY <1>5, <1>9, <1>10, ScanAssumption
  <2> QED BY <2>1
<1>12. c % Lba = c
  BY <1>6, ScanAssumption, ModRange
<1>13. Len(disk.ebrs) = 0 /\ 0 + 1 = 1 /\ 1..0 = {}
  BY <1>7
<1>14. OnTheWay(D, disk.ebrs, c, c, c)
  BY <1>5, <1>10, <1>11, <1>12, <1>13 DEF OnTheWay
<1> HIDE DEF D
<1>15. EbrsInv'
  BY <1>1, <1>2, <1>4, <1>5, <1>8, <1>14 DEF EbrsInv, D
<1>16. GptInv'
  BY <1>1, <1>3 DEF GptInv
<1> QED BY <1>1, <1>2, <1>3, <1>15, <1>16 DEF TablesInv

LEMMA ReadHeaderTables ==
  ASSUME TypeInv, TablesInv, ReadHeader
  PROVE  TablesInv'
<1> DEFINE D == Drive
           l == Len(D.gpt)
<1>1. /\ pc = "gpt" /\ disk' = disk /\ machine' = machine /\ IsDrive(D)
      /\ \/ pc' = "entries" /\ todo' = SubSeq(D.gpt, 1, Min({GptSectors, l}))
         \/ ~D.sound
  BY DriveIsDrive DEF ReadHeader, Goto, Building
<1>2. Drive' = D
  BY <1>1 DEF Drive
<1> SUFFICES ASSUME Orderly(D) PROVE TablesInv'
  BY <1>2 DEF TablesInv
<1>3. MbrRead(disk, D) /\ EbrsRead(disk, D) /\ disk.gpt = <<>>
  BY <1>1 DEF TablesInv, EbrsInv, GptInv, Building
<1>4. /\ D.gpt \in Seq(Seq(GptEntry)) /\ l \in Nat /\ l <= GptSectors /\ GptSectors \in Nat
      /\ D.sound
  BY <1>1, ScanAssumption DEF Orderly, IsDrive
<1>5. pc' = "entries" /\ todo' = SubSeq(D.gpt, 1, Min({GptSectors, l}))
  BY <1>1, <1>4
<1> HIDE DEF l
<1>6. Min({GptSectors, l}) = l
  BY <1>4, MinOfTwo
<1>7. Len(todo') = l /\ \A j \in 1..l : todo'[j] = D.gpt[j]
  <2>1. todo' = SubSeq(D.gpt, 1, l)
    BY <1>5, <1>6
  <2>2. l \in 0..Len(D.gpt)
    BY <1>4 DEF l
  <2> HIDE DEF D
  <2> QED BY <1>4, <2>1, <2>2, SubSeqFacts
<1>8. Matches(disk'.gpt, UNION {InGpt(D, r) : r \in 1..0})
  <2>1. FirstSectors(D, 0) = {} /\ 0 \in Nat
    BY SectorsMore
  <2> QED BY <1>1, <1>3, <2>1, MatchesEmpty DEF FirstSectors
<1> HIDE DEF D
<1>9. /\ 0 \in 0..Len(D.gpt) /\ Len(todo') = Len(D.gpt) - 0
      /\ \A j \in 1..Len(todo') : todo'[j] = D.gpt[0 + j]
  BY <1>4, <1>7 DEF l
<1>10. GptInv'
  BY <1>2, <1>5, <1>8, <1>9 DEF GptInv, D
<1>11. EbrsInv'
  BY <1>1, <1>2, <1>3, <1>5 DEF EbrsInv, D
<1> QED BY <1>1, <1>2, <1>3, <1>10, <1>11 DEF TablesInv, D

LEMMA EntriesOverTables ==
  ASSUME TypeInv, TablesInv, EntriesOver
  PROVE  TablesInv'
<1> DEFINE D == Drive
<1>1. /\ pc = "entries" /\ pc' = "info" /\ disk' = disk /\ machine' = machine /\ IsDrive(D)
      /\ (todo = <<>> \/ ~D.sound)
  BY DriveIsDrive DEF EntriesOver, Goto, Building
<1>2. Drive' = D
  BY <1>1 DEF Drive
<1> SUFFICES ASSUME Orderly(D) PROVE TablesInv'
  BY <1>2 DEF TablesInv
<1>3. MbrRead(disk, D) /\ EbrsRead(disk, D)
  BY <1>1 DEF TablesInv, EbrsInv, Building
<1>4. PICK k \in 0..Len(D.gpt) :
        /\ Len(todo) = Len(D.gpt) - k /\ Matches(disk.gpt, UNION {InGpt(D, s) : s \in 1..k})
  BY <1>1 DEF TablesInv, GptInv, Building
<1>5. Len(D.gpt) \in Nat /\ DOMAIN D.gpt = 1..Len(D.gpt)
  BY <1>1, LenProperties DEF IsDrive
<1>6. Len(todo) = 0
  <2>1. todo = <<>>
    BY <1>1 DEF Orderly
  <2> QED BY <2>1
<1>7. k = Len(D.gpt)
  BY <1>4, <1>5, <1>6
<1>8. GptRead(disk, D)
  BY <1>4, <1>5, <1>7 DEF GptRead
<1> HIDE DEF D
<1>9. GptInv'
  BY <1>1, <1>2, <1>8 DEF GptInv, D
<1>10. EbrsInv'
  BY <1>1, <1>2, <1>3 DEF EbrsInv, D
<1> QED BY <1>1, <1>2, <1>3, <1>9, <1>10 DEF TablesInv, D

LEMMA TablesStep == TypeInv /\ TablesInv /\ [Next]_vars => TablesInv'
<1> SUFFICES ASSUME TypeInv, TablesInv, [Next]_vars PROVE TablesInv'
  OBVIOUS
<1>1. CASE UNCHANGED vars
  BY <1>1 DEF vars, scan, TablesInv, EbrsInv, GptInv, Drive
<1>2. CASE \/ List \/ ProbeMissing \/ ProbeBound \/ AddDisk \/ ListVirtual \/ VirtualFails
           \/ InfoDisks \/ InfoDisk \/ InfoVolume \/ InfoAlone \/ Backup
  <2>1. pc' \in {"probe", "virtual", "listed", "failed", "list", "over"}
    BY <1>2 DEF List, ProbeMissing, ProbeBound, AddDisk, ListVirtual, VirtualFails,
         InfoDisks, InfoDisk, InfoVolume, InfoAlone, Backup, Goto, Over
  <2> QED BY <2>1 DEF TablesInv, Building
<1>3. CASE ProbeDisk
  <2>1. pc' = "mbr" /\ disk'.ebrs = <<>> /\ disk'.gpt = <<>>
    BY <1>3 DEF ProbeDisk, Goto, NewDisk
  <2> QED BY <2>1 DEF TablesInv, EbrsInv, GptInv
<1>4. CASE EntriesEnd
  <2>1. pc = "ext" /\ ext.i = 5 /\ pc' = "gpt" /\ UNCHANGED <<machine, disk>>
    BY <1>4 DEF EntriesEnd, Goto, scan
  <2>2. Drive' = Drive /\ \A i \in 1..4 : i < 5
    BY <2>1 DEF Drive
  <2> SUFFICES ASSUME Orderly(Drive) PROVE TablesInv'
    BY <2>2 DEF TablesInv
  <2>3. MbrRead(disk, Drive) /\ EbrsInv /\ GptInv
    BY <2>1 DEF TablesInv, Building
  <2>4. EbrsRead(disk, Drive)
    BY <2>1, <2>2, <2>3 DEF EbrsInv, EbrsRead
  <2>5. EbrsInv' /\ GptInv'
    BY <2>1, <2>2, <2>3, <2>4 DEF EbrsInv, GptInv
  <2> QED BY <2>1, <2>2, <2>3, <2>5 DEF TablesInv
<1>5. CASE EbrFails
  <2>1. ~Drive.sound /\ UNCHANGED <<machine, disk>>
    BY <1>5 DEF EbrFails
  <2> QED BY <2>1 DEF TablesInv, Orderly, Drive
<1>6. CASE SkipGpt
  <2>1. pc = "gpt" /\ ~disk.protective /\ pc' = "info" /\ UNCHANGED <<machine, disk>>
    BY <1>6 DEF SkipGpt, Goto, scan
  <2>2. Drive' = Drive
    BY <2>1 DEF Drive
  <2> SUFFICES ASSUME Orderly(Drive) PROVE TablesInv'
    BY <2>2 DEF TablesInv
  <2>3. MbrRead(disk, Drive) /\ EbrsRead(disk, Drive) /\ GptRead(disk, Drive)
    BY <2>1 DEF TablesInv, EbrsInv, GptRead, Building
  <2>4. EbrsInv' /\ GptInv'
    BY <2>1, <2>2, <2>3 DEF EbrsInv, GptInv
  <2> QED BY <2>1, <2>2, <2>3, <2>4 DEF TablesInv
<1>7. CASE (ReadInfo \/ Layout \/ AddVolume) /\ pc' # "over"
  <2>1. /\ pc \in {"info", "layout", "volumes"} /\ pc' \in {"layout", "volumes"}
        /\ machine' = machine
        /\ \/ disk' = disk
           \/ \E x : disk' = [disk EXCEPT !.about = x]
           \/ \E x : disk' = [disk EXCEPT !.style = x]
           \/ \E x : disk' = [disk EXCEPT !.volumes = x]
    BY <1>7 DEF ReadInfo, Layout, AddVolume, Goto, Crash
  <2>2. /\ disk'.index = disk.index /\ disk'.mbr = disk.mbr /\ disk'.ebrs = disk.ebrs
        /\ disk'.gpt = disk.gpt /\ disk'.protective = disk.protective
    BY <2>1 DEF TypeInv, IsDisk
  <2>3. Drive' = Drive
    BY <2>1, <2>2 DEF Drive
  <2> SUFFICES ASSUME Orderly(Drive) PROVE TablesInv'
    BY <2>3 DEF TablesInv
  <2>4. MbrRead(disk, Drive) /\ EbrsRead(disk, Drive) /\ GptRead(disk, Drive)
    BY <2>1 DEF TablesInv, EbrsInv, GptInv, Building
  <2>5. MbrRead(disk', Drive) /\ EbrsRead(disk', Drive) /\ GptRead(disk', Drive)
    BY <2>2, <2>4 DEF MbrRead, EbrsRead, GptRead
  <2>6. EbrsInv' /\ GptInv'
    BY <2>1, <2>3, <2>5 DEF EbrsInv, GptInv
  <2> QED BY <2>3, <2>5, <2>6 DEF TablesInv
<1>8. ASSUME pc' = "over" PROVE TablesInv'
  BY <1>8 DEF TablesInv, Building
<1> QED BY <1>1, <1>2, <1>3, <1>4, <1>5, <1>6, <1>7, <1>8, ReadMbrTables, NextEntryTables,
           EnterContainerTables, ReadEbrTables, ReadHeaderTables, ReadEntriesTables,
           EntriesOverTables
        DEF Next

-----------------------------------------------------------------------------
LEMMA DisksStep ==
  TypeInv /\ DisksInv /\ VolumesInv /\ TablesInv /\ [Next]_vars => DisksInv'
<1> SUFFICES ASSUME TypeInv, DisksInv, VolumesInv, TablesInv, [Next]_vars PROVE DisksInv'
  OBVIOUS
<1>1. CASE List
  <2>1. Len(<<>>) = 0 /\ 1..0 = {}
    OBVIOUS
  <2>2. disks' = <<>>
    BY <1>1 DEF List
  <2> QED BY <2>1, <2>2 DEF DisksInv
<1>2. CASE AddDisk
  <2>1. /\ pc = "volumes" /\ todo = <<>> /\ disks' = Append(disks, disk)
        /\ machine' = machine /\ pc \in Building
    BY <1>2 DEF AddDisk, Building
  <2>2. Len(todo) = 0
    BY <2>1
  <2>3. /\ IsDisk(disk) /\ disk.virtual = FALSE /\ IsSeq(disks)
        /\ disk.index \in DOMAIN machine.drives
    BY <2>1 DEF TypeInv, IsDisk
  <2>4. \A j \in 1..Len(disk.volumes) : Formed(machine, disk.index, disk.volumes[j])
    BY <2>1 DEF VolumesInv
  <2>5. ~Drive.layout.ok =>
          /\ Len(disk.volumes) = Len(Fallback(disk))
          /\ \A j \in 1..Len(disk.volumes) : MadeOf(disk.volumes[j], Fallback(disk)[j])
    <3>1. Len(disk.volumes) \in Nat
      BY <2>3, SeqFacts DEF IsDisk
    <3> QED BY <2>1, <2>2, <3>1 DEF VolumesInv
  <2>6. Orderly(Drive) =>
          MbrRead(disk, Drive) /\ EbrsRead(disk, Drive) /\ GptRead(disk, Drive)
    BY <2>1 DEF TablesInv, EbrsInv, GptInv
  <2>7. Finished(machine, disk)
    BY <2>3, <2>4, <2>5, <2>6 DEF Finished, Drive
  <2> DEFINE more == Append(disks, disk)
  <2>8. /\ Len(more) = Len(disks) + 1 /\ Len(disks) \in Nat
        /\ \A j \in 1..Len(disks) : more[j] = disks[j]
        /\ more[Len(disks) + 1] = disk
    BY <2>3, AppendFacts, SeqFacts
  <2>9. \A j \in 1..Len(disks) : IF disks[j].virtual THEN Unreadable(disks[j])
                                 ELSE Finished(machine, disks[j])
    BY DEF DisksInv
  <2>10. disks' = more
    BY <2>1
  <2> HIDE DEF more
  <2>11. \A j \in 1..Len(more) : IF more[j].virtual THEN Unreadable(more[j])
                                 ELSE Finished(machine, more[j])
    <3>1. \A j \in 1..Len(more) : j \in 1..Len(disks) \/ j = Len(disks) + 1
      BY <2>8
    <3> QED BY <2>3, <2>7, <2>8, <2>9, <3>1
  <2> QED BY <2>1, <2>10, <2>11 DEF DisksInv
<1>3. CASE ListVirtual
  <2>1. machine' = machine
    BY <1>3 DEF ListVirtual
  <2>2. /\ Len(disks) \in Nat /\ Len(disks') \in Nat
        /\ \A j \in 1..Len(disks) : disks'[j] = disks[j]
        /\ \A j \in 1..Len(disks') : j > Len(disks) =>
             disks'[j].virtual /\ Unreadable(disks'[j])
    BY <1>3, ListVirtualFacts DEF Unreadable
  <2>3. \A j \in 1..Len(disks) : IF disks[j].virtual THEN Unreadable(disks[j])
                                 ELSE Finished(machine, disks[j])
    BY DEF DisksInv
  <2>4. \A j \in 1..Len(disks') : j \in 1..Len(disks) \/ j > Len(disks)
    BY <2>2
  <2>5. \A j \in 1..Len(disks') : IF disks'[j].virtual THEN Unreadable(disks'[j])
                                  ELSE Finished(machine, disks'[j])
    BY <2>2, <2>3, <2>4
  <2> QED BY <2>1, <2>5 DEF DisksInv
<1>4. CASE UNCHANGED <<machine, disks>>
  BY <1>4 DEF DisksInv
<1>5. \/ List \/ AddDisk \/ ListVirtual \/ UNCHANGED <<machine, disks>>
  BY DEF Next, vars, scan, Stays, ProbeDisk, ProbeMissing, ProbeBound, ReadMbr, NextEntry,
     EntriesEnd, EnterContainer, ReadEbr, EbrFails, SkipGpt, ReadHeader, ReadEntries,
     EntriesOver, ReadInfo, Layout, AddVolume, VirtualFails, InfoDisks, InfoDisk,
     InfoVolume, InfoAlone, Backup
<1> QED BY <1>1, <1>2, <1>3, <1>4, <1>5

(***************************************************************************)
(* Whatever the disk has of the tables, no two partitions made of it have  *)
(* one number.                                                             *)
(***************************************************************************)
LEMMA RisingNumbered ==
  ASSUME NEW style \in Styles, NEW es, es \in Seq(MbrEntry) \/ es \in Seq(GptEntry),
         NEW first \in Nat
  PROVE  Rising(Numbered(style, es, first), first, first + Len(es))
<1> DEFINE N == Numbered(style, es, first)
           n == Len(es)
<1>1. n \in Nat
  BY LenProperties
<1>2. Len(N) = n /\ \A i \in 1..n : N[i].number = first + i - 1
  BY NumberedFacts
<1> HIDE DEF N, n
<1>3. \A i \in 1..n : first <= N[i].number /\ N[i].number < first + n
  BY <1>1, <1>2
<1>4. \A i, j \in 1..n : i < j => N[i].number < N[j].number
  BY <1>1, <1>2
<1> QED BY <1>2, <1>3, <1>4 DEF Rising, N, n

LEMMA RisingWider ==
  ASSUME NEW s \in Seq(Partition), NEW lo \in Nat, NEW mid \in Nat, NEW hi \in Nat,
         lo <= mid, Rising(s, mid, hi)
  PROVE  Rising(s, lo, hi)
<1>1. \A a \in 1..Len(s) : s[a].number \in Nat
  <2>1. \A a \in 1..Len(s) : s[a] \in Partition
    BY ElementOfSeq
  <2> QED BY <2>1 DEF Partition
<1> QED BY <1>1 DEF Rising

LEMMA OfEntryFacts ==
  ASSUME NEW d, IsDisk(d), NEW i \in 1..4
  PROVE  /\ OfEntry(d, i) \in Seq(Partition)
         /\ FirstNumber(d, i) \in Nat /\ FirstNumber(d, i + 1) \in Nat
         /\ FirstNumber(d, i) <= FirstNumber(d, i + 1)
         /\ Rising(OfEntry(d, i), FirstNumber(d, i), FirstNumber(d, i + 1))
         /\ d.mbr[i].type = 0 => OfEntry(d, i) = <<>>
         /\ d.mbr[i].type = 15 =>
              /\ Len(OfEntry(d, i)) = Len(d.ebrs)
              /\ \A a \in 1..Len(d.ebrs) : OfEntry(d, i)[a].pos = d.ebrs[a].pos
         /\ d.mbr[i].type \notin {0, 15} =>
              Len(OfEntry(d, i)) = 1 /\ OfEntry(d, i)[1].pos = d.mbr[i].pos
<1> DEFINE k == FirstNumber(d, i)
           m == FirstNumber(d, i + 1)
           t == d.mbr[i].type
           es == d.ebrs
           one == <<d.mbr[i]>>
           l == Len(es)
           O == OfEntry(d, i)
<1>1. /\ k \in Nat /\ (t = 0 => m = k) /\ (t = 15 => m = k + 1 + l)
      /\ (t \notin {0, 15} => m = k + 1)
  BY FirstFacts
<1>2. es \in Seq(MbrEntry) /\ one \in Seq(MbrEntry) /\ Len(one) = 1 /\ one[1] = d.mbr[i]
  BY DEF IsDisk
<1>3. l \in Nat /\ "mbr" \in Styles
  BY <1>2, LenProperties DEF Styles
<1>4. O = CASE t = 0 -> <<>>
            [] t = 15 -> Numbered("mbr", es, k + 1)
            [] OTHER -> Numbered("mbr", one, k)
  BY DEF OfEntry
<1> DEFINE goal == /\ O \in Seq(Partition) /\ k \in Nat /\ m \in Nat /\ k <= m
                   /\ Rising(O, k, m)
                   /\ t = 0 => O = <<>>
                   /\ t = 15 => Len(O) = l /\ \A a \in 1..l : O[a].pos = es[a].pos
                   /\ t \notin {0, 15} => Len(O) = 1 /\ O[1].pos = d.mbr[i].pos
<1> HIDE DEF k, m, t, es, one, l, O
<1>5. ASSUME t = 0 PROVE goal
  <2>1. O = <<>> /\ <<>> \in Seq(Partition) /\ Len(<<>>) = 0 /\ 1..0 = {} /\ m = k
    BY <1>1, <1>4, <1>5
  <2>2. Rising(O, k, m)
    BY <2>1 DEF Rising
  <2> QED BY <1>1, <1>5, <2>1, <2>2
<1>6. ASSUME t = 15 PROVE goal
  <2>1. O = Numbered("mbr", es, k + 1) /\ k + 1 \in Nat /\ m = (k + 1) + l /\ m \in Nat
        /\ k <= m /\ k <= k + 1
    BY <1>1, <1>3, <1>4, <1>6
  <2>2. /\ O \in Seq(Partition) /\ Len(O) = l
        /\ \A a \in 1..l : O[a].pos = es[a].pos
    BY <1>2, <1>3, <2>1, NumberedFacts DEF l
  <2>3. Rising(O, k + 1, (k + 1) + l)
    BY <1>2, <1>3, <2>1, RisingNumbered DEF l
  <2>4. Rising(O, k, m)
    BY <1>1, <2>1, <2>2, <2>3, RisingWider
  <2> QED BY <1>1, <1>6, <2>1, <2>2, <2>4
<1>7. ASSUME t \notin {0, 15} PROVE goal
  <2>1. O = Numbered("mbr", one, k) /\ m = k + 1 /\ m \in Nat /\ k <= m /\ 1 \in 1..1
    BY <1>1, <1>4, <1>7
  <2>2. O \in Seq(Partition) /\ Len(O) = 1 /\ O[1].pos = d.mbr[i].pos
    <3>1. /\ O \in Seq(Partition) /\ Len(O) = Len(one)
          /\ \A a \in 1..Len(one) : O[a].pos = one[a].pos
      BY <1>1, <1>2, <1>3, <2>1, NumberedFacts
    <3> QED BY <1>2, <2>1, <3>1
  <2>3. Rising(O, k, m)
    <3>1. Rising(O, k, k + Len(one))
      BY <1>1, <1>2, <1>3, <2>1, RisingNumbered
    <3> QED BY <1>2, <2>1, <3>1
  <2> QED BY <1>1, <1>7, <2>1, <2>2, <2>3
<1>8. goal
  BY <1>5, <1>6, <1>7
<1> QED BY <1>8 DEF k, m, t, es, l, O

(* Made of the four entries of an MBR. *)
LEMMA FallbackOfMbr ==
  ASSUME NEW d, IsDisk(d), ~d.protective
  PROVE  Fallback(d) = ((OfEntry(d, 1) \o OfEntry(d, 2)) \o OfEntry(d, 3)) \o OfEntry(d, 4)
<1> DEFINE s == [i \in 1..4 |-> OfEntry(d, i)]
<1>1. s \in [1..4 -> Seq(Partition)]
  BY OfEntryFacts
<1>2. Fallback(d) = FlattenSeq(s)
  BY DEF Fallback
<1>3. s[1] = OfEntry(d, 1) /\ s[2] = OfEntry(d, 2) /\ s[3] = OfEntry(d, 3) /\ s[4] = OfEntry(d, 4)
  OBVIOUS
<1> HIDE DEF s
<1>4. FlattenSeq(s) = ((s[1] \o s[2]) \o s[3]) \o s[4]
  BY ONLY <1>1, FlattenFour
<1> QED BY <1>2, <1>3, <1>4

LEMMA FallbackRises ==
  ASSUME NEW d, IsDisk(d)
  PROVE  \E lo, hi \in Nat : Rising(Fallback(d), lo, hi)
<1>1. CASE d.protective
  <2> DEFINE n == Len(d.gpt)
  <2>1. d.gpt \in Seq(GptEntry) /\ n \in Nat /\ "gpt" \in Styles /\ 0 \in Nat /\ 0 + n = n
    BY LenProperties DEF IsDisk, Styles
  <2>2. Rising(Numbered("gpt", d.gpt, 0), 0, 0 + n)
    BY <2>1, RisingNumbered
  <2> HIDE DEF n
  <2> QED BY <1>1, <2>1, <2>2 DEF Fallback
<1>2. CASE ~d.protective
  <2> DEFINE a == OfEntry(d, 1)
             b == OfEntry(d, 2)
             c == OfEntry(d, 3)
             e == OfEntry(d, 4)
             k1 == FirstNumber(d, 1)
             k2 == FirstNumber(d, 2)
             k3 == FirstNumber(d, 3)
             k4 == FirstNumber(d, 4)
             k5 == FirstNumber(d, 5)
  <2>1. 1 \in 1..4 /\ 2 \in 1..4 /\ 3 \in 1..4 /\ 4 \in 1..4
        /\ 1 + 1 = 2 /\ 2 + 1 = 3 /\ 3 + 1 = 4 /\ 4 + 1 = 5
    OBVIOUS
  <2>2. /\ a \in Seq(Partition) /\ k1 \in Nat /\ k2 \in Nat /\ k1 <= k2 /\ Rising(a, k1, k2)
        /\ b \in Seq(Partition) /\ k3 \in Nat /\ k2 <= k3 /\ Rising(b, k2, k3)
        /\ c \in Seq(Partition) /\ k4 \in Nat /\ k3 <= k4 /\ Rising(c, k3, k4)
        /\ e \in Seq(Partition) /\ k5 \in Nat /\ k4 <= k5 /\ Rising(e, k4, k5)
    BY <2>1, OfEntryFacts
  <2>3. Fallback(d) = ((a \o b) \o c) \o e
    BY <1>2, FallbackOfMbr
  <2> HIDE DEF a, b, c, e, k1, k2, k3, k4, k5
  <2>4. a \o b \in Seq(Partition) /\ Rising(a \o b, k1, k3) /\ k1 <= k3
    BY <2>2, RisingJoin
  <2> DEFINE x == a \o b
  <2> HIDE DEF x
  <2>5. x \in Seq(Partition) /\ Rising(x, k1, k3) /\ k1 <= k3 /\ k1 <= k4
    BY <2>2, <2>4 DEF x
  <2> DEFINE y == x \o c
  <2>6. x \o c \in Seq(Partition)
    BY <2>2, <2>5
  <2>7. Rising(x \o c, k1, k4)
    BY ONLY <2>2, <2>5, RisingJoin
  <2>8. y \in Seq(Partition) /\ Rising(y, k1, k4)
    BY <2>6, <2>7
  <2> HIDE DEF y
  <2>9. Rising(y \o e, k1, k5)
    BY ONLY <2>2, <2>5, <2>8, RisingJoin
  <2> QED BY <2>2, <2>3, <2>9 DEF x, y
<1> QED BY <1>1, <1>2

(* The partitions that the i-th entry of the table describes. *)
PlacesOf(D, i) ==
  CASE D.mbr[i].type = 0  -> {}
    [] D.mbr[i].type = 15 -> InChain(D, D.mbr[i].pos)
    [] OTHER              -> {[in |-> 0, entry |-> i, pos |-> D.mbr[i].pos]}

LEMMA PlacesDiffer ==
  ASSUME NEW D, IsDrive(D), Orderly(D), NEW i \in 1..4, NEW j \in 1..4, i # j
  PROVE  PlacesOf(D, i) \cap PlacesOf(D, j) = {}
<1>1. ASSUME NEW h \in 1..4, NEW x \in PlacesOf(D, h)
      PROVE  \/ D.mbr[h].type = 15 /\ x.in # 0
             \/ D.mbr[h].type # 15 /\ x.in = 0 /\ x.entry = h
  <2>1. CASE D.mbr[h].type = 0
    BY <1>1, <2>1 DEF PlacesOf
  <2>2. CASE D.mbr[h].type = 15
    <3>1. PICK p \in Chain(D, D.mbr[h].pos) :
            x = [in |-> p, entry |-> 1, pos |-> p + D.chain[p].part.pos]
      BY <1>1, <2>2 DEF PlacesOf, InChain
    <3>2. p \in DOMAIN D.chain
      BY DEF Chain, IsEbr
    <3>3. p # 0
      BY <3>2 DEF IsDrive
    <3> QED BY <2>2, <3>1, <3>3
  <2>3. CASE D.mbr[h].type \notin {0, 15}
    <3>1. x = [in |-> 0, entry |-> h, pos |-> D.mbr[h].pos]
      BY <1>1, <2>3 DEF PlacesOf
    <3> QED BY <2>3, <3>1
  <2> QED BY <2>1, <2>2, <2>3
<1>2. ~(D.mbr[i].type = 15 /\ D.mbr[j].type = 15)
  BY DEF Orderly
<1> QED BY <1>1, <1>2

LEMMA PartitionsOfMbr ==
  ASSUME NEW D, IsDrive(D), Orderly(D), Style(D.mbr) # "gpt"
  PROVE  Partitions(D) = ((PlacesOf(D, 1) \cup PlacesOf(D, 2)) \cup PlacesOf(D, 3))
                         \cup PlacesOf(D, 4)
<1>1. \A i \in 1..4 : D.mbr[i].type # 5
  BY DEF Orderly
<1> DEFINE T == InTable(D)
           C == UNION {InChain(D, D.mbr[i].pos) : i \in {i \in 1..4 : D.mbr[i].type \in Extended}}
<1>2. Partitions(D) = T \cup C
  BY DEF Partitions
<1>3. ASSUME NEW x \in T PROVE \E i \in 1..4 : x \in PlacesOf(D, i)
  BY <1>3 DEF InTable, PlacesOf, Extended
<1>4. ASSUME NEW x \in C PROVE \E i \in 1..4 : x \in PlacesOf(D, i)
  <2>1. PICK i \in 1..4 : D.mbr[i].type \in Extended /\ x \in InChain(D, D.mbr[i].pos)
    BY <1>4
  <2> QED BY <1>1, <2>1 DEF PlacesOf, Extended
<1>5. ASSUME NEW i \in 1..4, NEW x \in PlacesOf(D, i) PROVE x \in T \cup C
  <2>1. CASE D.mbr[i].type = 0
    BY <1>5, <2>1 DEF PlacesOf
  <2>2. CASE D.mbr[i].type = 15
    <3>1. x \in InChain(D, D.mbr[i].pos)
      BY <1>5, <2>2 DEF PlacesOf
    <3>2. i \in {h \in 1..4 : D.mbr[h].type \in Extended}
      BY <2>2 DEF Extended
    <3> QED BY <3>1, <3>2
  <2>3. CASE D.mbr[i].type \notin {0, 15}
    <3>1. x = [in |-> 0, entry |-> i, pos |-> D.mbr[i].pos]
      BY <1>5, <2>3 DEF PlacesOf
    <3>2. i \in {h \in 1..4 : D.mbr[h].type \notin {0} \cup Extended}
      BY <1>1, <2>3 DEF Extended
    <3>3. x \in T
      BY <3>1, <3>2 DEF InTable
    <3> QED BY <3>3
  <2> QED BY <2>1, <2>2, <2>3
<1> HIDE DEF T, C
<1>6. \A i \in 1..4 : i = 1 \/ i = 2 \/ i = 3 \/ i = 4
  OBVIOUS
<1>7. 1 \in 1..4 /\ 2 \in 1..4 /\ 3 \in 1..4 /\ 4 \in 1..4
  OBVIOUS
<1> DEFINE A == PlacesOf(D, 1)
           B == PlacesOf(D, 2)
           E == PlacesOf(D, 3)
           F == PlacesOf(D, 4)
<1>8. \A x \in T \cup C : x \in A \/ x \in B \/ x \in E \/ x \in F
  BY <1>3, <1>4, <1>6
<1>9. \A x : x \in A \/ x \in B \/ x \in E \/ x \in F => x \in T \cup C
  BY <1>5, <1>7
<1> HIDE DEF A, B, E, F
<1>10. T \cup C = ((A \cup B) \cup E) \cup F
  BY <1>8, <1>9
<1> QED BY <1>2, <1>10 DEF A, B, E, F

LEMMA EntryMatches ==
  ASSUME NEW d, IsDisk(d), NEW D, MbrRead(d, D), EbrsRead(d, D), NEW i \in 1..4
  PROVE  Matches(OfEntry(d, i), PlacesOf(D, i))
<1> DEFINE O == OfEntry(d, i)
           t == D.mbr[i].type
<1>1. d.mbr[i] = D.mbr[i]
  BY DEF MbrRead
<1>2. /\ O \in Seq(Partition)
      /\ t = 0 => O = <<>>
      /\ t = 15 => /\ Len(O) = Len(d.ebrs)
                   /\ \A a \in 1..Len(d.ebrs) : O[a].pos = d.ebrs[a].pos
      /\ t \notin {0, 15} => Len(O) = 1 /\ O[1].pos = D.mbr[i].pos
  <2>1. /\ O \in Seq(Partition)
        /\ d.mbr[i].type = 0 => O = <<>>
        /\ d.mbr[i].type = 15 => /\ Len(O) = Len(d.ebrs)
                                 /\ \A a \in 1..Len(d.ebrs) : O[a].pos = d.ebrs[a].pos
        /\ d.mbr[i].type \notin {0, 15} => Len(O) = 1 /\ O[1].pos = d.mbr[i].pos
    BY OfEntryFacts
  <2> QED BY <1>1, <2>1
<1> HIDE DEF O
<1>3. CASE t = 0
  BY <1>2, <1>3, MatchesEmpty DEF PlacesOf, O
<1>4. CASE t = 15
  <2>1. Matches(d.ebrs, InChain(D, D.mbr[i].pos))
    BY <1>4 DEF EbrsRead
  <2>2. Matches(O, InChain(D, D.mbr[i].pos))
    BY <1>2, <1>4, <2>1, MatchesSame
  <2> QED BY <1>4, <2>2 DEF PlacesOf, O
<1>5. CASE t \notin {0, 15}
  <2> DEFINE p == [in |-> 0, entry |-> i, pos |-> D.mbr[i].pos]
             e == O[1]
  <2>1. p.pos = D.mbr[i].pos /\ e.pos = p.pos
    BY <1>2, <1>5
  <2>2. PlacesOf(D, i) = {p}
    BY <1>5 DEF PlacesOf
  <2>3. O = <<e>>
    BY <1>2, <1>5
  <2> HIDE DEF p, e
  <2>4. Matches(<<e>>, {p})
    BY <2>1, MatchesOne
  <2> QED BY <2>2, <2>3, <2>4 DEF O
<1> QED BY <1>3, <1>4, <1>5

(***************************************************************************)
(* What is made of the tables are the partitions of the drive, one each.   *)
(***************************************************************************)
LEMMA FallbackMatches ==
  ASSUME NEW d, IsDisk(d), NEW D, IsDrive(D), Orderly(D),
         MbrRead(d, D), EbrsRead(d, D), GptRead(d, D)
  PROVE  Matches(Fallback(d), Partitions(D))
<1>1. CASE d.protective
  <2> DEFINE N == Numbered("gpt", d.gpt, 0)
  <2>1. d.gpt \in Seq(GptEntry) /\ "gpt" \in Styles /\ 0 \in Nat
    BY DEF IsDisk, Styles
  <2>2. Len(N) = Len(d.gpt) /\ \A a \in 1..Len(d.gpt) : N[a].pos = d.gpt[a].pos
    BY <2>1, NumberedFacts
  <2>3. Partitions(D) = UNION {InGpt(D, s) : s \in DOMAIN D.gpt}
    BY <1>1 DEF Partitions, MbrRead
  <2>4. Matches(d.gpt, UNION {InGpt(D, s) : s \in DOMAIN D.gpt})
    BY <1>1 DEF GptRead
  <2>5. Fallback(d) = N
    BY <1>1 DEF Fallback
  <2> HIDE DEF N
  <2> QED BY <2>2, <2>3, <2>4, <2>5, MatchesSame
<1>2. CASE ~d.protective
  <2> DEFINE a == OfEntry(d, 1)
             b == OfEntry(d, 2)
             c == OfEntry(d, 3)
             e == OfEntry(d, 4)
             A == PlacesOf(D, 1)
             B == PlacesOf(D, 2)
             C == PlacesOf(D, 3)
             E == PlacesOf(D, 4)
  <2>1. 1 \in 1..4 /\ 2 \in 1..4 /\ 3 \in 1..4 /\ 4 \in 1..4
        /\ 1 # 2 /\ 1 # 3 /\ 1 # 4 /\ 2 # 3 /\ 2 # 4 /\ 3 # 4
    OBVIOUS
  <2>2. /\ a \in Seq(Partition) /\ Matches(a, A) /\ b \in Seq(Partition) /\ Matches(b, B)
        /\ c \in Seq(Partition) /\ Matches(c, C) /\ e \in Seq(Partition) /\ Matches(e, E)
    BY <2>1, EntryMatches, OfEntryFacts
  <2>3. /\ A \cap B = {} /\ A \cap C = {} /\ A \cap E = {} /\ B \cap C = {}
        /\ B \cap E = {} /\ C \cap E = {}
    BY <2>1, PlacesDiffer
  <2>4. Fallback(d) = ((a \o b) \o c) \o e
    BY <1>2, FallbackOfMbr
  <2>5. Partitions(D) = ((A \cup B) \cup C) \cup E
    BY <1>2, PartitionsOfMbr DEF MbrRead
  <2> HIDE DEF a, b, c, e, A, B, C, E
  <2>6. a \o b \in Seq(Partition) /\ (A \cup B) \cap C = {}
    BY <2>2, <2>3
  <2>7. Matches(a \o b, A \cup B)
    BY ONLY <2>2, <2>3, MatchesJoin
  <2>8. a \o b \in Seq(Partition) /\ Matches(a \o b, A \cup B) /\ (A \cup B) \cap C = {}
    BY <2>6, <2>7
  <2> DEFINE x == a \o b
             X == A \cup B
  <2> HIDE DEF x, X
  <2>9. x \in Seq(Partition) /\ Matches(x, X) /\ X \cap C = {}
    BY <2>8 DEF x, X
  <2>10. x \o c \in Seq(Partition)
    BY <2>2, <2>9
  <2>11. Matches(x \o c, X \cup C)
    BY ONLY <2>2, <2>9, MatchesJoin
  <2>12. (X \cup C) \cap E = {}
    BY <2>3 DEF X
  <2> DEFINE y == x \o c
             Y == X \cup C
  <2> HIDE DEF y, Y
  <2>13. Matches(y \o e, Y \cup E)
    BY <2>2, <2>12, <2>10, <2>11, MatchesJoin DEF y, Y
  <2> QED BY <2>4, <2>5, <2>13 DEF x, y, X, Y
<1> QED BY <1>1, <1>2

LEMMA FoundAllAt ==
  ASSUME TypeInv, DisksInv
  PROVE  PartitionsFound
<1> SUFFICES ASSUME NEW d \in ByTables, Orderly(DriveOf(d)),
                    NEW x
             PROVE  Cardinality({j \in DOMAIN d.volumes : d.volumes[j].pos = x})
                    = Cardinality({p \in Partitions(DriveOf(d)) : p.pos = x})
  BY DEF PartitionsFound
<1>1. PICK j \in 1..Len(disks) : d = disks[j]
  BY SeqFacts DEF ByTables, Physical, TypeInv
<1>2. ~d.virtual /\ ~DriveOf(d).layout.ok
  BY DEF ByTables, Physical
<1>3. IsDisk(d) /\ Finished(machine, d)
  BY <1>1, <1>2 DEF TypeInv, DisksInv
<1> DEFINE D == DriveOf(d)
           vs == d.volumes
<1>4. /\ MbrRead(d, D) /\ EbrsRead(d, D) /\ GptRead(d, D)
      /\ Len(vs) = Len(Fallback(d))
      /\ \A k \in 1..Len(vs) : vs[k].pos = Fallback(d)[k].pos
  BY <1>2, <1>3 DEF Finished, DriveOf, MadeOf
<1>5. IsDrive(D) /\ IsSeq(vs)
  BY <1>3, MachineFacts DEF Finished, DriveOf, TypeInv, IsDisk
<1>6. Matches(Fallback(d), Partitions(D))
  BY <1>3, <1>4, <1>5, FallbackMatches
<1> HIDE DEF D, vs
<1>7. Matches(vs, Partitions(D))
  BY ONLY <1>4, <1>6, MatchesSame
<1>8. Cardinality(EntriesAt(vs, x)) = Cardinality(PlacesAt(Partitions(D), x))
  BY ONLY <1>5, <1>7, MatchesCount
<1> QED BY <1>8 DEF D, vs, EntriesAt, PlacesAt

-----------------------------------------------------------------------------
LEMMA LeastIsIn ==
  ASSUME NEW n \in Nat, NEW S, S \subseteq 1..n, S # {}
  PROVE  Min(S) \in S
<1>1. S \subseteq Nat
  OBVIOUS
<1> QED BY <1>1, MinIsLeast

LEMMA VolumeOfFacts ==
  ASSUME NEW d, IsDisk(d), NEW n
  PROVE  \/ VolumeOf(d, n) = <<>>
         \/ \E k \in 1..Len(d.volumes) :
              VolumeOf(d, n) = <<d.volumes[k]>> /\ d.volumes[k].index = n
<1> DEFINE hits == {j \in DOMAIN d.volumes : d.volumes[j].index = n}
<1>1. Len(d.volumes) \in Nat /\ DOMAIN d.volumes = 1..Len(d.volumes)
  BY SeqFacts DEF IsDisk
<1>2. VolumeOf(d, n) = IF hits = {} THEN <<>> ELSE <<d.volumes[Min(hits)]>>
  BY DEF VolumeOf
<1>3. hits # {} => Min(hits) \in hits
  <2>1. hits \subseteq 1..Len(d.volumes)
    BY <1>1
  <2> HIDE DEF hits
  <2> QED BY <1>1, <2>1, LeastIsIn
<1> QED BY <1>1, <1>2, <1>3

(* The number of a volume made of the tables gives that volume. *)
LEMMA NumberGivesBack ==
  ASSUME TypeInv, DisksInv, NEW d \in ByTables, NEW j \in 1..Len(d.volumes)
  PROVE  VolumeOf(d, d.volumes[j].index) = <<d.volumes[j]>>
<1> DEFINE vs == d.volumes
           hits == {k \in DOMAIN vs : vs[k].index = vs[j].index}
<1>1. PICK i \in 1..Len(disks) : d = disks[i]
  BY SeqFacts DEF ByTables, Physical, TypeInv
<1>2. ~d.virtual /\ ~DriveOf(d).layout.ok
  BY DEF ByTables, Physical
<1>3. IsDisk(d) /\ Finished(machine, d)
  BY <1>1, <1>2 DEF TypeInv, DisksInv
<1>4. /\ Len(vs) \in Nat /\ DOMAIN vs = 1..Len(vs) /\ Len(vs) = Len(Fallback(d))
      /\ \A k \in 1..Len(vs) : vs[k].index = Fallback(d)[k].number
  BY <1>2, <1>3, SeqFacts DEF Finished, DriveOf, MadeOf, IsDisk
<1>5. Fallback(d) \in Seq(Partition)
  BY <1>3, FallbackType
<1>6. PICK lo, hi \in Nat : Rising(Fallback(d), lo, hi)
  BY <1>3, FallbackRises
<1>7. \A k \in 1..Len(vs) : vs[k].index \in Nat
  <2>1. \A k \in 1..Len(vs) : Fallback(d)[k] \in Partition
    BY <1>4, <1>5, ElementOfSeq
  <2> QED BY <1>4, <2>1 DEF Partition
<1>8. \A a, b \in 1..Len(vs) : a < b => vs[a].index < vs[b].index
  BY <1>4, <1>6 DEF Rising
<1>9. \A k \in 1..Len(vs) : vs[k].index = vs[j].index => k = j
  BY <1>4, <1>7, <1>8
<1>10. hits = {j}
  BY <1>4, <1>9
<1>11. Min({j}) = j
  <2>1. j \in Nat /\ {j} \subseteq 1..j /\ {j} # {}
    BY <1>4
  <2> QED BY <2>1, LeastIsIn
<1>12. VolumeOf(d, vs[j].index) = IF hits = {} THEN <<>> ELSE <<vs[Min(hits)]>>
  BY DEF VolumeOf
<1> HIDE DEF hits
<1> QED BY <1>10, <1>11, <1>12

-----------------------------------------------------------------------------
(***************************************************************************)
(* What the commands answer: of a list ds and a command c, r.              *)
(***************************************************************************)
Bare(r) == r \in {Nothing, [kind |-> "error"], [kind |-> "crashed"]}
ListShown(ds, r) ==
  r = [kind |-> "shown", disks |-> [j \in DOMAIN ds |-> DiskRow(ds[j])]]
DiskShown(d, r) ==
  r = [kind |-> "shown", disk |-> d,
       rows |-> [j \in DOMAIN d.volumes |-> VolumeRow(d, d.volumes[j])]]
VolumeUsed(d, v, r) ==
  \/ r = [kind |-> "shown", disk |-> d, volume |-> v, sheet |-> VolumeSheet(d, v)]
  \/ r = [kind |-> "refused", disk |-> d, volume |-> v] /\ ~IsNtfs(v)
  \/ r = [kind |-> "opened", disk |-> d, volume |-> v] /\ IsNtfs(v)
IsAnswer(ds, c, r) ==
  \/ Bare(r)
  \/ ListShown(ds, r)
  \/ c.disk + 1 \in 1..Len(ds) /\ DiskShown(ds[c.disk + 1], r)
  \/ /\ c.disk + 1 \in 1..Len(ds)
     /\ \E k \in 1..Len(ds[c.disk + 1].volumes) :
          VolumeUsed(ds[c.disk + 1], ds[c.disk + 1].volumes[k], r)

AnswerInv ==
  /\ IsAnswer(disks, command, result)
  /\ ~Bare(result) /\ NoneMissing => \A j \in 1..Len(disks) : disks[j].index = j - 1

LEMMA BareFacts ==
  ASSUME NEW r, Bare(r)
  PROVE  /\ "disks" \notin DOMAIN r /\ "disk" \notin DOMAIN r /\ "rows" \notin DOMAIN r
         /\ "volume" \notin DOMAIN r /\ r.kind \notin {"opened", "refused"}
BY DEF Bare, Nothing

LEMMA OverStays ==
  ASSUME pc = "over", [Next]_vars
  PROVE  UNCHANGED vars
BY DEF Next, List, ProbeDisk, ProbeMissing, ProbeBound, ReadMbr, NextEntry,
   EntriesEnd, EnterContainer, ReadEbr, EbrFails, SkipGpt, ReadHeader, ReadEntries,
   EntriesOver, ReadInfo, Layout, AddVolume, AddDisk, ListVirtual, VirtualFails, InfoDisks,
   InfoDisk, InfoVolume, InfoAlone, Backup

LEMMA FoundFacts ==
  ASSUME TypeInv, Found # <<>>
  PROVE  /\ pc # "failed" /\ command.disk + 1 \in 1..Len(disks)
         /\ Found[1] = disks[command.disk + 1] /\ IsDisk(Found[1])
<1> DEFINE c == command.disk
<1>1. c \in Nat /\ Len(disks) \in Nat
  BY ScanAssumption, SeqFacts DEF TypeInv, Command
<1>2. pc # "failed" /\ c < Len(disks) /\ Found = <<disks[c + 1]>>
  BY DEF Found, ByIndex
<1>3. c + 1 \in 1..Len(disks)
  BY <1>1, <1>2
<1>4. Found[1] = disks[c + 1]
  BY <1>2
<1> QED BY <1>2, <1>3, <1>4 DEF TypeInv

LEMMA AnswerStep == TypeInv /\ ListedInv /\ AnswerInv /\ [Next]_vars => AnswerInv'
<1> SUFFICES ASSUME TypeInv, ListedInv, AnswerInv, [Next]_vars PROVE AnswerInv'
  OBVIOUS
<1> DEFINE n == command.disk + 1
<1>1. CASE pc = "over"
  BY <1>1, OverStays DEF AnswerInv, vars, NoneMissing, Missing
<1>2. ASSUME Bare(result') PROVE AnswerInv'
  BY <1>2 DEF AnswerInv, IsAnswer
<1>3. CASE pc # "over" /\ pc' # "over"
  <2>1. result' = Nothing
    BY <1>3, TypeStep DEF TypeInv
  <2> QED BY <1>2, <2>1 DEF Bare
<1>4. ASSUME pc = "listed", UNCHANGED <<machine, command, disks>>,
             IsAnswer(disks, command, result')
      PROVE  AnswerInv'
  <2>1. NoneMissing' => \A j \in 1..Len(disks') : disks'[j].index = j - 1
    BY <1>4 DEF ListedInv, NoneMissing, Missing
  <2> QED BY <1>4, <2>1 DEF AnswerInv
<1>5. CASE AddVolume /\ pc' = "over"
  <2>1. result' = [kind |-> "crashed"]
    BY <1>5 DEF AddVolume, Crash, Goto
  <2> QED BY <1>2, <2>1 DEF Bare
<1>6. CASE InfoAlone
  <2>1. result' = [kind |-> "error"]
    BY <1>6 DEF InfoAlone, Over
  <2> QED BY <1>2, <2>1 DEF Bare
<1>7. CASE InfoDisks /\ pc' = "over"
  <2>1. UNCHANGED <<machine, command, disks>>
    BY <1>7 DEF InfoDisks, Stays
  <2>2. CASE pc = "failed"
    <3>1. result' \in {[kind |-> "error"], [kind |-> "crashed"]}
      BY <1>7, <2>2 DEF InfoDisks, Over
    <3> QED BY <1>2, <3>1 DEF Bare
  <2>3. CASE pc # "failed"
    <3>1. pc = "listed" /\ ListShown(disks, result')
      BY <1>7, <2>3 DEF InfoDisks, Over, Goto, ListShown
    <3> QED BY <1>4, <2>1, <3>1 DEF IsAnswer
  <2> QED BY <2>2, <2>3
<1>8. CASE InfoDisk
  <2>1. UNCHANGED <<machine, command, disks>> /\ pc \in {"listed", "failed"}
    BY <1>8 DEF InfoDisk, Stays
  <2>2. CASE Found = <<>>
    BY <1>2, <1>8, <2>2 DEF InfoDisk, Over, Bare
  <2>3. CASE Found # <<>>
    <3>1. DiskShown(Found[1], result')
      BY <1>8, <2>3 DEF InfoDisk, Over, DiskShown
    <3>2. pc = "listed" /\ n \in 1..Len(disks) /\ Found[1] = disks[n]
      BY <2>1, <2>3, FoundFacts
    <3> QED BY <1>4, <2>1, <3>1, <3>2 DEF IsAnswer
  <2> QED BY <2>2, <2>3
<1>9. CASE InfoVolume \/ Backup
  <2> DEFINE got == VolumeOf(Found[1], command.volume)
  <2>1. UNCHANGED <<machine, command, disks>> /\ pc \in {"listed", "failed"}
    BY <1>9 DEF InfoVolume, Backup, Stays
  <2>2. CASE Found = <<>>
    BY <1>2, <1>9, <2>2 DEF InfoVolume, Backup, Over, Bare
  <2>3. CASE Found # <<>> /\ got = <<>>
    BY <1>2, <1>9, <2>3 DEF InfoVolume, Backup, Over, Bare
  <2>4. CASE Found # <<>> /\ got # <<>>
    <3>1. /\ pc = "listed" /\ n \in 1..Len(disks) /\ Found[1] = disks[n]
          /\ IsDisk(disks[n])
      BY <2>1, <2>4, FoundFacts
    <3>2. PICK k \in 1..Len(disks[n].volumes) : got = <<disks[n].volumes[k]>>
      BY <2>4, <3>1, VolumeOfFacts
    <3>3. VolumeUsed(Found[1], got[1], result')
      BY <1>9, <2>4 DEF InfoVolume, Backup, Over, VolumeUsed
    <3> DEFINE v == disks[n].volumes[k]
    <3>4. got = <<v>>
      BY <3>2
    <3> HIDE DEF v, got
    <3>5. got[1] = v
      BY <3>4
    <3>6. VolumeUsed(disks[n], v, result')
      BY <3>1, <3>3, <3>5
    <3> QED BY <1>4, <2>1, <3>1, <3>6 DEF IsAnswer, v
  <2> QED BY <2>2, <2>3, <2>4
<1>10. ASSUME pc # "over", pc' = "over"
       PROVE  (AddVolume /\ pc' = "over") \/ InfoAlone \/ (InfoDisks /\ pc' = "over")
              \/ InfoDisk \/ InfoVolume \/ Backup
  BY <1>10 DEF Next, vars, scan, List, ProbeDisk, ProbeMissing, ProbeBound, ReadMbr, NextEntry,
     EntriesEnd, EnterContainer, ReadEbr, EbrFails, SkipGpt, ReadHeader, ReadEntries,
     EntriesOver, ReadInfo, Layout, AddDisk, ListVirtual, VirtualFails, Goto
<1> QED BY <1>1, <1>3, <1>5, <1>6, <1>7, <1>8, <1>9, <1>10

-----------------------------------------------------------------------------
(* What each form of an answer has, and does not have. *)
LEMMA AnswerParts ==
  ASSUME NEW r
  PROVE  /\ \A ds : ListShown(ds, r) =>
              /\ "disk" \notin DOMAIN r /\ "rows" \notin DOMAIN r /\ "volume" \notin DOMAIN r
              /\ r.kind \notin {"opened", "refused"}
              /\ r.disks = [j \in DOMAIN ds |-> DiskRow(ds[j])]
         /\ \A d : DiskShown(d, r) =>
              /\ "disks" \notin DOMAIN r /\ "volume" \notin DOMAIN r
              /\ r.kind \notin {"opened", "refused"}
              /\ r.disk = d
              /\ r.rows = [j \in DOMAIN d.volumes |-> VolumeRow(d, d.volumes[j])]
         /\ \A d, v : VolumeUsed(d, v, r) =>
              /\ "disks" \notin DOMAIN r /\ "rows" \notin DOMAIN r
              /\ r.disk = d /\ r.volume = v
              /\ r.kind = "opened" => IsNtfs(v)
              /\ r.kind = "refused" => ~IsNtfs(v)
<1>1. ASSUME NEW ds, ListShown(ds, r)
      PROVE  /\ "disk" \notin DOMAIN r /\ "rows" \notin DOMAIN r /\ "volume" \notin DOMAIN r
             /\ r.kind \notin {"opened", "refused"}
             /\ r.disks = [j \in DOMAIN ds |-> DiskRow(ds[j])]
  <2> DEFINE rows == [j \in DOMAIN ds |-> DiskRow(ds[j])]
  <2>1. r = [kind |-> "shown", disks |-> rows]
    BY <1>1 DEF ListShown
  <2> HIDE DEF rows
  <2>2. /\ "disk" \notin DOMAIN r /\ "rows" \notin DOMAIN r /\ "volume" \notin DOMAIN r
        /\ r.kind \notin {"opened", "refused"} /\ r.disks = rows
    BY <2>1
  <2> QED BY <2>2 DEF rows
<1>2. ASSUME NEW d, DiskShown(d, r)
      PROVE  /\ "disks" \notin DOMAIN r /\ "volume" \notin DOMAIN r
             /\ r.kind \notin {"opened", "refused"}
             /\ r.disk = d
             /\ r.rows = [j \in DOMAIN d.volumes |-> VolumeRow(d, d.volumes[j])]
  <2> DEFINE rows == [j \in DOMAIN d.volumes |-> VolumeRow(d, d.volumes[j])]
  <2>1. r = [kind |-> "shown", disk |-> d, rows |-> rows]
    BY <1>2 DEF DiskShown
  <2> HIDE DEF rows
  <2>2. /\ "disks" \notin DOMAIN r /\ "volume" \notin DOMAIN r
        /\ r.kind \notin {"opened", "refused"} /\ r.disk = d /\ r.rows = rows
    BY <2>1
  <2> QED BY <2>2 DEF rows
<1>3. ASSUME NEW d, NEW v, VolumeUsed(d, v, r)
      PROVE  /\ "disks" \notin DOMAIN r /\ "rows" \notin DOMAIN r
             /\ r.disk = d /\ r.volume = v
             /\ r.kind = "opened" => IsNtfs(v)
             /\ r.kind = "refused" => ~IsNtfs(v)
  <2> DEFINE sheet == VolumeSheet(d, v)
  <2>1. \/ r = [kind |-> "shown", disk |-> d, volume |-> v, sheet |-> sheet]
        \/ r = [kind |-> "refused", disk |-> d, volume |-> v] /\ ~IsNtfs(v)
        \/ r = [kind |-> "opened", disk |-> d, volume |-> v] /\ IsNtfs(v)
    BY <1>3 DEF VolumeUsed
  <2> HIDE DEF sheet
  <2> QED BY <2>1
<1> QED BY <1>1, <1>2, <1>3

LEMMA NumbersGiveBackAt ==
  ASSUME TypeInv, DisksInv, AnswerInv
  PROVE  NumbersGiveBack
<1> DEFINE c == command.disk
           n == c + 1
<1>1. c \in Nat /\ Len(disks) \in Nat /\ DOMAIN disks = 1..Len(disks)
  BY ScanAssumption, SeqFacts DEF TypeInv, Command
<1>2. CASE Bare(result)
  BY <1>2, BareFacts DEF NumbersGiveBack
<1>3. ASSUME ~Bare(result), NoneMissing
      PROVE  \A j \in 1..Len(disks) : disks[j].index = j - 1
  BY <1>3 DEF AnswerInv
<1>4. CASE ~Bare(result) /\ ListShown(disks, result)
  <2>1. /\ "disk" \notin DOMAIN result /\ "rows" \notin DOMAIN result
        /\ result.disks = [j \in DOMAIN disks |-> DiskRow(disks[j])]
    BY <1>4, AnswerParts
  <2>2. ASSUME NoneMissing, NEW j \in DOMAIN disks
        PROVE  ByIndex(result.disks[j].id) = <<disks[j]>>
    <3>1. result.disks[j].id = disks[j].index
      BY <2>1 DEF DiskRow
    <3>2. disks[j].index = j - 1
      BY <1>1, <1>3, <1>4, <2>2
    <3>3. j - 1 < Len(disks) /\ (j - 1) + 1 = j
      BY <1>1
    <3> QED BY <3>1, <3>2, <3>3 DEF ByIndex
  <2> QED BY <2>1, <2>2 DEF NumbersGiveBack
<1>5. CASE ~Bare(result) /\ n \in 1..Len(disks) /\ DiskShown(disks[n], result)
  <2> DEFINE d == disks[n]
  <2>1. /\ "disks" \notin DOMAIN result /\ result.disk = d
        /\ result.rows = [j \in DOMAIN d.volumes |-> VolumeRow(d, d.volumes[j])]
    BY <1>5, AnswerParts
  <2>2. NoneMissing => result.disk.index = command.disk
    <3>1. n - 1 = c
      BY <1>1
    <3>2. NoneMissing => d.index = n - 1
      BY <1>3, <1>5
    <3> QED BY <2>1, <3>1, <3>2
  <2>3. ASSUME result.disk \in ByTables, NEW j \in DOMAIN result.rows
        PROVE  LET v == VolumeOf(result.disk, result.rows[j].id)
               IN  v # <<>> /\ VolumeRow(result.disk, v[1]) = result.rows[j]
    <3>1. IsDisk(d)
      BY <1>5 DEF TypeInv
    <3>2. j \in 1..Len(d.volumes)
      BY <2>1, <2>3, <3>1, SeqFacts DEF IsDisk
    <3>3. result.rows[j] = VolumeRow(d, d.volumes[j])
      BY <2>1, <2>3
    <3>4. result.rows[j].id = d.volumes[j].index
      BY <3>3 DEF VolumeRow
    <3> DEFINE w == d.volumes[j]
               v == VolumeOf(d, w.index)
    <3>5. v = <<w>>
      BY <2>1, <2>3, <3>2, NumberGivesBack
    <3> HIDE DEF w, v
    <3>6. v # <<>> /\ v[1] = w
      BY <3>5
    <3>7. VolumeOf(result.disk, result.rows[j].id) = v
      BY <2>1, <3>4 DEF v, w
    <3> QED BY <2>1, <3>3, <3>6, <3>7 DEF w
  <2> QED BY <2>1, <2>2, <2>3 DEF NumbersGiveBack
<1>6. CASE /\ ~Bare(result) /\ n \in 1..Len(disks)
           /\ \E k \in 1..Len(disks[n].volumes) :
                VolumeUsed(disks[n], disks[n].volumes[k], result)
  <2>1. /\ "disks" \notin DOMAIN result /\ "rows" \notin DOMAIN result
        /\ result.disk = disks[n]
    BY <1>6, AnswerParts
  <2>2. NoneMissing => result.disk.index = command.disk
    <3>1. n - 1 = c
      BY <1>1
    <3>2. NoneMissing => disks[n].index = n - 1
      BY <1>3, <1>6
    <3> QED BY <2>1, <3>1, <3>2
  <2> QED BY <2>1, <2>2 DEF NumbersGiveBack
<1> QED BY <1>2, <1>4, <1>5, <1>6 DEF AnswerInv, IsAnswer

(* A volume that a command has used is one of a disk in the list. *)
LEMMA UsedFacts ==
  ASSUME TypeInv, DisksInv, AnswerInv,
         result.kind \in {"opened", "refused"} \/ "volume" \in DOMAIN result
  PROVE  \E j \in 1..Len(disks), k \in 1..Len(result.disk.volumes) :
           /\ result.disk = disks[j] /\ IsDisk(result.disk)
           /\ result.volume = result.disk.volumes[k]
           /\ result.kind = "opened" => IsNtfs(result.volume)
           /\ result.kind = "refused" => ~IsNtfs(result.volume)
           /\ IF result.disk.virtual THEN ~IsNtfs(result.volume)
              ELSE Formed(machine, result.disk.index, result.volume)
<1> DEFINE n == command.disk + 1
<1>1. ~Bare(result)
  BY BareFacts
<1>2. \A d : ~ListShown(disks, result) /\ ~DiskShown(d, result)
  BY AnswerParts
<1>3. n \in 1..Len(disks)
      /\ \E k \in 1..Len(disks[n].volumes) : VolumeUsed(disks[n], disks[n].volumes[k], result)
  BY <1>1, <1>2 DEF AnswerInv, IsAnswer
<1> DEFINE d == disks[n]
<1>4. PICK k \in 1..Len(d.volumes) : VolumeUsed(d, d.volumes[k], result)
  BY <1>3
<1> DEFINE v == d.volumes[k]
<1>5. /\ result.disk = d /\ result.volume = v
      /\ result.kind = "opened" => IsNtfs(v)
      /\ result.kind = "refused" => ~IsNtfs(v)
  BY <1>4, AnswerParts
<1>6. IsDisk(d)
  BY <1>3 DEF TypeInv
<1>7. IF d.virtual THEN ~IsNtfs(v) ELSE Formed(machine, d.index, v)
  BY <1>3, <1>4 DEF DisksInv, Unreadable, Finished
<1> QED BY <1>3, <1>4, <1>5, <1>6, <1>7

LEMMA NtfsDecisionAt ==
  ASSUME TypeInv, DisksInv, AnswerInv
  PROVE  NtfsDecision
<1> SUFFICES ASSUME result.kind \in {"opened", "refused"} PROVE NtfsDecision
  BY DEF NtfsDecision
<1> DEFINE d == result.disk
           v == result.volume
           D == machine.drives[d.index]
<1>1. /\ result.kind = "opened" => IsNtfs(v)
      /\ result.kind = "refused" => ~IsNtfs(v)
      /\ IF d.virtual THEN ~IsNtfs(v) ELSE Formed(machine, d.index, v)
  BY UsedFacts
<1>2. /\ d.virtual => ~IsNtfs(v)
      /\ ~d.virtual /\ IsNtfs(v) => BeginsAsNtfs(D, v.pos)
      /\ ~d.virtual /\ BeginsAsNtfs(D, v.pos) /\ D.sound /\ v.pos % SeekWord # 0 => IsNtfs(v)
  BY <1>1 DEF Formed, SeekSeen
<1>3. DriveOf(d) = D
  BY DEF DriveOf
<1> HIDE DEF d, v, D
<1>4. LET real == ~d.virtual /\ v.pos \in DOMAIN DriveOf(d).boot
                  /\ DriveOf(d).boot[v.pos] \in {"ntfs", "fve"}
      IN  IF result.kind = "opened" THEN real
          ELSE ~real \/ ~DriveOf(d).sound \/ v.pos % SeekWord = 0
  BY <1>1, <1>2, <1>3 DEF BeginsAsNtfs
<1> QED BY <1>4 DEF NtfsDecision, d, v

LEMMA InfoFacts ==
  ASSUME NEW os, NEW name, NEW a, a \in InfoByName(os, name), NEW o,
         (CHOOSE w \in ToSet(os) : w.name = name) = o
  PROVE  \E l \in {o.label, NoName}, m \in {FirstMount(o), <<>>} :
           a = [label |-> l, mounts |-> m]
BY DEF InfoByName

LEMMA AskedVolumeAt ==
  ASSUME TypeInv, DisksInv, AnswerInv
  PROVE  AskedVolumeIsUsed
<1> DEFINE d == result.disk
           v == result.volume
           os == machine.os
           place == [disk |-> d.index, pos |-> v.pos, len |-> v.len]
           there == {o \in ToSet(os) : o.opens /\ place \in o.extents}
           hits == {j \in DOMAIN os : os[j].opens /\ place \in os[j].extents}
<1> SUFFICES ASSUME "volume" \in DOMAIN result, ~d.virtual, there # {}
             PROVE  \E o \in there : /\ o.name = v.name
                                     /\ v.about.label \in {o.label, NoName}
                                     /\ ToSet(v.about.mounts) \subseteq ToSet(o.mounts)
  BY DEF AskedVolumeIsUsed
<1>1. Formed(machine, d.index, v)
  BY UsedFacts
<1>2. /\ os \in Seq(OsVolume) /\ Len(os) \in Nat /\ DOMAIN os = 1..Len(os)
      /\ ToSet(os) = {os[j] : j \in 1..Len(os)}
      /\ \A i, j \in 1..Len(os) : os[i].name = os[j].name => i = j
  <2>1. IsOs(os) /\ IsSeq(os)
    BY MachineFacts DEF TypeInv, IsOs, IsSeq
  <2> QED BY <2>1, SeqFacts DEF IsOs
<1>3. hits # {} /\ hits \subseteq 1..Len(os)
  BY <1>2
<1> DEFINE h == Min(hits)
           o == os[h]
<1>4. h \in hits
  <2> HIDE DEF hits
  <2> QED BY <1>2, <1>3, LeastIsIn
<1>5. h \in 1..Len(os) /\ o \in there
  BY <1>2, <1>4
<1>6. FindVolumeName(os, d.index, v.pos, v.len)
      = IF hits = {} THEN os[Len(os)].name ELSE os[Min(hits)].name
  BY DEF FindVolumeName
<1>7. v.name = o.name /\ v.about \in InfoByName(os, o.name)
  BY <1>1, <1>3, <1>6 DEF Formed
<1> HIDE DEF hits, h
<1>8. (CHOOSE w \in ToSet(os) : w.name = o.name) = o
  <2>1. o \in ToSet(os) /\ \A w \in ToSet(os) : w.name = o.name => w = o
    BY <1>2, <1>5
  <2> HIDE DEF o, os
  <2> QED BY <2>1
<1>9. o \in OsVolume
  BY <1>2, <1>5, ElementOfSeq
<1>10. o.mounts \in Seq(STRING) /\ o.answers \in BOOLEAN
  BY <1>9 DEF OsVolume
<1> HIDE DEF o, os, there, place
<1>11. PICK l \in {o.label, NoName}, m \in {FirstMount(o), <<>>} :
         v.about = [label |-> l, mounts |-> m]
  <2> DEFINE name == o.name
             a == v.about
  <2>1. a \in InfoByName(os, name) /\ (CHOOSE w \in ToSet(os) : w.name = name) = o
    BY <1>7, <1>8
  <2> HIDE DEF name, a
  <2>2. \E l \in {o.label, NoName}, m \in {FirstMount(o), <<>>} :
          a = [label |-> l, mounts |-> m]
    BY <2>1, InfoFacts
  <2> QED BY <2>2 DEF a
<1>12. ToSet(m) \subseteq ToSet(o.mounts)
  <2>1. ToSet(<<>>) = {}
    BY DEF ToSet
  <2>2. ASSUME o.mounts # <<>> PROVE ToSet(<<o.mounts[1]>>) \subseteq ToSet(o.mounts)
    <3>1. 1 \in DOMAIN o.mounts
      BY <1>10, <2>2
    <3> QED BY <3>1 DEF ToSet
  <2> QED BY <1>11, <2>1, <2>2 DEF FirstMount
<1>13. v.about.label = l /\ v.about.mounts = m
  BY <1>11
<1> QED BY <1>5, <1>7, <1>11, <1>12, <1>13

-----------------------------------------------------------------------------
LEMMA InvInit ==
  ASSUME Init
  PROVE  DisksInv /\ VolumesInv /\ TablesInv /\ ProbeInv /\ ListedInv /\ AnswerInv
<1>1. pc = "list" /\ disks = <<>> /\ result = Nothing
  BY DEF Init
<1>2. Len(<<>>) = 0 /\ 1..0 = {}
  OBVIOUS
<1>3. DisksInv
  BY <1>1, <1>2 DEF DisksInv
<1>4. VolumesInv /\ TablesInv /\ ProbeInv /\ ListedInv
  BY <1>1 DEF VolumesInv, TablesInv, ProbeInv, ListedInv, Building
<1>5. AnswerInv
  BY <1>1 DEF AnswerInv, IsAnswer, Bare
<1> QED BY <1>3, <1>4, <1>5

(***************************************************************************)
(* The inductive invariant of the scan.                                    *)
(***************************************************************************)
ScanInv ==
  /\ TypeInv
  /\ DisksInv /\ VolumesInv /\ TablesInv
  /\ ProbeInv /\ ListedInv
  /\ AnswerInv

LEMMA ScanInvStep == ScanInv /\ [Next]_vars => ScanInv'
BY TypeStep, DisksStep, VolumesStep, TablesStep, ProbeStep, ListedStep, AnswerStep
   DEF ScanInv

LEMMA ScanInvHolds == Spec => []ScanInv
<1>1. Init => ScanInv
  BY TypeInit, InvInit DEF ScanInv
<1> QED BY <1>1, ScanInvStep, PTL DEF Spec

(***************************************************************************)
(* Every drive is listed if Windows left out one number at most, and fewer *)
(* than Gap drives are numbered behind it (the two loops of list()).       *)
(***************************************************************************)
THEOREM ListAlwaysComplete == Spec => []ListIsComplete
<1>1. ScanInv => ListIsComplete
  BY DEF ScanInv, ListedInv, ListIsComplete
<1> QED BY ScanInvHolds, <1>1, PTL

(***************************************************************************)
(* Where the driver gives no layout, Disk's constructor makes one volume   *)
(* of every partition that orderly tables describe, and no other.          *)
(***************************************************************************)
THEOREM PartitionsAlwaysFound == Spec => []PartitionsFound
<1>1. ScanInv => PartitionsFound
  BY FoundAllAt DEF ScanInv
<1> QED BY ScanInvHolds, <1>1, PTL

(***************************************************************************)
(* by_index() gives a disk back by the number that print_disks() shows, if *)
(* Windows left out none, and volumes() a volume by the one in its row,    *)
(* whatever the tables say and however much of them could be read.         *)
(***************************************************************************)
THEOREM NumbersAlwaysGiveBack == Spec => []NumbersGiveBack
<1>1. ScanInv => NumbersGiveBack
  BY NumbersGiveBackAt DEF ScanInv
<1> QED BY ScanInvHolds, <1>1, PTL

(***************************************************************************)
(* The backup command opens only what begins as NTFS or BitLocker do, and  *)
(* on a sound drive refuses no such volume, unless the low half of its     *)
(* position is 0.                                                          *)
(***************************************************************************)
THEOREM NtfsAlwaysDecided == Spec => []NtfsDecision
<1>1. ScanInv => NtfsDecision
  BY NtfsDecisionAt DEF ScanInv
<1> QED BY ScanInvHolds, <1>1, PTL

(***************************************************************************)
(* What backup opens and info shows is the volume that was asked for, if   *)
(* Windows has one exactly there and the driver gave the layout.           *)
(***************************************************************************)
THEOREM AskedAlwaysUsed == Spec => []AskedVolumeIsUsed
<1>1. ScanInv => AskedVolumeIsUsed
  BY AskedVolumeAt DEF ScanInv
<1> QED BY ScanInvHolds, <1>1, PTL
=============================================================================
