---------------------------- MODULE DataLemmas ------------------------------
(***************************************************************************)
(* Facts about numbers, recursive functions and sequences that several     *)
(* proofs need.  Induction is over a set of numbers: what fails for some   *)
(* number fails for a least one.                                           *)
(***************************************************************************)
EXTENDS Integers, FiniteSets, FiniteSetsExt, FiniteSetTheorems, SequencesExt,
        SequenceTheorems, WellFoundedInduction, TLAPS

(***************************************************************************)
(* A set of numbers has a least one: the sets 0..n, n in S, are ordered by *)
(* inclusion, which is well founded for finite sets.                       *)
(***************************************************************************)
LEMMA NatMin ==
  ASSUME NEW S \in SUBSET Nat, S # {}
  PROVE  \E m \in S : \A n \in S : m <= n
<1> DEFINE T == {0..n : n \in S}
           R == StrictSubsetOrdering(Nat)
           F == FiniteSubsetsOf(Nat)
<1>1. IsWellFoundedOn(R, F)
  BY FS_StrictSubsetOrderingWellFounded
<1>2. T \subseteq F
  <2>1. ASSUME NEW n \in S PROVE 0..n \in F
    <3>1. IsFiniteSet(0..n) /\ 0..n \in SUBSET Nat
      BY FS_Interval
    <3> QED
      BY <3>1 DEF FiniteSubsetsOf
  <2> QED
    BY <2>1
<1>3. T # {}
  OBVIOUS
<1>4. \E x \in T : \A y \in T : ~ (<<y, x>> \in R)
  <2> HIDE DEF T, R, F
  <2> QED BY <1>1, <1>2, <1>3, WFMin
<1>5. PICK m \in S : \A n \in S : ~ (<<0..n, 0..m>> \in R)
  BY <1>4
<1>6. ASSUME NEW n \in S, n < m PROVE FALSE
  <2>1. 0..n \subseteq 0..m /\ m \notin 0..n /\ m \in 0..m
    BY <1>6
  <2>2. <<0..n, 0..m>> \in R
    BY <2>1 DEF StrictSubsetOrdering
  <2> QED BY <2>2, <1>5
<1> QED BY <1>5, <1>6

(* Min and Max, of a set of numbers and of a set of places in a sequence. *)
LEMMA MinIsLeast ==
  ASSUME NEW S \in SUBSET Nat, S # {}
  PROVE  Min(S) \in S /\ \A n \in S : Min(S) <= n
<1>1. \E m \in S : \A n \in S : m <= n
  BY NatMin
<1> QED BY <1>1 DEF Min

LEMMA MaxIsGreatest ==
  ASSUME NEW b \in Nat, NEW S \in SUBSET (0..b), S # {}
  PROVE  Max(S) \in S /\ \A n \in S : n <= Max(S)
<1> DEFINE T == {b - n : n \in S}
<1>1. T \in SUBSET Nat /\ T # {}
  <2>1. \A n \in S : b - n \in Nat
    OBVIOUS
  <2>2. PICK n \in S : TRUE
    OBVIOUS
  <2>3. b - n \in T
    BY <2>2
  <2> QED BY <2>1, <2>3
<1>2. PICK t \in T : \A u \in T : t <= u
  <2> HIDE DEF T
  <2> QED BY <1>1, NatMin
<1>3. PICK m \in S : t = b - m
  BY <1>2
<1>4. ASSUME NEW n \in S PROVE n <= m
  <2>1. b - m <= b - n
    <3>1. b - n \in T
      OBVIOUS
    <3> HIDE DEF T
    <3> QED BY <1>2, <1>3, <3>1
  <2>2. n \in Int /\ m \in Int
    OBVIOUS
  <2> QED BY <2>1, <2>2
<1>5. \E x \in S : \A y \in S : x >= y
  <2>1. \A n \in S : n \in Int
    OBVIOUS
  <2> QED BY <1>4, <2>1
<1>6. Max(S) \in S /\ \A y \in S : Max(S) >= y
  BY <1>5 DEF Max
<1>7. \A n \in S : n \in Int
  OBVIOUS
<1> QED BY <1>6, <1>7

LEMMA MinOfTwo ==
  ASSUME NEW a \in Int, NEW b \in Int
  PROVE  Min({a, b}) = IF a <= b THEN a ELSE b
BY DEF Min

(* What a conversion to an unsigned type of w values leaves. *)
LEMMA ModRange ==
  ASSUME NEW w \in Nat \ {0}, NEW a \in Int
  PROVE  a % w \in Nat /\ a % w < w /\ (a \in Nat => a % w <= a)
                       /\ (a \in 0..(w - 1) => a % w = a)
OBVIOUS

(* Quotients and products. *)
LEMMA QuotientAndRest ==
  ASSUME NEW m \in Nat, m # 0, NEW a \in Int
  PROVE  /\ a \div m \in Int /\ a % m \in 0..(m - 1)
         /\ a = (m * (a \div m)) + (a % m)
         /\ a \in Nat => a \div m \in Nat
OBVIOUS

LEMMA RestIsUnique ==
  ASSUME NEW m \in Nat, m # 0, NEW x \in Int, NEW y \in 0..(m - 1),
         NEW a \in Int, a = m * x + y
  PROVE  a % m = y /\ a \div m = x
<1> DEFINE q == a \div m
           r == a % m
<1>1. q \in Int /\ r \in 0..(m - 1) /\ a = m * q + r
  BY QuotientAndRest
<1> HIDE DEF q, r
<1>2. m * (q - x) = y - r
  BY <1>1
<1>3. q - x < 1
  <2>1. SUFFICES ASSUME q - x >= 1 PROVE FALSE
    BY <1>1
  <2>2. m * (q - x) >= m
    BY <1>1, <2>1
  <2> QED BY <1>1, <1>2, <2>2
<1>4. q - x > -1
  <2>1. SUFFICES ASSUME q - x <= -1 PROVE FALSE
    BY <1>1
  <2>2. m * (q - x) <= -m
    BY <1>1, <2>1
  <2> QED BY <1>1, <1>2, <2>2
<1>5. q = x
  BY <1>1, <1>3, <1>4
<1>6. r = y
  BY <1>1, <1>2, <1>5
<1> QED BY <1>5, <1>6 DEF q, r

LEMMA TimesGrows ==
  ASSUME NEW w \in Nat, NEW x \in Nat, NEW y \in Nat, x <= y
  PROVE  w * x \in Nat /\ w * y \in Nat /\ w * x <= w * y
<1> DEFINE d == y - x
<1>1. d \in Nat /\ y = x + d
  OBVIOUS
<1> HIDE DEF d
<1>2. w * y = w * x + w * d /\ w * d \in Nat /\ w * x \in Nat
  BY <1>1
<1> QED BY <1>2

(* One block more of what is a whole number of blocks. *)
LEMMA Multiples ==
  ASSUME NEW b \in Nat \ {0}, NEW p \in Nat, NEW t \in Nat, p % b = 0, t % b = 0, p < t
  PROVE  p + b <= t /\ (p + b) % b = 0
<1> DEFINE q == p \div b
           r == t \div b
<1>1. q \in Nat /\ r \in Nat /\ p = b * q + 0 /\ t = b * r + 0
  BY QuotientAndRest
<1> HIDE DEF q, r
<1>2. p = b * q /\ t = b * r /\ b * q \in Nat /\ b * r \in Nat
  BY <1>1
<1>3. q < r
  <2>1. SUFFICES ASSUME r <= q PROVE FALSE
    BY <1>1
  <2>2. b * r <= b * q
    BY <1>1, <2>1, TimesGrows
  <2> QED BY <1>2, <2>2
<1>4. b * (q + 1) <= b * r
  BY <1>1, <1>3, TimesGrows
<1>5. b * (q + 1) = b * q + b
  BY <1>1
<1>6. p + b <= t
  BY <1>2, <1>4, <1>5
<1>7. (p + b) % b = 0
  <2>1. p + b = b * (q + 1) + 0
    BY <1>1, <1>2, <1>5
  <2> DEFINE x == q + 1
             a == p + b
  <2>2. x \in Int /\ a \in Int /\ 0 \in 0..(b - 1) /\ b \in Nat /\ b # 0
    BY <1>1
  <2>4. a = b * x + 0
    BY <2>1
  <2> HIDE DEF x, a
  <2>3. a % b = 0
    BY <2>2, <2>4, RestIsUnique
  <2> QED BY <2>3 DEF a
<1> QED BY <1>6, <1>7

(* The factor of a product. *)
LEMMA SameProduct ==
  ASSUME NEW w \in Nat \ {0}, NEW x \in Nat, NEW y \in Nat, x * w = y * w
  PROVE  x = y
<1>1. ASSUME NEW p \in Nat, NEW q \in Nat, p < q, p * w = q * w PROVE FALSE
  <2>1. w * (p + 1) <= w * q
    BY <1>1, TimesGrows
  <2>2. w * (p + 1) = w * p + w /\ w * p \in Nat /\ w * p = p * w /\ w * q = q * w
    BY <1>1
  <2> QED BY <1>1, <2>1, <2>2
<1>2. CASE x < y
  BY <1>1, <1>2
<1>3. CASE y < x
  BY <1>1, <1>3
<1> QED BY <1>2, <1>3

-----------------------------------------------------------------------------
(* A set that holds the first number, and with each the next, holds all.   *)
LEMMA Induction ==
  ASSUME NEW lo \in Nat, NEW hi \in Nat, NEW P,
         lo <= hi => lo \in P,
         \A n \in lo..(hi - 1) : n \in P => n + 1 \in P
  PROVE  lo..hi \subseteq P
<1> DEFINE Bad == {n \in lo..hi : n \notin P}
<1>1. SUFFICES ASSUME Bad # {} PROVE FALSE
  OBVIOUS
<1>2. Bad \in SUBSET Nat
  OBVIOUS
<1>3. PICK m \in Bad : \A n \in Bad : m <= n
  <2> HIDE DEF Bad
  <2> QED BY <1>1, <1>2, NatMin
<1>4. m \in lo..hi /\ m \notin P
  BY <1>3
<1>5. m # lo
  BY <1>4
<1>6. m - 1 \in lo..(hi - 1) /\ m - 1 \in lo..hi /\ m \in Int
  BY <1>4, <1>5
<1>7. m - 1 \notin Bad
  BY <1>3, <1>6
<1>8. m - 1 \in P
  BY <1>6, <1>7
<1>9. (m - 1) + 1 \in P
  BY <1>6, <1>8
<1> QED BY <1>4, <1>6, <1>9

(***************************************************************************)
(* A function over 1..n may be defined from its first value and a step.    *)
(***************************************************************************)
IsSteps(step, n, S) == step \in [1..n -> [S -> S]]
IsMadeBy(f, n, S, first, step) ==
  /\ f \in [1..n -> S]
  /\ \A i \in 1..n : f[i] = IF i = 1 THEN first ELSE step[i][f[i - 1]]

LEMMA RecursiveFunction ==
  ASSUME NEW S, NEW n \in Nat, NEW first \in S, NEW step, IsSteps(step, n, S)
  PROVE  \E f : IsMadeBy(f, n, S, first, step)
<1> USE DEF IsSteps, IsMadeBy
<1> DEFINE Good(k) ==
      \E f \in [1..k -> S] : \A i \in 1..k : f[i] = IF i = 1 THEN first ELSE step[i][f[i - 1]]
           P == {k \in 0..n : Good(k)}
<1>1. 0 \in P
  <2> DEFINE f == [i \in 1..0 |-> first]
  <2>1. f \in [1..0 -> S]
    OBVIOUS
  <2>2. \A i \in 1..0 : FALSE
    OBVIOUS
  <2>3. Good(0)
    <3>1. \A i \in 1..0 : f[i] = IF i = 1 THEN first ELSE step[i][f[i - 1]]
      BY <2>2, Zenon
    <3> HIDE DEF f
    <3> QED BY <2>1, <3>1, Zenon
  <2> HIDE DEF Good
  <2> QED BY <2>3
<1>2. ASSUME NEW k \in 0..(n - 1), k \in P PROVE k + 1 \in P
  <2>1. PICK f \in [1..k -> S] : \A i \in 1..k : f[i] = IF i = 1 THEN first ELSE step[i][f[i - 1]]
    BY <1>2
  <2> DEFINE last == IF k = 0 THEN first ELSE step[k + 1][f[k]]
             g == [i \in 1..(k + 1) |-> IF i = k + 1 THEN last ELSE f[i]]
  <2>2. last \in S
    <3>1. CASE k = 0
      BY <3>1
    <3>2. CASE k # 0
      <4>1. k \in 1..k /\ k + 1 \in 1..n
        BY <3>2
      <4>2. f[k] \in S
        BY <4>1
      <4> QED BY <3>2, <4>2
    <3> QED BY <3>1, <3>2
  <2>3. g \in [1..(k + 1) -> S]
    BY <2>2
  <2>4. ASSUME NEW i \in 1..(k + 1)
        PROVE  g[i] = IF i = 1 THEN first ELSE step[i][g[i - 1]]
    <3>1. CASE i = k + 1
      <4>1. CASE k = 0
        BY <3>1, <4>1
      <4>2. CASE k # 0
        <5>1. k \in 1..(k + 1) /\ k # k + 1 /\ i - 1 = k /\ i # 1
          BY <3>1, <4>2
        <5>2. g[k] = f[k]
          BY <5>1
        <5>3. g[i] = step[k + 1][f[k]]
          BY <3>1, <4>2
        <5> QED BY <3>1, <5>1, <5>2, <5>3
      <4> QED BY <4>1, <4>2
    <3>2. CASE i # k + 1
      <4>1. i \in 1..k /\ g[i] = f[i]
        BY <3>2
      <4>2. i # 1 => i - 1 \in 1..(k + 1) /\ i - 1 # k + 1
        BY <4>1
      <4>3. i # 1 => g[i - 1] = f[i - 1]
        BY <4>2
      <4> QED BY <2>1, <4>1, <4>3
    <3> QED BY <3>1, <3>2
  <2>5. Good(k + 1)
    <3> HIDE DEF g, last
    <3> QED BY <2>3, <2>4, Zenon
  <2> QED BY <2>5
<1>3. n \in P
  <2> HIDE DEF P
  <2>1. 0..n \subseteq P
    <3>1. 0 \in Nat
      OBVIOUS
    <3> QED BY <1>1, <1>2, <3>1, Induction
  <2> QED BY <2>1
<1> QED BY <1>3

(***************************************************************************)
(* Where the parts of a sequence of sequences begin when they are laid out *)
(* one after the other.                                                    *)
(***************************************************************************)
Begins(b, s) ==
  /\ b \in [1..(Len(s) + 1) -> Nat] /\ b[1] = 0
  /\ \A j \in 1..Len(s) : b[j + 1] = b[j] + Len(s[j])

LEMMA BeginsExist ==
  ASSUME NEW s, Len(s) \in Nat, \A j \in 1..Len(s) : Len(s[j]) \in Nat
  PROVE  \E b : Begins(b, s)
<1> DEFINE n == Len(s)
           step == [i \in 1..(n + 1) |->
                      [x \in Nat |-> IF i = 1 THEN 0 ELSE x + Len(s[i - 1])]]
<1>1. n \in Nat /\ n + 1 \in Nat /\ 1 \in 1..(n + 1) /\ 0 \in Nat
  OBVIOUS
<1>2. ASSUME NEW i \in 1..(n + 1), i # 1 PROVE i - 1 \in 1..n /\ Len(s[i - 1]) \in Nat
  <2>1. i - 1 \in 1..n
    BY <1>1, <1>2
  <2> QED BY <2>1
<1>3. IsSteps(step, n + 1, Nat)
  <2>1. \A i \in 1..(n + 1) : \A x \in Nat :
          (IF i = 1 THEN 0 ELSE x + Len(s[i - 1])) \in Nat
    BY <1>2
  <2> QED BY <2>1 DEF IsSteps
<1>4. PICK b : IsMadeBy(b, n + 1, Nat, 0, step)
  <2> HIDE DEF step, n
  <2> QED BY <1>1, <1>3, RecursiveFunction
<1>5. b \in [1..(n + 1) -> Nat] /\ b[1] = 0
  BY <1>1, <1>4 DEF IsMadeBy
<1>6. ASSUME NEW j \in 1..n PROVE b[j + 1] = b[j] + Len(s[j])
  <2>1. j + 1 \in 1..(n + 1) /\ j + 1 # 1 /\ (j + 1) - 1 = j /\ j \in 1..(n + 1)
    BY <1>1
  <2>2. b[j + 1] = step[j + 1][b[j]]
    <3> HIDE DEF step
    <3> QED BY <1>4, <2>1 DEF IsMadeBy
  <2>3. b[j] \in Nat
    BY <1>5, <2>1
  <2> QED BY <2>1, <2>2, <2>3
<1> QED BY <1>5, <1>6 DEF Begins

LEMMA BeginsMonotone ==
  ASSUME NEW s, Len(s) \in Nat, \A j \in 1..Len(s) : Len(s[j]) \in Nat,
         NEW b, Begins(b, s), NEW i \in 1..(Len(s) + 1), NEW j \in i..(Len(s) + 1)
  PROVE  b[i] <= b[j]
<1> DEFINE P == {k \in i..(Len(s) + 1) : b[i] <= b[k]}
<1>1. i \in P
  BY DEF Begins
<1>2. ASSUME NEW k \in i..((Len(s) + 1) - 1), k \in P PROVE k + 1 \in P
  <2>1. k \in 1..Len(s) /\ k + 1 \in i..(Len(s) + 1)
    OBVIOUS
  <2>2. b[k + 1] = b[k] + Len(s[k]) /\ Len(s[k]) \in Nat /\ b[k] \in Nat /\ b[i] \in Nat
    BY <2>1 DEF Begins
  <2> QED BY <1>2, <2>1, <2>2
<1>3. i..(Len(s) + 1) \subseteq P
  <2>1. i \in Nat /\ Len(s) + 1 \in Nat
    OBVIOUS
  <2> HIDE DEF P
  <2> QED BY <1>1, <1>2, <2>1, Induction
<1> QED BY <1>3

LEMMA FlattenIsRecursive ==
  ASSUME NEW S, NEW s \in Seq(Seq(S)), s # <<>>
  PROVE  \E f \in [1..Len(s) -> Seq(S)] :
           /\ FlattenSeq(s) = f[Len(s)]
           /\ \A i \in 1..Len(s) : f[i] = IF i = 1 THEN s[i] ELSE f[i - 1] \o s[i]
<1> DEFINE n == Len(s)
           step == [i \in 1..n |-> [t \in Seq(S) |-> t \o s[i]]]
           F(f) == f = [i \in 1..n |-> IF i = 1 THEN s[i] ELSE f[i - 1] \o s[i]]
<1>1. n \in Nat /\ n # 0 /\ DOMAIN s = 1..n /\ \A i \in 1..n : s[i] \in Seq(S)
  BY EmptySeq, LenProperties, ElementOfSeq
<1>2. step \in [1..n -> [Seq(S) -> Seq(S)]]
  <2>1. \A i \in 1..n : \A t \in Seq(S) : t \o s[i] \in Seq(S)
    BY <1>1, ConcatProperties
  <2> QED BY <2>1
<1>3. \E f \in [1..n -> Seq(S)] : F(f)
  <2>1. s[1] \in Seq(S)
    BY <1>1
  <2>2. PICK f \in [1..n -> Seq(S)] :
          \A i \in 1..n : f[i] = IF i = 1 THEN s[1] ELSE step[i][f[i - 1]]
    <3> DEFINE T == Seq(S)
               a == s[1]
    <3>1. n \in Nat /\ a \in T /\ IsSteps(step, n, T)
      BY <1>1, <1>2, <2>1 DEF IsSteps
    <3> HIDE DEF step, n, a, T
    <3>2. \E f : IsMadeBy(f, n, T, a, step)
      BY <3>1, RecursiveFunction
    <3> QED BY <3>2 DEF a, T, IsMadeBy
  <2>3. ASSUME NEW i \in 1..n
        PROVE  (IF i = 1 THEN s[1] ELSE step[i][f[i - 1]])
               = (IF i = 1 THEN s[i] ELSE f[i - 1] \o s[i])
    <3>1. i # 1 => i - 1 \in 1..n
      BY <1>1
    <3>2. i # 1 => f[i - 1] \in Seq(S)
      BY <3>1
    <3> QED BY <3>2
  <2>4. [i \in 1..n |-> f[i]] = [i \in 1..n |-> IF i = 1 THEN s[i] ELSE f[i - 1] \o s[i]]
    <3> HIDE DEF step, n
    <3> QED BY <2>2, <2>3
  <2>5. F(f)
    <3>1. f = [i \in 1..n |-> f[i]]
      OBVIOUS
    <3> QED BY <2>4, <3>1
  <2> QED BY <2>5
<1>4. FlattenSeq(s) = (CHOOSE f : F(f))[n]
  BY <1>1 DEF FlattenSeq
<1>5. F(CHOOSE f : F(f))
  <2> HIDE DEF F
  <2> QED BY <1>3
<1> DEFINE f == CHOOSE f : F(f)
<1>6. f = [i \in 1..n |-> IF i = 1 THEN s[i] ELSE f[i - 1] \o s[i]]
  BY <1>5
<1>7. \A i \in 1..n : f[i] = IF i = 1 THEN s[i] ELSE f[i - 1] \o s[i]
  <2> HIDE DEF f, n
  <2> QED BY <1>6
<1>8. f \in [1..n -> Seq(S)]
  <2> DEFINE P == {i \in 1..n : f[i] \in Seq(S)}
  <2>1. 1 \in P
    <3>1. 1 \in 1..n /\ s[1] \in Seq(S)
      BY <1>1
    <3>2. f[1] = s[1]
      <4> HIDE DEF f, n
      <4> QED BY <1>7, <3>1
    <3> HIDE DEF f, n
    <3> QED BY <3>1, <3>2
  <2>2. ASSUME NEW k \in 1..(n - 1), k \in P PROVE k + 1 \in P
    <3>1. k + 1 \in 1..n /\ k + 1 # 1 /\ (k + 1) - 1 = k
      BY <1>1
    <3>2. f[k + 1] = f[k] \o s[k + 1]
      <4> HIDE DEF f
      <4> QED BY <1>7, <3>1
    <3>3. f[k] \in Seq(S) /\ s[k + 1] \in Seq(S)
      BY <1>1, <2>2, <3>1
    <3>4. f[k + 1] \in Seq(S)
      BY <3>2, <3>3, ConcatProperties
    <3> QED BY <3>1, <3>4
  <2>3. 1..n \subseteq P
    <3> HIDE DEF P, n
    <3> QED BY <1>1, <2>1, <2>2, Induction
  <2>4. \A i \in 1..n : f[i] \in Seq(S)
    BY <2>3
  <2> HIDE DEF f, n
  <2> QED BY <1>6, <2>4
<1> HIDE DEF f, n
<1>9. FlattenSeq(s) = f[n]
  BY <1>4 DEF f
<1> QED BY <1>7, <1>8, <1>9 DEF n
(* What FlattenSeq() makes of it, and where each element goes.             *)
LEMMA FlattenFacts ==
  ASSUME NEW S, NEW s \in Seq(Seq(S)), NEW b, Begins(b, s)
  PROVE  /\ FlattenSeq(s) \in Seq(S) /\ Len(FlattenSeq(s)) = b[Len(s) + 1]
         /\ \A i \in 1..Len(s) : \A c \in 1..Len(s[i]) :
              /\ b[i] + c \in 1..Len(FlattenSeq(s))
              /\ FlattenSeq(s)[b[i] + c] = s[i][c]
<1> DEFINE n == Len(s)
<1>1. n \in Nat /\ DOMAIN s = 1..n /\ \A i \in 1..n : s[i] \in Seq(S) /\ Len(s[i]) \in Nat
  BY LenProperties, ElementOfSeq
<1>2. CASE s = <<>>
  <2>1. n = 0 /\ 1..n = {}
    BY <1>2, EmptySeq
  <2>2. FlattenSeq(s) = <<>>
    BY <1>2, <2>1 DEF FlattenSeq
  <2>3. b[n + 1] = 0
    BY <2>1 DEF Begins
  <2>4. <<>> \in Seq(S) /\ Len(<<>>) = 0
    BY EmptySeq
  <2> QED BY <2>1, <2>2, <2>3, <2>4
<1>3. CASE s # <<>>
  <2>1. PICK f \in [1..n -> Seq(S)] :
          /\ FlattenSeq(s) = f[n]
          /\ \A i \in 1..n : f[i] = IF i = 1 THEN s[i] ELSE f[i - 1] \o s[i]
    BY <1>3, FlattenIsRecursive
  <2>2. n # 0
    BY <1>3, EmptySeq
  <2> DEFINE Made(k) ==
        /\ f[k] \in Seq(S) /\ Len(f[k]) = b[k + 1]
        /\ \A i \in 1..k : \A c \in 1..Len(s[i]) :
             b[i] + c \in 1..Len(f[k]) /\ f[k][b[i] + c] = s[i][c]
             P == {k \in 1..n : Made(k)}
  <2>3. \A k \in 1..n : b[k] \in Nat /\ b[k + 1] \in Nat /\ b[k + 1] = b[k] + Len(s[k])
    <3>1. \A k \in 1..n : k \in 1..(n + 1) /\ k + 1 \in 1..(n + 1)
      BY <1>1
    <3>2. \A k \in 1..(n + 1) : b[k] \in Nat
      BY DEF Begins
    <3>3. \A k \in 1..n : b[k + 1] = b[k] + Len(s[k])
      BY DEF Begins
    <3> HIDE DEF n
    <3> QED BY <3>1, <3>2, <3>3
  <2> HIDE DEF n
  <2>4. 1 \in P
    <3>1. 1 \in 1..n /\ b[1] = 0 /\ f[1] = s[1]
      BY <1>1, <2>1, <2>2 DEF Begins
    <3>2. b[2] = Len(s[1]) /\ 1 + 1 = 2
      BY <1>1, <2>3, <3>1
    <3>3. Made(1)
      <4>1. ASSUME NEW i \in 1..1, NEW c \in 1..Len(s[i])
            PROVE  b[i] + c \in 1..Len(f[1]) /\ f[1][b[i] + c] = s[i][c]
        <5>1. i = 1 /\ b[i] + c = c
          BY <3>1, <1>1
        <5> QED BY <5>1, <3>1
      <4>2. f[1] \in Seq(S) /\ Len(f[1]) = b[2] /\ b[1 + 1] = b[2]
        BY <1>1, <3>1, <3>2
      <4> QED BY <4>1, <4>2
    <3> HIDE DEF Made
    <3> QED BY <3>1, <3>3
  <2>5. ASSUME NEW k \in 1..(n - 1), k \in P PROVE k + 1 \in P
    <3>1. k \in 1..n /\ k + 1 \in 1..n /\ k + 1 # 1 /\ (k + 1) - 1 = k /\ Made(k)
      BY <1>1, <2>5
    <3>2. f[k + 1] = f[k] \o s[k + 1]
      BY <2>1, <3>1
    <3>3. f[k] \in Seq(S) /\ s[k + 1] \in Seq(S)
      BY <1>1, <3>1
    <3>4. /\ f[k + 1] \in Seq(S) /\ Len(f[k + 1]) = Len(f[k]) + Len(s[k + 1])
          /\ \A j \in 1..(Len(f[k]) + Len(s[k + 1])) :
               f[k + 1][j] = IF j <= Len(f[k]) THEN f[k][j] ELSE s[k + 1][j - Len(f[k])]
      <4> DEFINE x == f[k]
                 y == s[k + 1]
                 z == f[k + 1]
      <4>1. x \in Seq(S) /\ y \in Seq(S) /\ z = x \o y
        BY <3>2, <3>3
      <4> HIDE DEF x, y, z
      <4>2. /\ z \in Seq(S) /\ Len(z) = Len(x) + Len(y)
            /\ \A j \in 1..(Len(x) + Len(y)) :
                 z[j] = IF j <= Len(x) THEN x[j] ELSE y[j - Len(x)]
        BY <4>1, ConcatProperties
      <4> QED BY <4>2 DEF x, y, z
    <3>5. Len(f[k]) = b[k + 1] /\ b[k + 1] \in Nat /\ Len(s[k + 1]) \in Nat
      BY <1>1, <2>3, <3>1
    <3>6. Len(f[k + 1]) = b[(k + 1) + 1]
      BY <2>3, <3>1, <3>4, <3>5
    <3>7. ASSUME NEW i \in 1..(k + 1), NEW c \in 1..Len(s[i])
          PROVE  b[i] + c \in 1..Len(f[k + 1]) /\ f[k + 1][b[i] + c] = s[i][c]
      <4>1. CASE i = k + 1
        <5>1. b[i] + c \in 1..(Len(f[k]) + Len(s[k + 1])) /\ ~(b[i] + c <= Len(f[k]))
              /\ (b[i] + c) - Len(f[k]) = c
          BY <3>5, <4>1
        <5> QED BY <3>4, <4>1, <5>1
      <4>2. CASE i # k + 1
        <5>1. i \in 1..k
          BY <4>2
        <5>2. b[i] + c \in 1..Len(f[k]) /\ f[k][b[i] + c] = s[i][c]
          BY <3>1, <5>1
        <5>3. b[i] + c \in 1..(Len(f[k]) + Len(s[k + 1])) /\ b[i] + c <= Len(f[k])
          BY <3>5, <5>2
        <5> QED BY <3>4, <5>2, <5>3
      <4> QED BY <4>1, <4>2
    <3>8. Made(k + 1)
      <4>1. f[k + 1] \in Seq(S)
        BY <3>4
      <4> QED BY <3>6, <3>7, <4>1
    <3> HIDE DEF Made
    <3> QED BY <3>1, <3>8
  <2>6. 1..n \subseteq P
    <3>1. n \in Nat /\ 1 \in Nat
      BY <1>1
    <3> HIDE DEF P
    <3> QED BY <2>4, <2>5, <3>1, Induction
  <2>7. n \in 1..n
    BY <1>1, <2>2
  <2>8. Made(n)
    <3> HIDE DEF Made
    <3> QED BY <2>6, <2>7
  <2> QED BY <2>1, <2>8 DEF n
<1> QED BY <1>2, <1>3
=============================================================================
