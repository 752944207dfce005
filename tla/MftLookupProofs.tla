-------------------------- MODULE MftLookupProofs ---------------------------
(***************************************************************************)
(* For every base, every layout and all widths it may be written with:     *)
(* read_dataruns() decodes what NTFS encoded, and stays in the list.  For  *)
(* every geometry of a volume, every number and every interleaving of      *)
(* NTFS's writes: what record_from_number() answers through the runs that  *)
(* were decoded from the bytes of $MFT.                                    *)
(***************************************************************************)
EXTENDS MftLookup, DataLemmas


-----------------------------------------------------------------------------
(* One more digit of a number. *)
LEMMA DigitStep ==
  ASSUME NEW base \in Nat, base # 0, NEW p \in Nat, p # 0, NEW v \in Nat
  PROVE  v % (base * p) = (v % p) + ((v \div p) % base) * p
<1> DEFINE q == v \div p
           r == v % p
           d == q % base
           u == q \div base
           m == base * p
           y == r + d * p
<1>1. q \in Nat /\ r \in 0..(p - 1) /\ v = p * q + r
  <2>1. v \in Int
    OBVIOUS
  <2>2. /\ v \div p \in Int /\ v % p \in 0..(p - 1)
        /\ v = (p * (v \div p)) + (v % p)
        /\ v \in Nat => v \div p \in Nat
    BY <2>1, QuotientAndRest
  <2> QED BY <2>2
<1>2. u \in Nat /\ d \in 0..(base - 1) /\ q = base * u + d
  <2>1. q \in Int
    BY <1>1
  <2> HIDE DEF q
  <2>2. /\ q \div base \in Int /\ q % base \in 0..(base - 1)
        /\ q = (base * (q \div base)) + (q % base)
        /\ q \in Nat => q \div base \in Nat
    BY <2>1, QuotientAndRest
  <2> QED BY <1>1, <2>2
<1> HIDE DEF q, r, d, u
<1>3. m \in Nat /\ m # 0
  OBVIOUS
<1>4. y \in 0..(m - 1)
  <2>1. d * p <= (base - 1) * p
    BY <1>2
  <2>2. d * p \in Nat /\ (base - 1) * p = m - p /\ m \in Nat
    BY <1>2
  <2>3. r \in Nat /\ r <= p - 1
    BY <1>1
  <2> HIDE DEF m
  <2> QED BY <2>1, <2>2, <2>3
<1>5. v = m * u + y
  <2>1. p * q = p * (base * u) + p * d
    BY <1>1, <1>2
  <2>2. p * (base * u) = m * u /\ p * d = d * p /\ m * u \in Int /\ d * p \in Int
    BY <1>2
  <2> DEFINE x == d * p
             z == m * u
  <2>3. p * q = z + x /\ x \in Int /\ z \in Int /\ y = r + x
    BY <2>1, <2>2
  <2>4. v = z + x + r
    BY <1>1, <2>3
  <2>5. v = z + y
    <3> HIDE DEF x, y, z
    <3> QED BY <1>1, <2>3, <2>4
  <2> QED BY <2>5
<1>6. v % m = y
  <2> HIDE DEF m, y
  <2> QED BY <1>2, <1>3, <1>4, <1>5, RestIsUnique
<1> QED BY <1>6 DEF q, r, d
LEMMA PowerFacts ==
  /\ Power(0) = 1
  /\ \A n \in 0..MaxWidth : Power(n) \in Nat /\ Power(n) # 0
  /\ \A n \in 0..(MaxWidth - 1) : Power(n + 1) = Base * Power(n)
<1> DEFINE N == MaxWidth + 1
           step == [j \in 1..N |-> [x \in Nat |-> Base * x]]
           V(f) == f = [j \in 1..N |-> IF j = 1 THEN 1 ELSE Base * f[j - 1]]
           power == CHOOSE f : V(f)
<1>1. MaxWidth \in Nat /\ N \in Nat /\ 1 \in 1..N /\ Base \in Nat /\ Base # 0
  BY RunsAssumption
<1>2. IsSteps(step, N, Nat)
  <2>1. \A x \in Nat : Base * x \in Nat
    BY <1>1
  <2> QED BY <2>1 DEF IsSteps
<1>3. PICK f : IsMadeBy(f, N, Nat, 1, step)
  <2>1. 1 \in Nat
    OBVIOUS
  <2> HIDE DEF step, N
  <2> QED BY <1>1, <1>2, <2>1, RecursiveFunction
<1>4. f \in [1..N -> Nat]
  BY <1>3 DEF IsMadeBy
<1>5. \A j \in 1..N : f[j] = IF j = 1 THEN 1 ELSE Base * f[j - 1]
  <2> SUFFICES ASSUME NEW j \in 1..N
               PROVE  f[j] = IF j = 1 THEN 1 ELSE Base * f[j - 1]
    OBVIOUS
  <2>1. f[j] = IF j = 1 THEN 1 ELSE step[j][f[j - 1]]
    <3> HIDE DEF step
    <3> QED BY <1>3 DEF IsMadeBy
  <2>2. j # 1 => f[j - 1] \in Nat
    <3>1. j # 1 => j - 1 \in 1..N
      BY <1>1
    <3> QED BY <1>4, <3>1
  <2> QED BY <2>1, <2>2
<1>6. V(f)
  <2>1. f = [j \in 1..N |-> f[j]]
    BY <1>4
  <2> HIDE DEF N
  <2>2. [j \in 1..N |-> f[j]] = [j \in 1..N |-> IF j = 1 THEN 1 ELSE Base * f[j - 1]]
    BY <1>5
  <2> QED BY <2>1, <2>2
<1>7. V(power)
  <2> HIDE DEF V
  <2> QED BY <1>6
<1>8. \A n : Power(n) = power[n + 1]
  BY DEF Power
<1> HIDE DEF power
<1>9. \A j \in 1..N : power[j] = IF j = 1 THEN 1 ELSE Base * power[j - 1]
  <2> HIDE DEF N
  <2>1. power = [j \in 1..N |-> IF j = 1 THEN 1 ELSE Base * power[j - 1]]
    BY <1>7
  <2> QED BY <2>1
<1>10. Power(0) = 1
  <2>1. Power(0) = power[1]
    BY <1>8
  <2> HIDE DEF N
  <2> QED BY <1>1, <1>9, <2>1
<1>11. ASSUME NEW n \in 0..(MaxWidth - 1) PROVE Power(n + 1) = Base * Power(n)
  <2>1. (n + 1) + 1 \in 1..N /\ (n + 1) + 1 # 1 /\ ((n + 1) + 1) - 1 = n + 1
    BY <1>1
  <2>2. power[(n + 1) + 1] = Base * power[n + 1]
    <3> HIDE DEF N
    <3> QED BY <1>9, <2>1
  <2> QED BY <1>8, <2>2
<1>12. \A n \in 0..MaxWidth : Power(n) \in Nat /\ Power(n) # 0
  <2> DEFINE P == {n \in 0..MaxWidth : Power(n) \in Nat /\ Power(n) # 0}
  <2>1. 0 \in P
    BY <1>1, <1>10
  <2>2. ASSUME NEW n \in 0..(MaxWidth - 1), n \in P PROVE n + 1 \in P
    <3>1. Base * Power(n) \in Nat /\ Base * Power(n) # 0
      <4>1. Power(n) \in Nat /\ Power(n) # 0
        BY <2>2
      <4>2. Base >= 1 /\ Power(n) >= 1
        BY <1>1, <4>1
      <4>3. Base * Power(n) >= Base
        BY <1>1, <4>1, <4>2
      <4> QED BY <1>1, <4>1, <4>2, <4>3
    <3>2. n + 1 \in 0..MaxWidth
      BY <1>1
    <3> QED BY <1>11, <3>1, <3>2
  <2>3. 0..MaxWidth \subseteq P
    <3>1. 0 \in Nat
      OBVIOUS
    <3> HIDE DEF P
    <3> QED BY <1>1, <2>1, <2>2, <3>1, Induction
  <2> QED BY <2>3
<1> QED BY <1>10, <1>11, <1>12

(* A distance written in w digits is read back with its sign. *)
LEMMA SignIsRead ==
  ASSUME NEW w \in 1..MaxWidth, NEW D \in Int, -(Power(w)) <= 2 * D, 2 * D < Power(w)
  PROVE  Signed(D % Power(w), w) = D
<1> DEFINE p == Power(w)
<1>1. w - 1 \in 0..(MaxWidth - 1) /\ w - 1 \in 0..MaxWidth /\ w \in 0..MaxWidth
      /\ (w - 1) + 1 = w
  BY RunsAssumption
<1>2. p \in Nat /\ p # 0 /\ p = Base * Power(w - 1) /\ Power(w - 1) \in Nat
  BY <1>1, PowerFacts
<1>3. PICK h \in Int : p = 2 * h
  <2> DEFINE b == Base \div 2
  <2>1. Base \in Nat /\ Base % 2 = 0
    BY RunsAssumption
  <2>2. Base = 2 * b /\ b \in Int
    BY <2>1
  <2> HIDE DEF b
  <2>3. Base * Power(w - 1) = 2 * (b * Power(w - 1)) /\ b * Power(w - 1) \in Int
    BY <1>2, <2>2
  <2> QED BY <1>2, <2>3
<1>4. p \div 2 = h
  <2> HIDE DEF p
  <2> QED BY <1>2, <1>3
<1>5. Signed(D % p, w) = IF D % p >= h THEN (D % p) - p ELSE D % p
  <2>1. Signed(D % p, w) = IF D % p >= p \div 2 THEN (D % p) - p ELSE D % p
    BY DEF Signed
  <2> HIDE DEF p
  <2> QED BY <1>4, <2>1
<1>6. -p <= 2 * D /\ 2 * D < p
  OBVIOUS
<1> HIDE DEF p
<1>7. CASE D >= 0
  <2>1. D \in 0..(p - 1) /\ D < h /\ D = p * 0 + D /\ 0 \in Int
    BY <1>2, <1>3, <1>6, <1>7
  <2>2. D % p = D
    BY <1>2, <2>1, RestIsUnique
  <2> QED BY <1>3, <1>5, <2>1, <2>2 DEF p
<1>8. CASE D < 0
  <2> DEFINE y == D + p
  <2>1. y \in 0..(p - 1) /\ y >= h /\ D = p * (-1) + y /\ -1 \in Int
    BY <1>2, <1>3, <1>6, <1>8
  <2>2. D % p = y
    <3> HIDE DEF y
    <3> QED BY <1>2, <2>1, RestIsUnique
  <2>3. D % p >= h /\ (D % p) - p = D
    BY <1>2, <2>1, <2>2
  <2> QED BY <1>5, <2>3 DEF p
<1> QED BY <1>7, <1>8
-----------------------------------------------------------------------------
(* Where the pairs are in the list, and what their bytes are.              *)

Pairs(lay, w) == [k \in DOMAIN lay |-> Pair(lay, w, k)]
Starts(lay, w) == CHOOSE b : Begins(b, Pairs(lay, w))
Unsigned(lay, w, k) == Distance(lay, k) % Power(w[k].offset)

LEMMA LayoutFacts ==
  ASSUME NEW lay \in Layout
  PROVE  /\ Len(lay) \in Nat /\ DOMAIN lay = 1..Len(lay)
         /\ \A k \in 1..Len(lay) : /\ lay[k].length \in Nat /\ lay[k].length # 0
                                   /\ lay[k].lcn \in Nat \cup {Hole} /\ lay[k].lcn \in Int
<1>1. Len(lay) \in Nat /\ DOMAIN lay = 1..Len(lay)
  BY LenProperties DEF Layout
<1>2. \A k \in 1..Len(lay) : lay[k] \in [length : Nat \ {0}, lcn : Nat \cup {Hole}]
  BY ElementOfSeq DEF Layout
<1> QED BY <1>1, <1>2 DEF Hole

LEMMA BeforeFacts ==
  ASSUME NEW lay \in Layout
  PROVE  /\ Before(lay, 1) = 0
         /\ \A k \in 1..(Len(lay) + 1) : Before(lay, k) \in Nat
         /\ \A k \in 1..Len(lay) :
              Before(lay, k + 1) = IF lay[k].lcn = Hole THEN Before(lay, k) ELSE lay[k].lcn
<1> DEFINE n == Len(lay)
           placed(k) == {j \in 1..(k - 1) : lay[j].lcn # Hole}
<1>1. n \in Nat
  BY LayoutFacts
<1>2. \A k : Before(lay, k) = IF placed(k) = {} THEN 0 ELSE lay[Max(placed(k))].lcn
  BY DEF Before
<1>3. ASSUME NEW k \in 1..(n + 1), placed(k) # {}
      PROVE  Max(placed(k)) \in placed(k) /\ \A j \in placed(k) : j <= Max(placed(k))
  <2>1. k \in Nat /\ placed(k) \in SUBSET (0..k)
    BY <1>1
  <2> HIDE DEF placed
  <2> QED BY <1>3, <2>1, MaxIsGreatest
<1>4. Before(lay, 1) = 0
  <2>1. placed(1) = {}
    OBVIOUS
  <2> HIDE DEF placed
  <2> QED BY <1>2, <2>1
<1>5. ASSUME NEW k \in 1..(n + 1) PROVE Before(lay, k) \in Nat
  <2>1. CASE placed(k) = {}
    <3> HIDE DEF placed
    <3> QED BY <1>2, <2>1
  <2>2. CASE placed(k) # {}
    <3> DEFINE m == Max(placed(k))
    <3>1. m \in placed(k)
      BY <1>3, <2>2
    <3>2. Before(lay, k) = lay[m].lcn
      BY <1>2, <2>2
    <3> HIDE DEF m
    <3>3. m \in 1..n /\ lay[m].lcn # Hole
      BY <1>1, <3>1
    <3> QED BY <3>2, <3>3, LayoutFacts
  <2> QED BY <2>1, <2>2
<1>6. ASSUME NEW k \in 1..n
      PROVE  Before(lay, k + 1) = IF lay[k].lcn = Hole THEN Before(lay, k) ELSE lay[k].lcn
  <2>1. (k + 1) - 1 = k /\ k + 1 \in 1..(n + 1) /\ k \in Int /\ 1..k = 1..(k - 1) \cup {k}
    BY <1>1
  <2>2. placed(k + 1) = placed(k) \cup (IF lay[k].lcn = Hole THEN {} ELSE {k})
    BY <2>1
  <2>3. \A j \in placed(k + 1) : j <= k /\ j \in Int
    BY <2>1
  <2>4. CASE lay[k].lcn = Hole
    <3>1. placed(k + 1) = placed(k)
      BY <2>2, <2>4
    <3> HIDE DEF placed
    <3> QED BY <1>2, <2>4, <3>1
  <2>5. CASE lay[k].lcn # Hole
    <3>1. k \in placed(k + 1)
      BY <2>2, <2>5
    <3>2. placed(k + 1) # {}
      BY <3>1
    <3> DEFINE m == Max(placed(k + 1))
    <3>3. m \in placed(k + 1) /\ k <= m
      <4> HIDE DEF placed
      <4> QED BY <1>3, <2>1, <3>1, <3>2
    <3>4. m = k
      <4>1. m <= k /\ m \in Int
        <5> HIDE DEF m, placed
        <5> QED BY <2>3, <3>3
      <4> HIDE DEF m
      <4> QED BY <2>1, <3>3, <4>1
    <3>5. Before(lay, k + 1) = lay[m].lcn
      <4> HIDE DEF placed
      <4> QED BY <1>2, <3>2
    <3> HIDE DEF m
    <3> QED BY <2>5, <3>4, <3>5
  <2> QED BY <2>4, <2>5
<1> QED BY <1>4, <1>5, <1>6

LEMMA DistanceIsInt ==
  ASSUME NEW lay \in Layout, NEW k \in 1..Len(lay)
  PROVE  Distance(lay, k) \in Int
<1>1. k \in 1..(Len(lay) + 1)
  BY LayoutFacts
<1> QED BY <1>1, LayoutFacts, BeforeFacts DEF Distance

LEMMA WidthFacts ==
  ASSUME NEW lay \in Layout, NEW w \in Widths(lay), NEW k \in 1..Len(lay)
  PROVE  /\ w[k].length \in 1..MaxWidth /\ w[k].offset \in 0..MaxWidth
         /\ lay[k].length < Power(w[k].length)
         /\ lay[k].lcn = Hole => w[k].offset = 0
         /\ lay[k].lcn # Hole =>
              /\ w[k].offset \in 1..MaxWidth
              /\ -(Power(w[k].offset)) <= 2 * Distance(lay, k)
              /\ 2 * Distance(lay, k) < Power(w[k].offset)
<1>1. k \in DOMAIN lay
  BY LayoutFacts
<1>2. w[k] \in [length : 1..MaxWidth, offset : 0..MaxWidth]
  BY <1>1 DEF Widths
<1>3. LengthFits(lay[k], w[k].length) /\ OffsetFits(lay, k, w[k].offset)
  BY <1>1 DEF Widths
<1>4. w[k].length \in 1..MaxWidth /\ w[k].offset \in 0..MaxWidth
  BY <1>2
<1>5. lay[k].length < Power(w[k].length)
  BY <1>3 DEF LengthFits
<1>6. lay[k].lcn = Hole => w[k].offset = 0
  BY <1>3 DEF OffsetFits
<1>7. lay[k].lcn # Hole =>
              /\ w[k].offset > 0
              /\ -(Power(w[k].offset)) <= 2 * Distance(lay, k)
              /\ 2 * Distance(lay, k) < Power(w[k].offset)
  BY <1>3 DEF OffsetFits
<1>8. w[k].offset > 0 => w[k].offset \in 1..MaxWidth
  BY <1>4, RunsAssumption
<1> QED BY <1>4, <1>5, <1>6, <1>7, <1>8
LEMMA DigitsFacts ==
  ASSUME NEW v \in Int, NEW n \in 0..MaxWidth
  PROVE  /\ Digits(v, n) \in Seq(Nat) /\ Len(Digits(v, n)) = n
         /\ \A c \in 1..n : Digits(v, n)[c] = (v \div Power(c - 1)) % Base
<1> DEFINE d == Digits(v, n)
<1>1. d = [c \in 1..n |-> (v \div Power(c - 1)) % Base] /\ n \in Nat
  BY RunsAssumption DEF Digits
<1>2. \A c \in 1..n : (v \div Power(c - 1)) % Base \in Nat
  <2> SUFFICES ASSUME NEW c \in 1..n PROVE (v \div Power(c - 1)) % Base \in Nat
    OBVIOUS
  <2>1. c - 1 \in 0..MaxWidth
    BY RunsAssumption
  <2> DEFINE p == Power(c - 1)
  <2>2. p \in Nat /\ p # 0
    BY <2>1, PowerFacts
  <2> HIDE DEF p
  <2>3. v \div p \in Int
    BY <2>2
  <2> QED BY <2>3, RunsAssumption DEF p
<1>3. d \in [1..n -> Nat]
  <2> HIDE DEF d
  <2> QED BY <1>1, <1>2
<1>4. d \in Seq(Nat)
  <2> HIDE DEF d
  <2>1. d = [c \in 1..n |-> d[c]] /\ \A c \in 1..n : d[c] \in Nat
    BY <1>3
  <2> QED BY <1>1, <1>3
<1>5. Len(d) \in Nat /\ DOMAIN d = 1..Len(d) /\ DOMAIN d = 1..n
  <2> HIDE DEF d
  <2> QED BY <1>3, <1>4, LenProperties
<1>6. Len(d) = n
  <2> HIDE DEF d
  <2> QED BY <1>1, <1>5
<1>7. \A c \in 1..n : d[c] = (v \div Power(c - 1)) % Base
  <2> HIDE DEF d
  <2> QED BY <1>1
<1> QED BY <1>4, <1>6, <1>7

LEMMA PairFacts ==
  ASSUME NEW lay \in Layout, NEW w \in Widths(lay), NEW k \in 1..Len(lay)
  PROVE  /\ Pair(lay, w, k) \in Seq(Nat)
         /\ Len(Pair(lay, w, k)) = 1 + w[k].length + w[k].offset
         /\ Pair(lay, w, k)[1] = Header(w[k].length, w[k].offset)
         /\ \A c \in 1..w[k].length :
              Pair(lay, w, k)[1 + c] = (lay[k].length \div Power(c - 1)) % Base
         /\ \A c \in 1..w[k].offset :
              Pair(lay, w, k)[1 + w[k].length + c] = (Unsigned(lay, w, k) \div Power(c - 1)) % Base
         /\ Unsigned(lay, w, k) \in 0..(Power(w[k].offset) - 1)
<1> DEFINE l == w[k].length
           o == w[k].offset
           v == lay[k].length
           u == Unsigned(lay, w, k)
           h == <<Header(l, o)>>
           x == Digits(v, l)
           y == Digits(u, o)
           p == Pair(lay, w, k)
<1>1. l \in 0..MaxWidth /\ o \in 0..MaxWidth /\ l \in Nat /\ o \in Nat
  BY WidthFacts, RunsAssumption
<1>2. v \in Int
  BY LayoutFacts
<1>3. u \in 0..(Power(o) - 1) /\ u \in Int
  <2> DEFINE q == Power(o)
             D == Distance(lay, k)
  <2>1. q \in Nat /\ q # 0
    BY <1>1, PowerFacts
  <2>2. D \in Int
    BY DistanceIsInt
  <2>3. u = D % q
    BY DEF Unsigned
  <2> HIDE DEF q, D, u
  <2>4. u \in 0..(q - 1)
    BY <2>1, <2>2, <2>3
  <2>5. u \in 0..(Power(o) - 1)
    BY <2>4 DEF q
  <2> QED BY <2>1, <2>4, <2>5
<1>4. h \in Seq(Nat) /\ Len(h) = 1 /\ h[1] = Header(l, o)
  <2>1. Header(l, o) \in Nat
    <3> HIDE DEF l, o
    <3> QED BY <1>1 DEF Header
  <2> QED BY <2>1
<1>5. /\ x \in Seq(Nat) /\ Len(x) = l
      /\ \A c \in 1..l : x[c] = (v \div Power(c - 1)) % Base
  <2> HIDE DEF v, l
  <2> QED BY <1>1, <1>2, DigitsFacts
<1>6. /\ y \in Seq(Nat) /\ Len(y) = o
      /\ \A c \in 1..o : y[c] = (u \div Power(c - 1)) % Base
  <2> HIDE DEF u, o
  <2> QED BY <1>1, <1>3, DigitsFacts
<1>7. p = (h \o x) \o y
  BY DEF Pair, Unsigned
<1> HIDE DEF h, x, y, u, v, l, o, p
<1> DEFINE z == h \o x
<1>8. /\ z \in Seq(Nat) /\ Len(z) = 1 + l
      /\ \A c \in 1..(1 + l) : z[c] = IF c <= 1 THEN h[c] ELSE x[c - 1]
  <2>1. /\ h \o x \in Seq(Nat) /\ Len(h \o x) = Len(h) + Len(x)
        /\ \A c \in 1..(Len(h) + Len(x)) :
             (h \o x)[c] = IF c <= Len(h) THEN h[c] ELSE x[c - Len(h)]
    <3>1. h \in Seq(Nat) /\ x \in Seq(Nat)
      BY <1>4, <1>5
    <3> QED BY <3>1, ConcatProperties
  <2>2. Len(h) = 1 /\ Len(x) = l
    BY <1>4, <1>5
  <2>3. z = h \o x
    OBVIOUS
  <2> HIDE DEF z
  <2> QED BY <2>1, <2>2, <2>3
<1> HIDE DEF z
<1>9. /\ p \in Seq(Nat) /\ Len(p) = (1 + l) + o
      /\ \A c \in 1..((1 + l) + o) : p[c] = IF c <= 1 + l THEN z[c] ELSE y[c - (1 + l)]
  <2>1. p = z \o y
    BY <1>7 DEF z
  <2>2. z \in Seq(Nat) /\ y \in Seq(Nat)
    BY <1>6, <1>8
  <2>3. /\ z \o y \in Seq(Nat) /\ Len(z \o y) = Len(z) + Len(y)
        /\ \A c \in 1..(Len(z) + Len(y)) :
             (z \o y)[c] = IF c <= Len(z) THEN z[c] ELSE y[c - Len(z)]
    BY <2>2, ConcatProperties
  <2>4. Len(z) = 1 + l /\ Len(y) = o
    BY <1>6, <1>8
  <2> QED BY <2>1, <2>3, <2>4
<1>10. p[1] = Header(l, o)
  <2>1. 1 \in 1..((1 + l) + o) /\ 1 <= 1 + l /\ 1 \in 1..(1 + l)
    BY <1>1
  <2>2. p[1] = z[1] /\ z[1] = h[1]
    BY <1>8, <1>9, <2>1
  <2> QED BY <2>2, <1>4
<1>11. ASSUME NEW c \in 1..l PROVE p[1 + c] = (v \div Power(c - 1)) % Base
  <2>1. /\ 1 + c \in 1..((1 + l) + o) /\ 1 + c <= 1 + l /\ 1 + c \in 1..(1 + l)
        /\ ~ (1 + c <= 1) /\ (1 + c) - 1 = c
    BY <1>1
  <2>2. p[1 + c] = z[1 + c] /\ z[1 + c] = x[c]
    BY <1>8, <1>9, <2>1
  <2> QED BY <2>2, <1>5
<1>12. ASSUME NEW c \in 1..o PROVE p[1 + l + c] = (u \div Power(c - 1)) % Base
  <2>1. /\ 1 + l + c \in 1..((1 + l) + o) /\ ~ (1 + l + c <= 1 + l)
        /\ (1 + l + c) - (1 + l) = c
    BY <1>1
  <2>2. p[1 + l + c] = y[c]
    BY <1>9, <2>1
  <2> QED BY <2>2, <1>6
<1>13. Len(p) = 1 + l + o
  BY <1>1, <1>9
<1> QED BY <1>3, <1>9, <1>10, <1>11, <1>12, <1>13 DEF p, l, o, u, v

(* What the list holds, and that the code can tell a pair from the end. *)
ListIs(bytes, lay, w, b) ==
  /\ b \in [1..(Len(lay) + 1) -> Nat] /\ b[1] = 0
  /\ Len(bytes) = b[Len(lay) + 1] + 1
  /\ bytes[b[Len(lay) + 1] + 1] = RunsEnd
  /\ \A k \in 1..Len(lay) :
       /\ b[k + 1] = b[k] + 1 + w[k].length + w[k].offset
       /\ b[k + 1] <= b[Len(lay) + 1]
       /\ bytes[b[k] + 1] = Header(w[k].length, w[k].offset)
       /\ \A c \in 1..w[k].length :
            bytes[b[k] + 1 + c] = (lay[k].length \div Power(c - 1)) % Base
       /\ \A c \in 1..w[k].offset :
            bytes[b[k] + 1 + w[k].length + c] = (Unsigned(lay, w, k) \div Power(c - 1)) % Base

LEMMA HeaderFacts ==
  ASSUME NEW l \in 1..MaxWidth, NEW o \in 0..MaxWidth
  PROVE  /\ Header(l, o) # RunsEnd /\ Header(l, o) \div 16 = o /\ Header(l, o) % 16 = l
<1>1. l \in 1..15 /\ o \in Nat
  BY RunsAssumption
<1> QED BY <1>1 DEF Header, RunsEnd

LEMMA EncodedFacts ==
  ASSUME NEW lay \in Layout, NEW w \in Widths(lay)
  PROVE  \E b : ListIs(Encoded(lay, w), lay, w, b)
<1> DEFINE n == Len(lay)
           s == Pairs(lay, w)
           f == FlattenSeq(s)
           e == Encoded(lay, w)
<1>1. n \in Nat /\ DOMAIN lay = 1..n
  BY LayoutFacts
<1>2. DOMAIN s = 1..n /\ \A k \in 1..n : s[k] = Pair(lay, w, k)
  BY <1>1 DEF Pairs
<1>3. \A k \in 1..n : s[k] \in Seq(Nat) /\ Len(s[k]) = 1 + w[k].length + w[k].offset
  <2> HIDE DEF s
  <2> QED BY <1>2, PairFacts
<1>4. s \in Seq(Seq(Nat)) /\ Len(s) = n
  <2>1. s = [k \in 1..n |-> s[k]]
    BY <1>1 DEF Pairs
  <2> HIDE DEF s, n
  <2>2. s \in [1..n -> Seq(Nat)]
    BY <1>3, <2>1
  <2>3. s \in Seq(Seq(Nat))
    BY <1>1, <2>2
  <2>4. Len(s) \in Nat /\ DOMAIN s = 1..Len(s)
    BY <2>3, LenProperties
  <2> QED BY <1>1, <1>2, <2>3, <2>4
<1>5. \A k \in 1..Len(s) : Len(s[k]) \in Nat
  <2> HIDE DEF s, n
  <2> QED BY <1>4, ElementOfSeq, LenProperties
<1>6. PICK b : Begins(b, s)
  <2> HIDE DEF s, n
  <2> QED BY <1>1, <1>4, <1>5, BeginsExist
<1>7. /\ f \in Seq(Nat) /\ Len(f) = b[n + 1]
      /\ \A k \in 1..n : \A c \in 1..Len(s[k]) :
           b[k] + c \in 1..Len(f) /\ f[b[k] + c] = s[k][c]
  <2>1. s \in Seq(Seq(Nat)) /\ Begins(b, s)
    BY <1>4, <1>6
  <2> HIDE DEF s, n
  <2>2. f \in Seq(Nat) /\ Len(f) = b[Len(s) + 1]
    BY <2>1, FlattenFacts
  <2>3. \A k \in 1..Len(s) : \A c \in 1..Len(s[k]) :
           b[k] + c \in 1..Len(f) /\ f[b[k] + c] = s[k][c]
    BY <2>1, FlattenFacts
  <2> QED BY <1>4, <2>2, <2>3
<1>8. e = f \o <<RunsEnd>>
  BY DEF Encoded, Pairs
<1>9. b \in [1..(n + 1) -> Nat] /\ b[1] = 0 /\ \A k \in 1..n : b[k + 1] = b[k] + Len(s[k])
  <2> HIDE DEF s, n
  <2> QED BY <1>4, <1>6 DEF Begins
<1>10. /\ Len(e) = b[n + 1] + 1 /\ e[b[n + 1] + 1] = RunsEnd
       /\ \A c \in 1..b[n + 1] : e[c] = f[c]
  <2> DEFINE t == <<RunsEnd>>
             m == b[n + 1]
  <2>1. t \in Seq(Nat) /\ Len(t) = 1 /\ t[1] = RunsEnd
    BY DEF RunsEnd
  <2>2. m \in Nat /\ Len(f) = m
    BY <1>1, <1>7, <1>9
  <2> HIDE DEF t, m, f, e
  <2>3. e = f \o t /\ f \in Seq(Nat)
    BY <1>7, <1>8 DEF t
  <2>4. /\ Len(e) = m + 1
        /\ \A c \in 1..(m + 1) : e[c] = IF c <= m THEN f[c] ELSE t[c - m]
    <3>1. /\ Len(f \o t) = Len(f) + Len(t)
          /\ \A c \in 1..(Len(f) + Len(t)) :
               (f \o t)[c] = IF c <= Len(f) THEN f[c] ELSE t[c - Len(f)]
      BY <2>1, <2>3, ConcatProperties
    <3> QED BY <2>1, <2>2, <2>3, <3>1
  <2>5. m + 1 \in 1..(m + 1) /\ ~ (m + 1 <= m) /\ (m + 1) - m = 1
    BY <2>2
  <2>6. \A c \in 1..m : c \in 1..(m + 1) /\ c <= m
    BY <2>2
  <2>7. e[m + 1] = RunsEnd
    BY <2>1, <2>4, <2>5
  <2>8. \A c \in 1..m : e[c] = f[c]
    BY <2>4, <2>6
  <2> QED BY <2>4, <2>7, <2>8 DEF m
<1> HIDE DEF e, f, s
<1>11. ASSUME NEW k \in 1..n
       PROVE  /\ b[k + 1] = b[k] + 1 + w[k].length + w[k].offset
              /\ b[k + 1] <= b[n + 1]
              /\ e[b[k] + 1] = Header(w[k].length, w[k].offset)
              /\ \A c \in 1..w[k].length :
                   e[b[k] + 1 + c] = (lay[k].length \div Power(c - 1)) % Base
              /\ \A c \in 1..w[k].offset :
                   e[b[k] + 1 + w[k].length + c]
                     = (Unsigned(lay, w, k) \div Power(c - 1)) % Base
  <2> DEFINE l == w[k].length
             o == w[k].offset
             u == Unsigned(lay, w, k)
             p == Pair(lay, w, k)
  <2>1. l \in Nat /\ o \in Nat
    BY WidthFacts, RunsAssumption
  <2>2. /\ Len(p) = 1 + l + o /\ p[1] = Header(l, o)
        /\ \A c \in 1..l : p[1 + c] = (lay[k].length \div Power(c - 1)) % Base
        /\ \A c \in 1..o : p[1 + l + c] = (u \div Power(c - 1)) % Base
    BY PairFacts
  <2> HIDE DEF l, o, u, p
  <2>3. s[k] = p
    BY <1>2 DEF p
  <2>4. b[k + 1] <= b[n + 1]
    <3>1. k + 1 \in 1..(n + 1) /\ n + 1 \in (k + 1)..(n + 1)
      BY <1>1
    <3> HIDE DEF n
    <3>2. Len(s) \in Nat /\ k + 1 \in 1..(Len(s) + 1) /\ Len(s) + 1 \in (k + 1)..(Len(s) + 1)
      BY <1>1, <1>4, <3>1
    <3>3. b[k + 1] <= b[Len(s) + 1]
      BY <1>5, <1>6, <3>2, BeginsMonotone
    <3> QED BY <1>4, <3>3
  <2>5. b[k] \in Nat /\ b[k + 1] = b[k] + (1 + l + o)
    <3>1. k \in 1..(n + 1)
      BY <1>1
    <3> QED BY <1>9, <2>2, <2>3, <3>1
  <2>6. \A c \in 1..(1 + l + o) : e[b[k] + c] = p[c]
    <3> SUFFICES ASSUME NEW c \in 1..(1 + l + o) PROVE e[b[k] + c] = p[c]
      OBVIOUS
    <3>1. b[k] + c \in 1..Len(f) /\ f[b[k] + c] = p[c]
      BY <1>7, <2>2, <2>3
    <3> QED BY <1>7, <1>10, <3>1
  <2>7. e[b[k] + 1] = Header(l, o)
    <3>1. 1 \in 1..(1 + l + o)
      BY <2>1
    <3> QED BY <2>2, <2>6, <3>1
  <2>8. \A c \in 1..l : e[b[k] + 1 + c] = (lay[k].length \div Power(c - 1)) % Base
    <3> SUFFICES ASSUME NEW c \in 1..l
                 PROVE  e[b[k] + 1 + c] = (lay[k].length \div Power(c - 1)) % Base
      OBVIOUS
    <3>1. 1 + c \in 1..(1 + l + o) /\ b[k] + (1 + c) = b[k] + 1 + c
      BY <2>1, <2>5
    <3>2. e[b[k] + (1 + c)] = p[1 + c]
      BY <2>6, <3>1
    <3> QED BY <2>2, <3>1, <3>2
  <2>9. \A c \in 1..o : e[b[k] + 1 + l + c] = (u \div Power(c - 1)) % Base
    <3> SUFFICES ASSUME NEW c \in 1..o
                 PROVE  e[b[k] + 1 + l + c] = (u \div Power(c - 1)) % Base
      OBVIOUS
    <3>1. 1 + l + c \in 1..(1 + l + o) /\ b[k] + (1 + l + c) = b[k] + 1 + l + c
      BY <2>1, <2>5
    <3>2. e[b[k] + (1 + l + c)] = p[1 + l + c]
      BY <2>6, <3>1
    <3> QED BY <2>2, <3>1, <3>2
  <2>10. b[k + 1] = b[k] + 1 + l + o
    BY <2>1, <2>5
  <2> QED BY <2>4, <2>7, <2>8, <2>9, <2>10 DEF l, o, u
<1> QED BY <1>9, <1>10, <1>11 DEF ListIs, e
-----------------------------------------------------------------------------
(***************************************************************************)
(* The induction: the list is that of the layout in some widths, what is   *)
(* decoded is right, and in the pair after it the pointer is where the     *)
(* state says, with the digits read so far in hand.                        *)
(***************************************************************************)

Decoded(k) == [offset |-> Before(layout, k + 1), length |-> layout[k].length]

AtHeader(b, k) == at = b[k] + 1 /\ offset = Before(layout, k)

InPair(w, k) ==
  /\ k \in 1..Len(layout)
  /\ length_len = w[k].length /\ offset_len = w[k].offset /\ i \in Nat

AtLength(w, b, k) ==
  /\ InPair(w, k)
  /\ at = b[k] + 2 + i /\ i <= length_len
  /\ length = layout[k].length % Power(i)
  /\ offsetDiff = 0 /\ offset = Before(layout, k)

AtOffset(w, b, k) ==
  /\ InPair(w, k)
  /\ at = b[k] + 2 + length_len + i /\ i <= offset_len /\ offset_len # 0
  /\ length = layout[k].length
  /\ offsetDiff = Unsigned(layout, w, k) % Power(i) /\ offset = Before(layout, k)

AtPush(b, k) ==
  /\ k \in 1..Len(layout)
  /\ at = b[k + 1] + 1
  /\ length = layout[k].length /\ offset = Before(layout, k + 1)

PlaceInv(w, b, k) ==
  /\ pc \in {"check", "header"} => AtHeader(b, k)
  /\ pc = "length" => AtLength(w, b, k)
  /\ pc = "offset" => AtOffset(w, b, k)
  /\ pc = "push" => AtPush(b, k)

ResultInv ==
  /\ result \in Seq([offset : Nat, length : Nat]) /\ Len(result) <= Len(layout)
  /\ \A k \in 1..Len(result) : result[k] = Decoded(k)

DecodeInv ==
  /\ layout \in Layouts
  /\ pc \in {"check", "header", "length", "offset", "push", "end"}
  /\ at <= Len(runList)
  /\ pc \notin {"check", "end"} => form = "nonresident"
  /\ outcome = "ok" => form = "nonresident" /\ Len(result) = Len(layout)
  /\ ResultInv
  /\ \E w \in Widths(layout) : \E b :
       ListIs(runList, layout, w, b) /\ PlaceInv(w, b, Len(result) + 1)

LEMMA InitDecode == Init => DecodeInv
<1> SUFFICES ASSUME Init PROVE DecodeInv
  OBVIOUS
<1>1. layout \in Layouts /\ layout \in Layout
  BY RunsAssumption DEF Init
<1>2. PICK w \in Widths(layout) : runList = Encoded(layout, w)
  BY DEF Init
<1>3. PICK b : ListIs(runList, layout, w, b)
  BY <1>1, <1>2, EncodedFacts
<1>4. Len(layout) \in Nat
  BY <1>1, LayoutFacts
<1>5. at = 1 /\ offset = 0 /\ result = <<>> /\ pc = "check" /\ outcome = "none"
  BY DEF Init
<1>6. Len(result) = 0 /\ result \in Seq([offset : Nat, length : Nat])
  BY <1>5, EmptySeq
<1>7. ResultInv
  BY <1>4, <1>6 DEF ResultInv
<1>8. b[1] = 0 /\ Len(runList) = b[Len(layout) + 1] + 1 /\ b[Len(layout) + 1] \in Nat
  BY <1>3, <1>4 DEF ListIs
<1>9. Before(layout, 1) = 0
  BY <1>1, BeforeFacts
<1>10. PlaceInv(w, b, Len(result) + 1)
  BY <1>5, <1>6, <1>8, <1>9 DEF PlaceInv, AtHeader
<1>11. at <= Len(runList)
  BY <1>5, <1>8
<1> QED BY <1>1, <1>3, <1>5, <1>7, <1>10, <1>11 DEF DecodeInv

(* Where a pair or the end mark may be. *)
Places == 1..(Len(layout) + 1)

(* What the invariant says, with the place of the pair as a constant. *)
LEMMA Unfold ==
  ASSUME DecodeInv
  PROVE  \E w \in Widths(layout), k \in Places : \E b :
           /\ ListIs(runList, layout, w, b) /\ PlaceInv(w, b, k)
           /\ k = Len(result) + 1
<1>1. PICK w \in Widths(layout) : \E b :
        ListIs(runList, layout, w, b) /\ PlaceInv(w, b, Len(result) + 1)
  BY DEF DecodeInv
<1>2. Len(result) + 1 \in 1..(Len(layout) + 1)
  <2>1. Len(result) \in Nat /\ Len(result) <= Len(layout)
    BY LenProperties DEF DecodeInv, ResultInv
  <2>2. Len(layout) \in Nat
    BY LayoutFacts, RunsAssumption DEF DecodeInv
  <2> QED BY <2>1, <2>2
<1> QED BY <1>1, <1>2 DEF Places

(* A step that stays in the pair keeps what is decoded. *)
LEMMA Fold ==
  ASSUME DecodeInv, UNCHANGED <<layout, form, runList, result>>,
         pc' \in {"check", "header", "length", "offset", "push", "end"},
         at' <= Len(runList),
         pc' \notin {"check", "end"} => form = "nonresident",
         outcome' = "ok" => form = "nonresident" /\ Len(result) = Len(layout),
         NEW w \in Widths(layout), NEW k \in Places, NEW b,
         ListIs(runList, layout, w, b), PlaceInv(w, b, k)', k = Len(result) + 1
  PROVE  DecodeInv'
<1>1. Widths(layout)' = Widths(layout)
  OBVIOUS
<1>2. ListIs(runList, layout, w, b)'
  OBVIOUS
<1>3. PlaceInv(w, b, Len(result) + 1)'
  <2>1. (Len(result) + 1)' = k
    OBVIOUS
  <2> QED BY <2>1 DEF PlaceInv, AtHeader, AtLength, AtOffset, AtPush, InPair
<1>4. ResultInv'
  BY DEF DecodeInv, ResultInv, Decoded
<1>5. \E x \in Widths(layout)' : \E y :
        ListIs(runList, layout, x, y)' /\ PlaceInv(x, y, Len(result) + 1)'
  BY <1>1, <1>2, <1>3
<1>6. /\ (layout \in Layouts)' /\ (at <= Len(runList))'
      /\ (pc \notin {"check", "end"} => form = "nonresident")'
      /\ (outcome = "ok" => form = "nonresident" /\ Len(result) = Len(layout))'
  BY DEF DecodeInv
<1> QED BY <1>4, <1>5, <1>6 DEF DecodeInv
(* The digits of a number below a power of the base. *)
LEMMA PowerZero == \A v \in Int : v % Power(0) = 0
<1>1. Power(0) = 1
  BY PowerFacts
<1>2. \A v \in Int : v % 1 = 0
  OBVIOUS
<1> QED BY <1>1, <1>2

LEMMA NextDigit ==
  ASSUME NEW v \in Nat, NEW c \in 0..(MaxWidth - 1)
  PROVE  (v % Power(c)) + ((v \div Power(c)) % Base) * Power(c) = v % Power(c + 1)
<1>1. c \in 0..MaxWidth /\ Base \in Nat /\ Base # 0
  BY RunsAssumption
<1>2. Power(c) \in Nat /\ Power(c) # 0 /\ Power(c + 1) = Base * Power(c)
  BY <1>1, PowerFacts
<1>3. v % (Base * Power(c)) = (v % Power(c)) + ((v \div Power(c)) % Base) * Power(c)
  BY <1>1, <1>2, DigitStep
<1> QED BY <1>2, <1>3

LEMMA AllDigits ==
  ASSUME NEW v \in Nat, NEW c \in 0..MaxWidth, v < Power(c)
  PROVE  v % Power(c) = v
<1> DEFINE p == Power(c)
<1>1. p \in Nat /\ p # 0
  BY PowerFacts
<1>2. v \in 0..(p - 1) /\ v = p * 0 + v /\ v \in Int /\ 0 \in Int
  BY <1>1
<1> HIDE DEF p
<1>3. v % p = v
  BY <1>1, <1>2, RestIsUnique
<1> QED BY <1>3 DEF p

(* What every step may use. *)
LEMMA Given ==
  ASSUME DecodeInv, NEW w \in Widths(layout), NEW k \in Places, NEW b,
         ListIs(runList, layout, w, b)
  PROVE  /\ layout \in Layout /\ Len(layout) \in Nat
         /\ b[k] \in Nat /\ Len(runList) \in Nat /\ b[k] + 1 <= Len(runList)
         /\ k \in 1..Len(layout) =>
              /\ w[k].length \in 1..MaxWidth /\ w[k].offset \in 0..MaxWidth
              /\ w[k].length \in Nat /\ w[k].offset \in Nat
              /\ b[k + 1] = b[k] + 1 + w[k].length + w[k].offset
              /\ b[k + 1] + 1 <= Len(runList)
              /\ layout[k].length \in Nat /\ layout[k].length < Power(w[k].length)
              /\ Unsigned(layout, w, k) \in Nat
              /\ Unsigned(layout, w, k) < Power(w[k].offset)
              /\ Before(layout, k) \in Nat
<1>1. layout \in Layout
  BY RunsAssumption DEF DecodeInv
<1>2. Len(layout) \in Nat
  BY <1>1, LayoutFacts
<1>3. /\ b \in [1..(Len(layout) + 1) -> Nat]
      /\ Len(runList) = b[Len(layout) + 1] + 1
      /\ \A j \in 1..Len(layout) :
           /\ b[j + 1] = b[j] + 1 + w[j].length + w[j].offset
           /\ b[j + 1] <= b[Len(layout) + 1]
  BY DEF ListIs
<1>4. b[k] \in Nat /\ b[Len(layout) + 1] \in Nat
  BY <1>2, <1>3 DEF Places
<1>5. k \in 1..Len(layout) =>
        /\ w[k].length \in 1..MaxWidth /\ w[k].offset \in 0..MaxWidth
        /\ w[k].length \in Nat /\ w[k].offset \in Nat
        /\ layout[k].length < Power(w[k].length)
  BY <1>1, WidthFacts, RunsAssumption
<1>6. k \in 1..Len(layout) => layout[k].length \in Nat /\ Before(layout, k) \in Nat
  BY <1>1, LayoutFacts, BeforeFacts
<1>7. k \in 1..Len(layout) =>
        /\ Unsigned(layout, w, k) \in Nat
        /\ Unsigned(layout, w, k) < Power(w[k].offset)
  <2> SUFFICES ASSUME k \in 1..Len(layout)
               PROVE  /\ Unsigned(layout, w, k) \in Nat
                      /\ Unsigned(layout, w, k) < Power(w[k].offset)
    OBVIOUS
  <2>1. Unsigned(layout, w, k) \in 0..(Power(w[k].offset) - 1)
    BY <1>1, PairFacts
  <2>2. Power(w[k].offset) \in Nat
    BY <1>5, PowerFacts
  <2> QED BY <2>1, <2>2
<1>8. k \in 1..Len(layout) =>
        /\ b[k + 1] = b[k] + 1 + w[k].length + w[k].offset
        /\ b[k + 1] + 1 <= Len(runList)
  <2> SUFFICES ASSUME k \in 1..Len(layout)
               PROVE  /\ b[k + 1] = b[k] + 1 + w[k].length + w[k].offset
                      /\ b[k + 1] + 1 <= Len(runList)
    OBVIOUS
  <2>1. k + 1 \in 1..(Len(layout) + 1)
    BY <1>2
  <2>2. b[k + 1] \in Nat
    BY <1>3, <2>1
  <2> QED BY <1>3, <1>4, <2>2
<1>9. b[k] + 1 <= Len(runList)
  <2>1. CASE k \in 1..Len(layout)
    BY <1>4, <1>5, <1>8, <2>1, <1>3
  <2>2. CASE k = Len(layout) + 1
    BY <1>3, <1>4, <2>2
  <2> QED BY <1>2, <2>1, <2>2 DEF Places
<1>10. Len(runList) \in Nat
  BY <1>3, <1>4
<1> QED BY <1>1, <1>2, <1>4, <1>5, <1>6, <1>7, <1>8, <1>9, <1>10

LEMMA CheckStep == DecodeInv /\ Check => DecodeInv'
<1> SUFFICES ASSUME DecodeInv, Check PROVE DecodeInv'
  OBVIOUS
<1>1. PICK w \in Widths(layout), k \in Places : \E b :
        /\ ListIs(runList, layout, w, b) /\ PlaceInv(w, b, k) /\ k = Len(result) + 1
  BY Unfold
<1>2. PICK b : ListIs(runList, layout, w, b) /\ PlaceInv(w, b, k) /\ k = Len(result) + 1
  BY <1>1
<1>3. /\ pc = "check" /\ UNCHANGED <<layout, form, runList, result, at, offset>>
      /\ \/ form = "nonresident" /\ pc' = "header" /\ UNCHANGED outcome
         \/ pc' = "end" /\ outcome' = "err"
  BY DEF Check, input, Goto, Return
<1>4. PlaceInv(w, b, k)'
  BY <1>2, <1>3 DEF PlaceInv, AtHeader
<1>5. /\ at' <= Len(runList) /\ (pc' \notin {"check", "end"} => form = "nonresident")
      /\ pc' \in {"check", "header", "length", "offset", "push", "end"}
      /\ outcome' = "ok" => form = "nonresident" /\ Len(result) = Len(layout)
  BY <1>3 DEF DecodeInv
<1>6. UNCHANGED <<layout, form, runList, result>>
  BY <1>3
<1> QED BY <1>2, <1>4, <1>5, <1>6, Fold

LEMMA ReadHeaderStep == DecodeInv /\ ReadHeader => DecodeInv'
<1> SUFFICES ASSUME DecodeInv, ReadHeader PROVE DecodeInv'
  OBVIOUS
<1>1. PICK w \in Widths(layout), k \in Places : \E b :
        /\ ListIs(runList, layout, w, b) /\ PlaceInv(w, b, k) /\ k = Len(result) + 1
  BY Unfold
<1>2. PICK b : ListIs(runList, layout, w, b) /\ PlaceInv(w, b, k) /\ k = Len(result) + 1
  BY <1>1
<1>3. /\ pc = "header" /\ pc' = "length" /\ runList[at] # RunsEnd
      /\ offset_len' = runList[at] \div 16 /\ length_len' = runList[at] % 16
      /\ at' = at + 1 /\ length' = 0 /\ offsetDiff' = 0 /\ i' = 0
      /\ UNCHANGED <<layout, form, runList, offset, result, outcome>>
  BY DEF ReadHeader, input, Goto
<1>4. at = b[k] + 1 /\ offset = Before(layout, k)
  BY <1>2, <1>3 DEF PlaceInv, AtHeader
<1>5. Len(layout) \in Nat /\ b[k] \in Nat
  BY <1>2, Given
<1>6. k \in 1..Len(layout)
  <2>1. k # Len(layout) + 1
    BY <1>2, <1>3, <1>4 DEF ListIs
  <2> QED BY <1>5, <2>1 DEF Places
<1>7. runList[at] = Header(w[k].length, w[k].offset)
  BY <1>2, <1>4, <1>6 DEF ListIs
<1>8. /\ w[k].length \in 1..MaxWidth /\ w[k].offset \in 0..MaxWidth
      /\ w[k].length \in Nat /\ w[k].offset \in Nat
      /\ b[k + 1] = b[k] + 1 + w[k].length + w[k].offset
      /\ b[k + 1] + 1 <= Len(runList) /\ layout[k].length \in Nat
      /\ Len(runList) \in Nat
  BY <1>2, <1>6, Given
<1>9. offset_len' = w[k].offset /\ length_len' = w[k].length
  BY <1>3, <1>7, <1>8, HeaderFacts
<1>10. length' = layout[k].length % Power(0)
  BY <1>3, <1>8, PowerZero
<1>11. AtLength(w, b, k)'
  <2>1. InPair(w, k)'
    BY <1>3, <1>6, <1>9 DEF InPair
  <2>2. at' = b[k] + 2 + i' /\ i' <= length_len'
    <3>1. at' = at + 1 /\ at = b[k] + 1 /\ i' = 0 /\ length_len' = w[k].length
      BY <1>3, <1>4, <1>9
    <3>2. b[k] \in Nat /\ w[k].length \in Nat
      BY <1>5, <1>8
    <3> QED BY <3>1, <3>2
  <2> QED BY <1>3, <1>4, <1>10, <2>1, <2>2 DEF AtLength
<1>12. PlaceInv(w, b, k)'
  BY <1>3, <1>11 DEF PlaceInv
<1>13. at' <= Len(runList)
  <2> DEFINE l == w[k].length
             o == w[k].offset
  <2>1. l \in Nat /\ o \in Nat /\ b[k + 1] = b[k] + 1 + l + o
        /\ b[k + 1] + 1 <= Len(runList) /\ Len(runList) \in Nat
    BY <1>8
  <2>2. at' = b[k] + 1 + 1
    BY <1>3, <1>4
  <2> HIDE DEF l, o
  <2> QED BY <1>5, <2>1, <2>2
<1>14. /\ (pc' \notin {"check", "end"} => form = "nonresident")
       /\ pc' \in {"check", "header", "length", "offset", "push", "end"}
       /\ outcome' = "ok" => form = "nonresident" /\ Len(result) = Len(layout)
  BY <1>3 DEF DecodeInv
<1>15. UNCHANGED <<layout, form, runList, result>>
  BY <1>3
<1> QED BY <1>2, <1>12, <1>13, <1>14, <1>15, Fold
LEMMA ReadLengthStep == DecodeInv /\ ReadLength => DecodeInv'
<1> SUFFICES ASSUME DecodeInv, ReadLength PROVE DecodeInv'
  OBVIOUS
<1>1. PICK w \in Widths(layout), k \in Places : \E b :
        /\ ListIs(runList, layout, w, b) /\ PlaceInv(w, b, k) /\ k = Len(result) + 1
  BY Unfold
<1>2. PICK b : ListIs(runList, layout, w, b) /\ PlaceInv(w, b, k) /\ k = Len(result) + 1
  BY <1>1
<1>3. /\ pc = "length" /\ pc' = "length" /\ i < length_len
      /\ length' = length + runList[at] * Power(i) /\ at' = at + 1 /\ i' = i + 1
      /\ UNCHANGED <<layout, form, runList, length_len, offset_len, offsetDiff>>
      /\ UNCHANGED <<offset, result, outcome>>
  BY DEF ReadLength, input
<1>4. AtLength(w, b, k)
  BY <1>2, <1>3 DEF PlaceInv
<1>5. /\ k \in 1..Len(layout) /\ length_len = w[k].length /\ i \in Nat
      /\ at = b[k] + 2 + i /\ length = layout[k].length % Power(i)
  BY <1>4 DEF AtLength, InPair
<1> DEFINE l == w[k].length
           o == w[k].offset
<1>16. i \in Nat /\ at = b[k] + 2 + i /\ i < l /\ at' = at + 1 /\ i' = i + 1 /\ length_len' = l
  BY <1>3, <1>5
<1>6. b[k] \in Nat /\ Len(runList) \in Nat
  BY <1>2, Given
<1>7. /\ l \in 1..MaxWidth /\ l \in Nat /\ o \in Nat
      /\ b[k + 1] = b[k] + 1 + l + o
      /\ b[k + 1] + 1 <= Len(runList) /\ layout[k].length \in Nat
  BY <1>2, <1>5, Given
<1>8. /\ i + 1 \in 1..l /\ i \in 0..(MaxWidth - 1) /\ (i + 1) - 1 = i
      /\ at = b[k] + 1 + (i + 1)
  <2>1. MaxWidth \in Nat
    BY RunsAssumption
  <2>2. i \in Nat /\ at = b[k] + 2 + i /\ i < l
    BY <1>16
  <2>3. l \in 1..MaxWidth /\ b[k] \in Nat
    BY <1>6, <1>7
  <2> HIDE DEF l
  <2> QED BY <2>1, <2>2, <2>3
<1>9. runList[at] = (layout[k].length \div Power(i)) % Base
  <2>1. \A c \in 1..w[k].length :
          runList[b[k] + 1 + c] = (layout[k].length \div Power(c - 1)) % Base
    BY <1>2, <1>5 DEF ListIs
  <2>2. runList[b[k] + 1 + (i + 1)] = (layout[k].length \div Power((i + 1) - 1)) % Base
    BY <1>8, <2>1
  <2> QED BY <1>8, <2>2
<1>10. length' = layout[k].length % Power(i + 1)
  BY <1>3, <1>5, <1>7, <1>8, <1>9, NextDigit
<1>11. AtLength(w, b, k)'
  <2>1. InPair(w, k)'
    BY <1>3, <1>4, <1>5 DEF InPair, AtLength
  <2>2. at' = b[k] + 2 + i' /\ i' <= length_len'
    <3>1. l \in Nat /\ b[k] \in Nat
      BY <1>6, <1>7
    <3> HIDE DEF l
    <3> QED BY <1>16, <3>1
  <2> QED BY <1>3, <1>4, <1>10, <2>1, <2>2 DEF AtLength
<1>12. PlaceInv(w, b, k)'
  BY <1>3, <1>11 DEF PlaceInv
<1>13. at' <= Len(runList)
  <2>1. l \in Nat /\ o \in Nat /\ b[k + 1] = b[k] + 1 + l + o
        /\ b[k + 1] + 1 <= Len(runList)
    BY <1>7
  <2>2. at' = b[k] + 3 + i /\ i + 1 <= l
    <3> HIDE DEF l
    <3> QED BY <1>6, <1>16, <2>1
  <2>3. i \in Nat
    BY <1>16
  <2> HIDE DEF l, o
  <2> QED BY <1>6, <2>1, <2>2, <2>3
<1>14. /\ (pc' \notin {"check", "end"} => form = "nonresident")
       /\ pc' \in {"check", "header", "length", "offset", "push", "end"}
       /\ outcome' = "ok" => form = "nonresident" /\ Len(result) = Len(layout)
  BY <1>3 DEF DecodeInv
<1>15. UNCHANGED <<layout, form, runList, result>>
  BY <1>3
<1> QED BY <1>2, <1>12, <1>13, <1>14, <1>15, Fold

LEMMA LengthDoneStep == DecodeInv /\ LengthDone => DecodeInv'
<1> SUFFICES ASSUME DecodeInv, LengthDone PROVE DecodeInv'
  OBVIOUS
<1>1. PICK w \in Widths(layout), k \in Places : \E b :
        /\ ListIs(runList, layout, w, b) /\ PlaceInv(w, b, k) /\ k = Len(result) + 1
  BY Unfold
<1>2. PICK b : ListIs(runList, layout, w, b) /\ PlaceInv(w, b, k) /\ k = Len(result) + 1
  BY <1>1
<1>3. /\ pc = "length" /\ i = length_len /\ i' = 0
      /\ pc' = (IF offset_len # 0 THEN "offset" ELSE "push")
      /\ UNCHANGED <<layout, form, runList, at, length_len, offset_len, length, offsetDiff>>
      /\ UNCHANGED <<offset, result, outcome>>
  BY DEF LengthDone, input, Goto
<1>4. AtLength(w, b, k)
  BY <1>2, <1>3 DEF PlaceInv
<1>5. /\ k \in 1..Len(layout) /\ length_len = w[k].length /\ offset_len = w[k].offset
      /\ at = b[k] + 2 + w[k].length /\ length = layout[k].length % Power(w[k].length)
      /\ offsetDiff = 0 /\ offset = Before(layout, k)
  BY <1>3, <1>4 DEF AtLength, InPair
<1>6. b[k] \in Nat /\ Len(runList) \in Nat /\ layout \in Layout
  BY <1>2, Given
<1>7. /\ w[k].length \in 1..MaxWidth /\ w[k].length \in Nat /\ w[k].offset \in Nat
      /\ b[k + 1] = b[k] + 1 + w[k].length + w[k].offset
      /\ layout[k].length \in Nat /\ layout[k].length < Power(w[k].length)
      /\ Unsigned(layout, w, k) \in Nat
  BY <1>2, <1>5, Given
<1>8. length = layout[k].length
  <2>1. w[k].length \in 0..MaxWidth
    BY <1>7
  <2> QED BY <1>5, <1>7, <2>1, AllDigits
<1>9. ASSUME offset_len # 0 PROVE PlaceInv(w, b, k)'
  <2>1. Unsigned(layout, w, k) % Power(0) = 0
    BY <1>7, PowerZero
  <2>2. InPair(w, k)'
    BY <1>3, <1>4, <1>5 DEF InPair, AtLength
  <2>3. at' = b[k] + 2 + length_len' + i' /\ i' <= offset_len'
    <3> DEFINE l == w[k].length
               o == w[k].offset
               x == b[k]
    <3>1. /\ x \in Nat /\ l \in Nat /\ o \in Nat /\ at' = x + 2 + l /\ i' = 0
          /\ length_len' = l /\ offset_len' = o
      BY <1>3, <1>5, <1>6, <1>7
    <3> HIDE DEF l, o, x
    <3>2. at' = x + 2 + length_len' + i' /\ i' <= offset_len'
      BY <3>1
    <3> QED BY <3>2 DEF x
  <2>4. AtOffset(w, b, k)'
    BY <1>3, <1>5, <1>8, <1>9, <2>1, <2>2, <2>3 DEF AtOffset
  <2>5. pc' = "offset"
    BY <1>3, <1>9
  <2> QED BY <2>4, <2>5 DEF PlaceInv
<1>10. ASSUME offset_len = 0 PROVE PlaceInv(w, b, k)'
  <2>1. at = b[k + 1] + 1
    <3> DEFINE l == w[k].length
               o == w[k].offset
    <3>1. at = b[k] + 2 + l /\ o = 0
      BY <1>5, <1>10
    <3>2. b[k + 1] = b[k] + 1 + l + o /\ l \in Nat
      BY <1>7
    <3> HIDE DEF l, o
    <3> QED BY <1>6, <3>1, <3>2
  <2>2. layout[k].lcn = Hole
    <3>1. layout[k].lcn # Hole => w[k].offset \in 1..MaxWidth
      BY <1>5, <1>6, WidthFacts
    <3> QED BY <1>5, <1>10, <3>1
  <2>3. Before(layout, k + 1) = Before(layout, k)
    BY <1>5, <1>6, <2>2, BeforeFacts
  <2>4. AtPush(b, k)'
    BY <1>3, <1>5, <1>8, <2>1, <2>3 DEF AtPush
  <2>5. pc' = "push"
    BY <1>3, <1>10
  <2> QED BY <2>4, <2>5 DEF PlaceInv
<1>11. PlaceInv(w, b, k)'
  BY <1>9, <1>10
<1>12. at' <= Len(runList)
  BY <1>3 DEF DecodeInv
<1>13. /\ (pc' \notin {"check", "end"} => form = "nonresident")
       /\ pc' \in {"check", "header", "length", "offset", "push", "end"}
       /\ outcome' = "ok" => form = "nonresident" /\ Len(result) = Len(layout)
  BY <1>3 DEF DecodeInv
<1>14. UNCHANGED <<layout, form, runList, result>>
  BY <1>3
<1> QED BY <1>2, <1>11, <1>12, <1>13, <1>14, Fold

LEMMA ReadOffsetStep == DecodeInv /\ ReadOffset => DecodeInv'
<1> SUFFICES ASSUME DecodeInv, ReadOffset PROVE DecodeInv'
  OBVIOUS
<1>1. PICK w \in Widths(layout), k \in Places : \E b :
        /\ ListIs(runList, layout, w, b) /\ PlaceInv(w, b, k) /\ k = Len(result) + 1
  BY Unfold
<1>2. PICK b : ListIs(runList, layout, w, b) /\ PlaceInv(w, b, k) /\ k = Len(result) + 1
  BY <1>1
<1>3. /\ pc = "offset" /\ pc' = "offset" /\ i < offset_len
      /\ offsetDiff' = offsetDiff + runList[at] * Power(i) /\ at' = at + 1 /\ i' = i + 1
      /\ UNCHANGED <<layout, form, runList, length_len, offset_len, length>>
      /\ UNCHANGED <<offset, result, outcome>>
  BY DEF ReadOffset, input
<1>4. AtOffset(w, b, k)
  BY <1>2, <1>3 DEF PlaceInv
<1> DEFINE l == w[k].length
           o == w[k].offset
           u == Unsigned(layout, w, k)
<1>5. /\ k \in 1..Len(layout) /\ length_len = l /\ offset_len = o /\ i \in Nat
      /\ at = b[k] + 2 + l + i /\ offsetDiff = u % Power(i)
  BY <1>4 DEF AtOffset, InPair
<1>6. b[k] \in Nat /\ Len(runList) \in Nat
  BY <1>2, Given
<1>7. /\ o \in 0..MaxWidth /\ l \in Nat /\ o \in Nat
      /\ b[k + 1] = b[k] + 1 + l + o
      /\ b[k + 1] + 1 <= Len(runList) /\ u \in Nat
  BY <1>2, <1>5, Given
<1>8. \A c \in 1..o : runList[b[k] + 1 + l + c] = (u \div Power(c - 1)) % Base
  BY <1>2, <1>5 DEF ListIs
<1> HIDE DEF l, o, u
<1>17. /\ i \in Nat /\ at = b[k] + 2 + l + i /\ i < o /\ at' = at + 1 /\ i' = i + 1
       /\ length_len' = l /\ offset_len' = o
  BY <1>3, <1>5
<1>9. /\ i + 1 \in 1..o /\ i \in 0..(MaxWidth - 1) /\ (i + 1) - 1 = i
      /\ at = b[k] + 1 + l + (i + 1)
  <2>1. MaxWidth \in Nat
    BY RunsAssumption
  <2>2. i \in Nat /\ at = b[k] + 2 + l + i /\ i < o
    BY <1>17
  <2>3. o \in 0..MaxWidth /\ l \in Nat /\ o \in Nat /\ b[k] \in Nat
    BY <1>6, <1>7
  <2> QED BY <2>1, <2>2, <2>3
<1>10. runList[at] = (u \div Power(i)) % Base
  <2>1. runList[b[k] + 1 + l + (i + 1)] = (u \div Power((i + 1) - 1)) % Base
    BY <1>8, <1>9
  <2> QED BY <1>9, <2>1
<1>11. offsetDiff' = u % Power(i + 1)
  BY <1>3, <1>5, <1>7, <1>9, <1>10, NextDigit
<1>12. AtOffset(w, b, k)'
  <2>1. InPair(w, k)'
    BY <1>3, <1>4, <1>5 DEF InPair, AtOffset
  <2>2. at' = b[k] + 2 + length_len' + i' /\ i' <= offset_len'
    <3>1. o \in Nat /\ l \in Nat /\ b[k] \in Nat
      BY <1>6, <1>7
    <3> QED BY <1>17, <3>1
  <2> QED BY <1>3, <1>4, <1>11, <2>1, <2>2 DEF AtOffset, u
<1>13. PlaceInv(w, b, k)'
  BY <1>3, <1>12 DEF PlaceInv
<1>14. at' <= Len(runList)
  <2>1. at' = b[k] + 3 + l + i /\ i + 1 <= o
    <3>1. o \in Nat /\ l \in Nat /\ b[k] \in Nat
      BY <1>6, <1>7
    <3> QED BY <1>17, <3>1
  <2>2. /\ o \in Nat /\ l \in Nat /\ b[k] \in Nat /\ i \in Nat /\ Len(runList) \in Nat
        /\ b[k + 1] = b[k] + 1 + l + o /\ b[k + 1] + 1 <= Len(runList)
    BY <1>6, <1>7, <1>17
  <2> QED BY <2>1, <2>2
<1>15. /\ (pc' \notin {"check", "end"} => form = "nonresident")
       /\ pc' \in {"check", "header", "length", "offset", "push", "end"}
       /\ outcome' = "ok" => form = "nonresident" /\ Len(result) = Len(layout)
  BY <1>3 DEF DecodeInv
<1>16. UNCHANGED <<layout, form, runList, result>>
  BY <1>3
<1> QED BY <1>2, <1>13, <1>14, <1>15, <1>16, Fold
LEMMA OffsetDoneStep == DecodeInv /\ OffsetDone => DecodeInv'
<1> SUFFICES ASSUME DecodeInv, OffsetDone PROVE DecodeInv'
  OBVIOUS
<1>1. PICK w \in Widths(layout), k \in Places : \E b :
        /\ ListIs(runList, layout, w, b) /\ PlaceInv(w, b, k) /\ k = Len(result) + 1
  BY Unfold
<1>2. PICK b : ListIs(runList, layout, w, b) /\ PlaceInv(w, b, k) /\ k = Len(result) + 1
  BY <1>1
<1>3. /\ pc = "offset" /\ pc' = "push" /\ i = offset_len
      /\ offset' = offset + Signed(offsetDiff, offset_len)
      /\ UNCHANGED <<layout, form, runList, at, length, result, outcome>>
  BY DEF OffsetDone, input, run, Goto
<1>4. AtOffset(w, b, k)
  BY <1>2, <1>3 DEF PlaceInv
<1> DEFINE l == w[k].length
           o == w[k].offset
           u == Unsigned(layout, w, k)
           D == Distance(layout, k)
<1>5. /\ k \in 1..Len(layout) /\ at = b[k] + 2 + l + o /\ o # 0 /\ offset_len = o
      /\ length = layout[k].length /\ offset = Before(layout, k)
      /\ offsetDiff = u % Power(o)
  BY <1>3, <1>4 DEF AtOffset, InPair
<1>6. /\ layout \in Layout /\ b[k] \in Nat /\ l \in Nat /\ o \in Nat /\ o \in 0..MaxWidth
      /\ b[k + 1] = b[k] + 1 + l + o /\ u \in Nat /\ u < Power(o)
      /\ Before(layout, k) \in Nat
  BY <1>2, <1>5, Given
<1>7. offsetDiff = u
  <2> HIDE DEF u, o
  <2> QED BY <1>5, <1>6, AllDigits
<1>8. layout[k].lcn # Hole
  BY <1>5, <1>6, WidthFacts
<1>9. o \in 1..MaxWidth /\ -(Power(o)) <= 2 * D /\ 2 * D < Power(o)
  BY <1>5, <1>6, <1>8, WidthFacts
<1>10. D \in Int /\ u = D % Power(o)
  BY <1>5, <1>6, DistanceIsInt DEF Unsigned
<1>11. Signed(u, o) = D
  <2> HIDE DEF u, o, D
  <2> QED BY <1>9, <1>10, SignIsRead
<1>12. offset' = Before(layout, k + 1)
  <2>1. D = layout[k].lcn - Before(layout, k) /\ layout[k].lcn \in Int
    BY <1>5, <1>6, LayoutFacts DEF Distance
  <2>2. offset' = offset + D
    BY <1>3, <1>5, <1>7, <1>11
  <2>3. Before(layout, k + 1) = layout[k].lcn
    BY <1>5, <1>6, <1>8, BeforeFacts
  <2> HIDE DEF D
  <2>4. offset = Before(layout, k) /\ Before(layout, k) \in Nat
    BY <1>5, <1>6
  <2> QED BY <2>1, <2>2, <2>3, <2>4
<1>13. at = b[k + 1] + 1
  <2>1. at = b[k] + 2 + l + o
    BY <1>5
  <2>2. b[k + 1] = b[k] + 1 + l + o /\ b[k] \in Nat /\ l \in Nat /\ o \in Nat
    BY <1>6
  <2> HIDE DEF l, o
  <2> QED BY <2>1, <2>2
<1>14. AtPush(b, k)'
  BY <1>3, <1>5, <1>12, <1>13 DEF AtPush
<1>15. PlaceInv(w, b, k)'
  BY <1>3, <1>14 DEF PlaceInv
<1>16. /\ at' <= Len(runList) /\ (pc' \notin {"check", "end"} => form = "nonresident")
       /\ pc' \in {"check", "header", "length", "offset", "push", "end"}
       /\ outcome' = "ok" => form = "nonresident" /\ Len(result) = Len(layout)
  BY <1>3 DEF DecodeInv
<1>17. UNCHANGED <<layout, form, runList, result>>
  BY <1>3
<1> QED BY <1>2, <1>15, <1>16, <1>17, Fold

(* The run is pushed: the pointer is at the next header. *)
LEMMA PushStep == DecodeInv /\ Push => DecodeInv'
<1> SUFFICES ASSUME DecodeInv, Push PROVE DecodeInv'
  OBVIOUS
<1>1. PICK w \in Widths(layout), k \in Places : \E b :
        /\ ListIs(runList, layout, w, b) /\ PlaceInv(w, b, k) /\ k = Len(result) + 1
  BY Unfold
<1>2. PICK b : ListIs(runList, layout, w, b) /\ PlaceInv(w, b, k) /\ k = Len(result) + 1
  BY <1>1
<1>3. /\ pc = "push" /\ pc' = "header"
      /\ result' = Append(result, [offset |-> offset, length |-> length])
      /\ UNCHANGED <<layout, form, runList, at, offset, outcome>>
  BY DEF Push, input, Goto
<1>4. /\ k \in 1..Len(layout) /\ at = b[k + 1] + 1
      /\ length = layout[k].length /\ offset = Before(layout, k + 1)
  BY <1>2, <1>3 DEF PlaceInv, AtPush
<1> DEFINE R == [offset : Nat, length : Nat]
           r == [offset |-> offset, length |-> length]
<1>5. layout \in Layout /\ Len(layout) \in Nat
  BY <1>2, Given
<1>6. r \in R /\ r = Decoded(k)
  <2>1. length \in Nat
    BY <1>4, <1>5, LayoutFacts
  <2>2. offset \in Nat
    <3>1. k + 1 \in 1..(Len(layout) + 1)
      BY <1>4, <1>5
    <3> QED BY <1>4, <1>5, <3>1, BeforeFacts
  <2> QED BY <1>4, <2>1, <2>2 DEF Decoded
<1>7. result \in Seq(R) /\ Len(result) \in Nat /\ \A j \in 1..Len(result) : result[j] = Decoded(j)
  BY LenProperties DEF DecodeInv, ResultInv
<1>8. /\ result' \in Seq(R) /\ Len(result') = Len(result) + 1
      /\ \A j \in 1..Len(result) : result'[j] = result[j]
      /\ result'[Len(result) + 1] = r
  <2> HIDE DEF r, R
  <2>1. result' = Append(result, r)
    BY <1>3 DEF r
  <2> QED BY <1>6, <1>7, <2>1, AppendProperties
<1>9. \A j \in 1..Len(result') : result'[j] = Decoded(j)
  <2> SUFFICES ASSUME NEW j \in 1..Len(result') PROVE result'[j] = Decoded(j)
    OBVIOUS
  <2>1. CASE j \in 1..Len(result)
    BY <1>7, <1>8, <2>1
  <2>2. CASE j = Len(result) + 1
    BY <1>2, <1>6, <1>8, <2>2
  <2> QED BY <1>7, <1>8, <2>1, <2>2
<1>10. ResultInv'
  <2>1. Len(result') <= Len(layout)
    BY <1>2, <1>4, <1>5, <1>7, <1>8
  <2>2. \A j : Decoded(j)' = Decoded(j)
    BY <1>3 DEF Decoded
  <2>3. \A j \in 1..Len(result') : result'[j] = Decoded(j)'
    BY <1>9, <2>2
  <2> QED BY <1>3, <1>8, <2>1, <2>3 DEF ResultInv
<1>11. PlaceInv(w, b, Len(result) + 1)'
  <2>1. Len(result') + 1 = k + 1
    BY <1>2, <1>8
  <2>2. at' = b[k + 1] + 1 /\ offset' = Before(layout, k + 1) /\ layout' = layout
    BY <1>3, <1>4
  <2> QED BY <1>3, <2>1, <2>2 DEF PlaceInv, AtHeader
<1>12. ListIs(runList, layout, w, b)' /\ w \in Widths(layout)'
  BY <1>2, <1>3
<1>13. \E x \in Widths(layout)' : \E y :
         ListIs(runList, layout, x, y)' /\ PlaceInv(x, y, Len(result) + 1)'
  BY <1>11, <1>12
<1>14. outcome # "ok"
  <2>1. outcome = "ok" => Len(result) = Len(layout)
    BY DEF DecodeInv
  <2> QED BY <1>2, <1>4, <1>5, <1>7, <2>1
<1>15. /\ (layout \in Layouts)' /\ (at <= Len(runList))'
       /\ (pc \in {"check", "header", "length", "offset", "push", "end"})'
       /\ (pc \notin {"check", "end"} => form = "nonresident")'
       /\ (outcome = "ok" => form = "nonresident" /\ Len(result) = Len(layout))'
  BY <1>3, <1>14 DEF DecodeInv
<1> QED BY <1>10, <1>13, <1>15 DEF DecodeInv

(* A zero byte in the place of a header is the end mark, and nothing else. *)
LEMMA FinishStep == DecodeInv /\ Finish => DecodeInv'
<1> SUFFICES ASSUME DecodeInv, Finish PROVE DecodeInv'
  OBVIOUS
<1>1. PICK w \in Widths(layout), k \in Places : \E b :
        /\ ListIs(runList, layout, w, b) /\ PlaceInv(w, b, k) /\ k = Len(result) + 1
  BY Unfold
<1>2. PICK b : ListIs(runList, layout, w, b) /\ PlaceInv(w, b, k) /\ k = Len(result) + 1
  BY <1>1
<1>3. /\ pc = "header" /\ runList[at] = RunsEnd /\ pc' = "end"
      /\ UNCHANGED <<layout, form, runList, at, offset, result>>
  BY DEF Finish, input, Goto, Return
<1>4. at = b[k] + 1
  BY <1>2, <1>3 DEF PlaceInv, AtHeader
<1>5. layout \in Layout /\ Len(layout) \in Nat
  BY <1>2, Given
<1>6. k = Len(layout) + 1
  <2>1. ASSUME k \in 1..Len(layout) PROVE FALSE
    <3>1. runList[at] = Header(w[k].length, w[k].offset)
      BY <1>2, <1>4, <2>1 DEF ListIs
    <3>2. w[k].length \in 1..MaxWidth /\ w[k].offset \in 0..MaxWidth
      BY <1>2, <2>1, Given
    <3> QED BY <1>3, <3>1, <3>2, HeaderFacts
  <2> QED BY <1>5, <2>1 DEF Places
<1>7. Len(result) = Len(layout)
  <2>1. Len(result) \in Nat
    BY LenProperties DEF DecodeInv, ResultInv
  <2> QED BY <1>2, <1>5, <1>6, <2>1
<1>8. PlaceInv(w, b, k)'
  BY <1>3 DEF PlaceInv
<1>9. /\ at' <= Len(runList) /\ (pc' \notin {"check", "end"} => form = "nonresident")
      /\ pc' \in {"check", "header", "length", "offset", "push", "end"}
      /\ outcome' = "ok" => form = "nonresident" /\ Len(result) = Len(layout)
  BY <1>3, <1>7 DEF DecodeInv
<1>10. UNCHANGED <<layout, form, runList, result>>
  BY <1>3
<1> QED BY <1>2, <1>8, <1>9, <1>10, Fold

LEMMA StutterStep == DecodeInv /\ UNCHANGED vars => DecodeInv'
<1> SUFFICES ASSUME DecodeInv, UNCHANGED vars PROVE DecodeInv'
  OBVIOUS
<1>1. PICK w \in Widths(layout), k \in Places : \E b :
        /\ ListIs(runList, layout, w, b) /\ PlaceInv(w, b, k) /\ k = Len(result) + 1
  BY Unfold
<1>2. PICK b : ListIs(runList, layout, w, b) /\ PlaceInv(w, b, k) /\ k = Len(result) + 1
  BY <1>1
<1>3. UNCHANGED <<layout, form, runList, at, pc, length_len, offset_len, i, length,
                  offsetDiff, offset, result, outcome>>
  BY DEF vars, input, run
<1>4. PlaceInv(w, b, k)'
  BY <1>2, <1>3 DEF PlaceInv, AtHeader, AtLength, AtOffset, AtPush, InPair
<1>5. /\ at' <= Len(runList) /\ (pc' \notin {"check", "end"} => form = "nonresident")
      /\ pc' \in {"check", "header", "length", "offset", "push", "end"}
      /\ outcome' = "ok" => form = "nonresident" /\ Len(result) = Len(layout)
  BY <1>3 DEF DecodeInv
<1>6. UNCHANGED <<layout, form, runList, result>>
  BY <1>3
<1> QED BY <1>2, <1>4, <1>5, <1>6, Fold

LEMMA DecodeKeeps == DecodeInv /\ Decode => DecodeInv'
BY CheckStep, ReadHeaderStep, ReadLengthStep, LengthDoneStep, ReadOffsetStep,
   OffsetDoneStep, PushStep, FinishStep DEF Decode

(***************************************************************************)
(* The invariant holds of every list NTFS may write, in any widths         *)
(* (mt_ntfs_mft_record.cpp:645-683).                                       *)
(***************************************************************************)
THEOREM DecodeInvariant == Spec => []DecodeInv
<1>1. Init => DecodeInv
  BY InitDecode
<1>2. DecodeInv /\ [Next]_vars => DecodeInv'
  BY DecodeKeeps, StutterStep DEF Next
<1> QED BY <1>1, <1>2, PTL DEF Spec

(***************************************************************************)
(* Decoding undoes encoding for every layout and all widths that hold it   *)
(* (mt_ntfs_mft_record.cpp:645-683).                                       *)
(***************************************************************************)
THEOREM AlwaysDecodes == Spec => []DecodesLayout
<1>1. DecodeInv => DecodesLayout
  <2> SUFFICES ASSUME DecodeInv, outcome = "ok"
               PROVE  /\ form = "nonresident" /\ Len(result) = Len(layout)
                      /\ \A k \in DOMAIN layout :
                           /\ result[k].length = layout[k].length
                           /\ layout[k].lcn # Hole => result[k].offset = layout[k].lcn
    BY DEF DecodesLayout
  <2>1. layout \in Layout
    BY RunsAssumption DEF DecodeInv
  <2>2. form = "nonresident" /\ Len(result) = Len(layout)
    BY DEF DecodeInv
  <2>3. \A k \in 1..Len(layout) : result[k] = Decoded(k)
    BY <2>2 DEF DecodeInv, ResultInv
  <2>4. ASSUME NEW k \in DOMAIN layout
        PROVE  /\ result[k].length = layout[k].length
               /\ layout[k].lcn # Hole => result[k].offset = layout[k].lcn
    <3>1. k \in 1..Len(layout)
      BY <2>1, LayoutFacts
    <3>2. result[k] = [offset |-> Before(layout, k + 1), length |-> layout[k].length]
      BY <2>3, <3>1 DEF Decoded
    <3>3. layout[k].lcn # Hole => Before(layout, k + 1) = layout[k].lcn
      BY <2>1, <3>1, BeforeFacts
    <3> QED BY <3>2, <3>3
  <2> QED BY <2>2, <2>4
<1> QED BY <1>1, DecodeInvariant, PTL

(***************************************************************************)
(* No byte behind the end mark is read, though nothing but the mark stops  *)
(* the loop (mt_ntfs_mft_record.cpp:653).                                  *)
(***************************************************************************)
THEOREM PointerStaysInList == Spec => []StaysInList
<1>1. DecodeInv => StaysInList
  BY DEF DecodeInv, StaysInList
<1> QED BY <1>1, DecodeInvariant, PTL

-----------------------------------------------------------------------------
(* The code's sum of lengths is where the runs begin when they are laid    *)
(* out one after the other.                                                *)

LEMMA RunFacts ==
  ASSUME NEW runs \in Seq(Run)
  PROVE  /\ Len(runs) \in Nat /\ DOMAIN runs = 1..Len(runs)
         /\ \A j \in 1..Len(runs) : runs[j].offset \in Nat /\ runs[j].length \in Nat \ {0}
<1>1. Len(runs) \in Nat /\ DOMAIN runs = 1..Len(runs)
  BY LenProperties
<1>2. \A j \in 1..Len(runs) : runs[j] \in Run
  BY ElementOfSeq
<1> QED BY <1>1, <1>2 DEF Run

LEMMA VcnsFacts ==
  ASSUME NEW runs \in Seq(Run)
  PROVE  /\ Vcns(runs) \in [1..(Len(runs) + 1) -> Nat]
         /\ Vcns(runs)[1] = 0
         /\ \A j \in 1..Len(runs) : Vcns(runs)[j + 1] = Vcns(runs)[j] + runs[j].length
<1> DEFINE n == Len(runs)
           step == [h \in 1..(n + 1) |->
                      [x \in Nat |-> IF h = 1 THEN 0 ELSE x + runs[h - 1].length]]
           V(f) == f = [j \in 1..(n + 1) |->
                          IF j = 1 THEN 0 ELSE f[j - 1] + runs[j - 1].length]
<1>1. n \in Nat /\ n + 1 \in Nat /\ 1 \in 1..(n + 1)
  BY RunFacts
<1>2. ASSUME NEW h \in 1..(n + 1), h # 1 PROVE h - 1 \in 1..n /\ runs[h - 1].length \in Nat
  <2>1. h - 1 \in 1..n
    BY <1>1, <1>2
  <2> QED BY <2>1, RunFacts
<1>3. IsSteps(step, n + 1, Nat)
  <2>1. \A h \in 1..(n + 1) : \A x \in Nat :
          (IF h = 1 THEN 0 ELSE x + runs[h - 1].length) \in Nat
    BY <1>2
  <2> QED BY <2>1 DEF IsSteps
<1>4. PICK f : IsMadeBy(f, n + 1, Nat, 0, step)
  <2> HIDE DEF step, n
  <2> QED BY <1>1, <1>3, RecursiveFunction
<1>5. f \in [1..(n + 1) -> Nat]
  BY <1>4 DEF IsMadeBy
<1>6. \A h \in 1..(n + 1) : f[h] = IF h = 1 THEN 0 ELSE f[h - 1] + runs[h - 1].length
  <2> SUFFICES ASSUME NEW h \in 1..(n + 1)
               PROVE  f[h] = IF h = 1 THEN 0 ELSE f[h - 1] + runs[h - 1].length
    OBVIOUS
  <2>1. f[h] = IF h = 1 THEN 0 ELSE step[h][f[h - 1]]
    <3> HIDE DEF step
    <3> QED BY <1>4 DEF IsMadeBy
  <2>2. h # 1 => f[h - 1] \in Nat
    <3>1. h # 1 => h - 1 \in 1..(n + 1)
      BY <1>1
    <3> QED BY <1>5, <3>1
  <2> QED BY <2>1, <2>2
<1>7. V(f)
  <2>1. f = [h \in 1..(n + 1) |-> f[h]]
    BY <1>5
  <2> HIDE DEF n
  <2>2. [h \in 1..(n + 1) |-> f[h]]
        = [j \in 1..(n + 1) |-> IF j = 1 THEN 0 ELSE f[j - 1] + runs[j - 1].length]
    BY <1>6
  <2> QED BY <2>1, <2>2
<1>8. Vcns(runs) = CHOOSE v : V(v)
  BY DEF Vcns
<1>9. V(Vcns(runs))
  <2> HIDE DEF V
  <2> QED BY <1>7, <1>8
<1> DEFINE v == Vcns(runs)
<1>10. \A h \in 1..(n + 1) : v[h] = IF h = 1 THEN 0 ELSE v[h - 1] + runs[h - 1].length
  <2> HIDE DEF v, n
  <2>1. v = [j \in 1..(n + 1) |-> IF j = 1 THEN 0 ELSE v[j - 1] + runs[j - 1].length]
    BY <1>9 DEF v
  <2> QED BY <2>1
<1>11. DOMAIN v = 1..(n + 1)
  <2> HIDE DEF v, n
  <2>1. v = [j \in 1..(n + 1) |-> IF j = 1 THEN 0 ELSE v[j - 1] + runs[j - 1].length]
    BY <1>9 DEF v
  <2> QED BY <2>1
<1> HIDE DEF v
<1>12. \A j \in 1..n : v[j + 1] = v[j] + runs[j].length
  <2> SUFFICES ASSUME NEW j \in 1..n PROVE v[j + 1] = v[j] + runs[j].length
    OBVIOUS
  <2>1. j + 1 \in 1..(n + 1) /\ j + 1 # 1 /\ (j + 1) - 1 = j
    BY <1>1
  <2> QED BY <1>10, <2>1
<1>13. v[1] = 0
  BY <1>1, <1>10
<1>14. \A h \in 1..(n + 1) : v[h] \in Nat
  <2> DEFINE P == {h \in 1..(n + 1) : v[h] \in Nat}
  <2>1. 1 \in P
    BY <1>1, <1>13
  <2>2. ASSUME NEW k \in 1..((n + 1) - 1), k \in P PROVE k + 1 \in P
    <3>1. k \in 1..n /\ k + 1 \in 1..(n + 1)
      BY <1>1
    <3>2. v[k + 1] = v[k] + runs[k].length /\ runs[k].length \in Nat
      BY <1>12, <3>1, RunFacts
    <3> QED BY <2>2, <3>1, <3>2
  <2>3. 1..(n + 1) \subseteq P
    <3>1. 1 \in Nat
      OBVIOUS
    <3> HIDE DEF P, n
    <3> QED BY <1>1, <2>1, <2>2, <3>1, Induction
  <2> QED BY <2>3
<1>15. v \in [1..(n + 1) -> Nat]
  <2>1. v = [h \in 1..(n + 1) |-> v[h]]
    <3>1. v = [j \in 1..(n + 1) |-> IF j = 1 THEN 0 ELSE v[j - 1] + runs[j - 1].length]
      BY <1>9 DEF v
    <3> HIDE DEF n
    <3> QED BY <3>1
  <2> HIDE DEF n
  <2> QED BY <1>14, <2>1
<1> QED BY <1>12, <1>13, <1>15 DEF v
LEMMA ClustersFacts ==
  ASSUME NEW runs \in Seq(Run)
  PROVE  /\ Len(Clusters(runs)) = Vcns(runs)[Len(runs) + 1]
         /\ \A j \in 1..Len(runs) : \A c \in Nat :
              Vcns(runs)[j] <= c /\ c < Vcns(runs)[j] + runs[j].length =>
                /\ c < Len(Clusters(runs))
                /\ Clusters(runs)[c + 1] = runs[j].offset + c - Vcns(runs)[j]
<1> DEFINE n == Len(runs)
           v == Vcns(runs)
           s == Extents(runs)
<1>1. n \in Nat /\ DOMAIN runs = 1..n
  BY RunFacts
<1>2. \A j \in 1..n : /\ s[j] = [h \in 1..runs[j].length |-> runs[j].offset + h - 1]
                      /\ s[j] \in Seq(Nat) /\ Len(s[j]) = runs[j].length
  <2> SUFFICES ASSUME NEW j \in 1..n
               PROVE  /\ s[j] = [h \in 1..runs[j].length |-> runs[j].offset + h - 1]
                      /\ s[j] \in Seq(Nat) /\ Len(s[j]) = runs[j].length
    OBVIOUS
  <2>1. s[j] = [h \in 1..runs[j].length |-> runs[j].offset + h - 1]
    BY <1>1 DEF Extents
  <2>2. runs[j].length \in Nat /\ runs[j].offset \in Nat
    BY RunFacts
  <2>3. s[j] \in [1..runs[j].length -> Nat]
    BY <2>1, <2>2
  <2>4. s[j] \in Seq(Nat)
    BY <2>2, <2>3, IsASeq
  <2>5. DOMAIN s[j] = 1..runs[j].length
    BY <2>1
  <2>6. Len(s[j]) \in Nat /\ DOMAIN s[j] = 1..Len(s[j])
    BY <2>4, LenProperties
  <2> QED BY <2>1, <2>2, <2>4, <2>5, <2>6
<1>3. s \in Seq(Seq(Nat)) /\ Len(s) = n
  <2>1. DOMAIN s = 1..n
    BY <1>1 DEF Extents
  <2>2. s = [j \in 1..n |-> s[j]]
    BY <1>1 DEF Extents
  <2>3. s \in [1..n -> Seq(Nat)]
    <3> HIDE DEF s, n
    <3> QED BY <1>2, <2>2
  <2>4. s \in Seq(Seq(Nat))
    <3> HIDE DEF s, n
    <3> QED BY <1>1, <2>3, IsASeq
  <2>5. Len(s) \in Nat /\ DOMAIN s = 1..Len(s)
    <3> HIDE DEF s
    <3> QED BY <2>4, LenProperties
  <2> HIDE DEF s, n
  <2> QED BY <1>1, <2>1, <2>4, <2>5
<1>4. Begins(v, s)
  <2>1. v \in [1..(n + 1) -> Nat] /\ v[1] = 0
        /\ \A j \in 1..n : v[j + 1] = v[j] + runs[j].length
    BY VcnsFacts
  <2> HIDE DEF v, s, n
  <2> QED BY <1>2, <1>3, <2>1 DEF Begins
<1>5. /\ Len(FlattenSeq(s)) = v[n + 1]
      /\ \A h \in 1..n : \A c \in 1..Len(s[h]) :
           /\ v[h] + c \in 1..Len(FlattenSeq(s))
           /\ FlattenSeq(s)[v[h] + c] = s[h][c]
  <2> HIDE DEF v, s, n
  <2>1. s \in Seq(Seq(Nat))
    BY <1>3
  <2>2. /\ Len(FlattenSeq(s)) = v[Len(s) + 1]
        /\ \A h \in 1..Len(s) : \A c \in 1..Len(s[h]) :
             /\ v[h] + c \in 1..Len(FlattenSeq(s))
             /\ FlattenSeq(s)[v[h] + c] = s[h][c]
    BY <1>4, <2>1, FlattenFacts
  <2> QED BY <1>3, <2>2
<1>6. Clusters(runs) = FlattenSeq(s)
  BY DEF Clusters
<1>7. ASSUME NEW j \in 1..n, NEW c \in Nat, v[j] <= c, c < v[j] + runs[j].length
      PROVE  /\ c < Len(FlattenSeq(s))
             /\ FlattenSeq(s)[c + 1] = runs[j].offset + c - v[j]
  <2>1. v[j] \in Nat /\ v[n + 1] \in Nat
    <3>1. v \in [1..(n + 1) -> Nat]
      BY VcnsFacts
    <3> HIDE DEF v, n
    <3> QED BY <1>1, <3>1
  <2>2. runs[j].length \in Nat /\ runs[j].offset \in Nat
    BY RunFacts
  <2> DEFINE h == c + 1 - v[j]
  <2>3. h \in 1..runs[j].length /\ v[j] + h = c + 1 /\ h \in Int
    <3> DEFINE x == v[j]
               y == runs[j].length
    <3>1. x \in Nat /\ y \in Nat /\ x <= c /\ c < x + y /\ h = c + 1 - x
      BY <1>7, <2>1, <2>2
    <3>2. h \in 1..y /\ x + h = c + 1 /\ h \in Int
      <4> HIDE DEF x, y, h
      <4> QED BY <3>1
    <3> QED BY <3>2
  <2>5. s[j][h] = runs[j].offset + h - 1
    <3> HIDE DEF h, s, v, n
    <3> QED BY <1>2, <2>3
  <2>6. v[j] + h \in 1..Len(FlattenSeq(s)) /\ FlattenSeq(s)[v[j] + h] = s[j][h]
    <3> HIDE DEF h, s, v, n
    <3> QED BY <1>2, <1>5, <2>3
  <2>7. c < Len(FlattenSeq(s))
    <3> HIDE DEF h, s, v, n
    <3> QED BY <1>5, <2>1, <2>3, <2>6
  <2>8. runs[j].offset + h - 1 = runs[j].offset + c - v[j]
    BY <2>1, <2>2
  <2> HIDE DEF h, s, v, n
  <2> QED BY <2>3, <2>5, <2>6, <2>7, <2>8
<1> HIDE DEF s
<1> QED BY <1>5, <1>6, <1>7

-----------------------------------------------------------------------------
(* Which run the loop ends at.                                             *)

LEMMA VolumeFacts ==
  ASSUME vol \in Volumes
  PROVE  /\ vol.runs \in Seq(Run)
         /\ vol.sectorsPerCluster \in Nat \ {0} /\ vol.sectorsPerRecord \in Nat \ {0}
BY LookupAssumption DEF Volume

LEMMA ClusterFacts ==
  ASSUME vol \in Volumes, NEW n \in Nat
  PROVE  ClusterOf(n) \in Nat /\ n % vol.sectorsPerCluster \in Nat
BY VolumeFacts DEF ClusterOf

(* The run that covers a cluster holds it, and its place is the cluster's. *)
LEMMA PositionIsPlace ==
  ASSUME vol \in Volumes, dataruns = vol.runs, NEW n \in Nat,
         NEW j \in DOMAIN dataruns, FirstCovering(ClusterOf(n), j)
  PROVE  Position(n, j) = Place(n) /\ Position(n, j) \in Nat
<1> DEFINE c == ClusterOf(n)
           v == Vcns(dataruns)
           N == Len(dataruns)
<1>1. dataruns \in Seq(Run)
  BY VolumeFacts
<1>2. N \in Nat /\ DOMAIN dataruns = 1..N /\ j \in 1..N
      /\ dataruns[j].length \in Nat /\ dataruns[j].offset \in Nat
  BY <1>1, RunFacts
<1>3. /\ v \in [1..(N + 1) -> Nat] /\ v[1] = 0
      /\ \A h \in 1..N : v[h + 1] = v[h] + dataruns[h].length
  BY <1>1, VcnsFacts
<1>4. c \in Nat
  BY ClusterFacts
<1>5. v[j] \in Nat
  BY <1>2, <1>3
<1>6. c < v[j] + dataruns[j].length
  BY DEF FirstCovering, Covers, Vcn
<1>7. v[j] <= c
  <2>1. CASE j = 1
    BY <1>3, <1>4, <2>1
  <2>2. CASE j # 1
    <3>1. j - 1 \in 1..(j - 1) /\ j - 1 \in 1..N /\ (j - 1) + 1 = j
      BY <1>2, <2>2
    <3>2. ~(c < v[j - 1] + dataruns[j - 1].length)
      BY <3>1 DEF FirstCovering, Covers, Vcn
    <3>3. v[j] = v[j - 1] + dataruns[j - 1].length
      <4> HIDE DEF v, N
      <4> QED BY <1>3, <3>1
    <3> QED BY <1>4, <1>5, <3>2, <3>3
  <2> QED BY <2>1, <2>2
<1>8. Clusters(vol.runs)[c + 1] = dataruns[j].offset + c - v[j]
  <2> HIDE DEF c
  <2> QED BY <1>1, <1>2, <1>4, <1>6, <1>7, ClustersFacts
<1>9. dataruns[j].offset + c - v[j] \in Nat
  <2> HIDE DEF c, v
  <2> QED BY <1>2, <1>4, <1>5, <1>7
<1>10. Position(n, j) = (dataruns[j].offset + c - v[j]) * vol.sectorsPerCluster
                        + (n % vol.sectorsPerCluster)
  BY DEF Position, Vcn
<1>11. Place(n) = Clusters(vol.runs)[c + 1] * vol.sectorsPerCluster
                  + (n % vol.sectorsPerCluster)
  BY DEF Place
<1>12. Position(n, j) \in Nat
  <2> DEFINE x == dataruns[j].offset + c - v[j]
             m == vol.sectorsPerCluster
             y == n % vol.sectorsPerCluster
  <2>1. x \in Nat /\ m \in Nat /\ y \in Nat /\ Position(n, j) = x * m + y
    BY <1>9, <1>10, VolumeFacts, ClusterFacts
  <2> HIDE DEF x, m, y
  <2> QED BY <2>1
<1> QED BY <1>8, <1>10, <1>11, <1>12

(* A cluster that lies in the runs is covered by one of them.              *)
LEMMA PlacedIsFound ==
  ASSUME vol \in Volumes, dataruns = vol.runs, NEW n \in Nat, Placed(n)
  PROVE  \E j \in DOMAIN dataruns : FirstCovering(ClusterOf(n), j)
<1> DEFINE c == ClusterOf(n)
           v == Vcns(dataruns)
           N == Len(dataruns)
           S == {j \in 1..N : Covers(j, c)}
<1>1. dataruns \in Seq(Run)
  BY VolumeFacts
<1>2. N \in Nat /\ DOMAIN dataruns = 1..N
  BY <1>1, RunFacts
<1>3. /\ v \in [1..(N + 1) -> Nat] /\ v[1] = 0
      /\ \A h \in 1..N : v[h + 1] = v[h] + dataruns[h].length
  BY <1>1, VcnsFacts
<1>4. c \in Nat
  BY ClusterFacts
<1>5. c < v[N + 1]
  <2>1. c < Len(Clusters(dataruns))
    BY DEF Placed
  <2> QED BY <1>1, <2>1, ClustersFacts
<1>6. N # 0
  BY <1>3, <1>4, <1>5
<1>7. N \in S
  <2>1. N \in 1..N /\ v[N + 1] = v[N] + dataruns[N].length
    <3> HIDE DEF v, N
    <3> QED BY <1>2, <1>3, <1>6
  <2> QED BY <1>5, <2>1 DEF Covers, Vcn
<1>8. S \in SUBSET Nat /\ S # {}
  BY <1>7
<1>9. PICK j \in S : \A h \in S : j <= h
  <2> HIDE DEF S
  <2> QED BY <1>8, NatMin
<1>10. j \in 1..N /\ Covers(j, c)
  BY <1>9
<1>11. ASSUME NEW h \in 1..(j - 1) PROVE ~Covers(h, c)
  <2>1. h \in 1..N /\ ~(j <= h)
    BY <1>2, <1>10
  <2>2. h \notin S
    <3> HIDE DEF S
    <3> QED BY <1>9, <2>1
  <2> QED BY <2>1, <2>2
<1> QED BY <1>2, <1>10, <1>11 DEF FirstCovering
-----------------------------------------------------------------------------
(***************************************************************************)
(* The inductive invariant.  In the loop, the sectors read so far are those*)
(* of the record, each from its own place, and none is older than one that *)
(* was read before it; position is the place of the one that is read next. *)
(* A walker without runs never gets to a position.  MftInv is of the runs: *)
(* what is decoded is the attribute of the volume's $MFT.                  *)
(***************************************************************************)
Sector(s) == number * vol.sectorsPerRecord + s - 1
Cell == [at : Int, body : Nat, tail : Int]
Cells == [1..vol.sectorsPerRecord -> Cell]

Arranged(b, m) ==
  \A s \in 1..m :
    /\ Placed(Sector(s)) => b[s].at = Place(Sector(s))
    /\ \A t \in s..m : b[s].body <= b[t].body

MftInv == DecodeInv /\ layout = LayoutOf(vol.runs)

WalkerInv ==
  /\ place \in {"construct", "runs"} =>
       dataruns = <<>> /\ position = NotSet /\ record = NoRecord
  /\ dataruns = <<>> => position = NotSet
  /\ buffer \in {<<>>} \cup Cells

LoopInv ==
  place \in {"locate", "read"} =>
    /\ buffer \in Cells /\ record = NoRecord
    /\ Arranged(buffer, sector)
    /\ \A s \in 1..sector : buffer[s].body <= writes
    /\ place = "read" => /\ sector < vol.sectorsPerRecord /\ position \in Nat
                         /\ Placed(Wanted) => position = Place(Wanted)

RecordInv ==
  /\ record.status = "ok" =>
       /\ record.sectors \in Cells /\ Arranged(record.sectors, vol.sectorsPerRecord)
       /\ \A s \in 1..vol.sectorsPerRecord :
            record.sectors[s].tail = record.sectors[1].body
  /\ NotFoundIsOutside

LookupInv == TypeOK /\ WalkerInv /\ LoopInv /\ RecordInv

LEMMA InitLookup == LookupInit => LookupInv
<1> SUFFICES ASSUME LookupInit PROVE LookupInv
  OBVIOUS
<1>1. vol.sectorsPerRecord \in Nat \ {0}
  BY VolumeFacts DEF LookupInit
<1>2. Len(buffer) = 0
  BY EmptySeq DEF LookupInit
<1>3. MaxWrites \in Nat
  BY LookupAssumption
<1>4. record.status = "none"
  BY DEF LookupInit, NoRecord
<1>5. TypeOK
  BY <1>1, <1>2, <1>3, <1>4 DEF LookupInit, TypeOK
<1>6. WalkerInv
  BY DEF LookupInit, WalkerInv
<1>7. LoopInv
  BY DEF LookupInit, LoopInv
<1>8. RecordInv
  BY <1>4 DEF RecordInv, NotFoundIsOutside
<1> QED BY <1>5, <1>6, <1>7, <1>8 DEF LookupInv

LEMMA LoopFacts ==
  ASSUME LookupInv
  PROVE  /\ vol.sectorsPerCluster \in Nat \ {0} /\ vol.sectorsPerRecord \in Nat \ {0}
         /\ vol.runs \in Seq(Run) /\ number \in Nat /\ sector \in Nat /\ writes \in Nat
         /\ Wanted \in Nat /\ Wanted = Sector(sector + 1)
         /\ \A s \in 1..vol.sectorsPerRecord : Sector(s) \in SectorsOf(number)
<1>1. vol.sectorsPerCluster \in Nat \ {0} /\ vol.sectorsPerRecord \in Nat \ {0}
      /\ vol.runs \in Seq(Run) /\ number \in Nat /\ sector \in Nat /\ writes \in Nat
  <2>1. vol \in Volumes /\ number \in Number /\ sector \in 0..vol.sectorsPerRecord
        /\ writes \in 0..MaxWrites
    BY DEF LookupInv, TypeOK
  <2>2. Number \subseteq Nat /\ MaxWrites \in Nat
    BY LookupAssumption
  <2> QED BY <2>1, <2>2, VolumeFacts
<1> DEFINE x == number * vol.sectorsPerRecord
<1>2. x \in Nat /\ Wanted = x + sector /\ Sector(sector + 1) = x + (sector + 1) - 1
  BY <1>1 DEF Wanted, Sector
<1>3. ASSUME NEW s \in 1..vol.sectorsPerRecord PROVE Sector(s) \in SectorsOf(number)
  <2>1. s - 1 \in 0..(vol.sectorsPerRecord - 1) /\ Sector(s) = x + s - 1
    BY <1>1 DEF Sector
  <2>2. x + s - 1 = x + (s - 1)
    <3> HIDE DEF x
    <3> QED BY <1>1, <1>2
  <2> QED BY <2>1, <2>2 DEF SectorsOf
<1>4. Wanted \in Nat /\ Wanted = Sector(sector + 1)
  <2> HIDE DEF x
  <2> QED BY <1>1, <1>2
<1> QED BY <1>1, <1>3, <1>4

LEMMA ReadMftKeeps == LookupInv /\ ReadMft => LookupInv'
<1> SUFFICES ASSUME LookupInv, ReadMft PROVE LookupInv'
  OBVIOUS
<1>1. UNCHANGED <<vol, dataruns, number, sector, position, buffer, record, writes>>
      /\ place = "construct" /\ place' \in {"runs", "idle"}
      /\ dataruns = <<>> /\ position = NotSet /\ record = NoRecord
  BY DEF ReadMft, Proceed, LookupInv, WalkerInv
<1>2. TypeOK'
  BY <1>1 DEF LookupInv, TypeOK
<1>3. WalkerInv'
  BY <1>1 DEF LookupInv, WalkerInv, Cells
<1>4. LoopInv' /\ RecordInv'
  BY <1>1 DEF LoopInv, RecordInv, NoRecord, NotFoundIsOutside
<1> QED BY <1>2, <1>3, <1>4 DEF LookupInv

(* What has been decoded are the runs of $MFT. *)
LEMMA RunsAreDecoded ==
  ASSUME MftInv, vol \in Volumes, outcome = "ok"
  PROVE  result = vol.runs
<1> DEFINE runs == vol.runs
           n == Len(runs)
<1>1. runs \in Seq(Run) /\ n \in Nat /\ DOMAIN runs = 1..n
      /\ \A j \in 1..n : runs[j].offset \in Nat /\ runs[j].length \in Nat
  BY VolumeFacts, RunFacts
<1>2. layout = [j \in 1..n |-> [length |-> runs[j].length, lcn |-> runs[j].offset]]
  BY <1>1 DEF MftInv, LayoutOf
<1>3. layout \in Layout /\ Len(layout) = n
  <2>1. layout \in Layout
    BY RunsAssumption DEF MftInv, DecodeInv
  <2>2. DOMAIN layout = 1..Len(layout) /\ Len(layout) \in Nat
    BY <2>1, LayoutFacts
  <2>3. DOMAIN layout = 1..n
    BY <1>2
  <2> DEFINE m == Len(layout)
  <2>4. m \in Nat /\ n \in Nat /\ 1..m = 1..n
    BY <1>1, <2>2, <2>3
  <2>5. m = n
    <3> HIDE DEF m, n
    <3> QED BY <2>4
  <2> QED BY <2>1, <2>5
<1>4. /\ result \in Seq([offset : Nat, length : Nat]) /\ Len(result) = n
      /\ \A j \in 1..n : result[j] = Decoded(j)
  BY <1>3 DEF MftInv, DecodeInv, ResultInv
<1>5. \A j \in 1..n : result[j] = [offset |-> runs[j].offset, length |-> runs[j].length]
  <2> SUFFICES ASSUME NEW j \in 1..n
               PROVE  result[j] = [offset |-> runs[j].offset, length |-> runs[j].length]
    OBVIOUS
  <2>1. layout[j].lcn = runs[j].offset /\ layout[j].length = runs[j].length
    BY <1>2
  <2>2. layout[j].lcn # Hole
    BY <1>1, <2>1 DEF Hole
  <2>3. Before(layout, j + 1) = layout[j].lcn
    BY <1>3, <2>2, BeforeFacts
  <2> QED BY <1>4, <2>1, <2>3 DEF Decoded
<1>6. \A j \in 1..n : runs[j] = [offset |-> runs[j].offset, length |-> runs[j].length]
  <2>1. \A j \in 1..n : runs[j] \in Run
    <3> HIDE DEF runs
    <3> QED BY <1>1, ElementOfSeq
  <2> QED BY <2>1 DEF Run
<1>7. DOMAIN result = 1..n /\ result = [j \in 1..n |-> result[j]]
  <2> HIDE DEF n
  <2> QED BY <1>1, <1>4
<1>8. runs = [j \in 1..n |-> runs[j]]
  BY <1>1
<1> HIDE DEF n, runs
<1>9. \A j \in 1..n : result[j] = runs[j]
  BY <1>5, <1>6
<1>10. result = runs
  BY <1>7, <1>8, <1>9
<1> QED BY <1>10 DEF runs

LEMMA ConstructKeeps == LookupInv /\ MftInv /\ Construct => LookupInv'
<1> SUFFICES ASSUME LookupInv, MftInv, Construct PROVE LookupInv'
  OBVIOUS
<1>1. UNCHANGED <<vol, number, sector, position, buffer, record, writes>>
      /\ place = "runs" /\ place' \in {"idle", "gone"}
      /\ dataruns = <<>> /\ position = NotSet /\ record = NoRecord
  BY DEF Construct, Proceed, LookupInv, WalkerInv
<1>2. dataruns' \in {<<>>, vol.runs}
  BY <1>1, RunsAreDecoded DEF Construct, LookupInv, TypeOK
<1>3. TypeOK'
  BY <1>1, <1>2 DEF LookupInv, TypeOK
<1>4. WalkerInv'
  BY <1>1, <1>2 DEF LookupInv, WalkerInv, Cells
<1>5. LoopInv' /\ RecordInv'
  BY <1>1 DEF LoopInv, RecordInv, NoRecord, NotFoundIsOutside
<1> QED BY <1>3, <1>4, <1>5 DEF LookupInv

LEMMA CallKeeps == LookupInv /\ Call => LookupInv'
<1> SUFFICES ASSUME LookupInv, Call PROVE LookupInv'
  OBVIOUS
<1>1. /\ place = "idle" /\ place' = "locate" /\ number' \in Number /\ sector' = 0
      /\ position' = NotSet /\ record' = NoRecord /\ writes' = 0
      /\ buffer' = [s \in 1..vol.sectorsPerRecord |-> Unread]
      /\ UNCHANGED <<vol, dataruns>>
  BY DEF Call, Proceed
<1>2. vol.sectorsPerRecord \in Nat \ {0} /\ MaxWrites \in Nat
  BY LoopFacts, LookupAssumption
<1>3. buffer' \in Cells
  BY <1>1 DEF Cells, Cell, Unread, NotSet
<1>4. Len(buffer') = vol.sectorsPerRecord
  <2>1. buffer' \in Seq(Cell)
    BY <1>2, <1>3, IsASeq DEF Cells
  <2>2. DOMAIN buffer' = 1..vol.sectorsPerRecord
    BY <1>1
  <2> QED BY <1>2, <2>1, <2>2, LenProperties
<1>5. TypeOK'
  <2>1. vol' \in Volumes /\ dataruns' \in {<<>>, vol'.runs} /\ vol' = vol
    BY <1>1 DEF LookupInv, TypeOK
  <2>2. record'.status = "none"
    BY <1>1 DEF NoRecord
  <2>3. sector' \in 0..vol'.sectorsPerRecord /\ writes' \in 0..MaxWrites
    BY <1>1, <1>2, <2>1
  <2> QED BY <1>1, <1>4, <2>1, <2>2, <2>3 DEF TypeOK
<1>6. WalkerInv'
  BY <1>1, <1>3 DEF LookupInv, WalkerInv, Cells
<1>7. LoopInv'
  <2>1. 1..0 = {}
    OBVIOUS
  <2> QED BY <1>1, <1>3, <2>1 DEF LoopInv, Arranged, Cells
<1>8. RecordInv'
  BY <1>1 DEF RecordInv, NoRecord, NotFoundIsOutside
<1> QED BY <1>5, <1>6, <1>7, <1>8 DEF LookupInv
(* A step that leaves the record asked for and the volume alone leaves the *)
(* places of its sectors alone.                                            *)
LEMMA SamePlaces ==
  ASSUME UNCHANGED <<vol, number>>
  PROVE  /\ \A s : Sector(s)' = Sector(s)
         /\ \A n : Placed(n)' = Placed(n) /\ Place(n)' = Place(n)
         /\ Cells' = Cells /\ \A b, m : Arranged(b, m)' = Arranged(b, m)
         /\ Whole(number)' = Whole(number)
<1>1. \A s : Sector(s)' = Sector(s)
  BY DEF Sector
<1>2. \A n : Placed(n)' = Placed(n)
  BY DEF Placed, ClusterOf
<1>3. \A n : Place(n)' = Place(n)
  BY DEF Place, ClusterOf
<1>4. Cells' = Cells
  BY DEF Cells
<1>5. \A b, m : Arranged(b, m)' = Arranged(b, m)
  BY <1>1, <1>2, <1>3 DEF Arranged
<1>6. Whole(number)' = Whole(number)
  BY <1>2 DEF Whole, SectorsOf
<1> QED BY <1>1, <1>2, <1>3, <1>4, <1>5, <1>6

LEMMA LocateKeeps == LookupInv /\ Locate => LookupInv'
<1> SUFFICES ASSUME LookupInv, Locate PROVE LookupInv'
  OBVIOUS
<1>1. /\ place = "locate" /\ sector < vol.sectorsPerRecord
      /\ UNCHANGED <<vol, dataruns, number, sector, buffer, writes>>
  BY DEF Locate
<1>2. /\ Wanted' = Wanted /\ Wanted \in Nat /\ sector \in Nat /\ writes \in Nat
      /\ sector + 1 \in 1..vol.sectorsPerRecord
      /\ Wanted \in SectorsOf(number)
  BY <1>1, LoopFacts DEF Wanted
<1>3. vol \in Volumes /\ record = NoRecord /\ dataruns \in {<<>>, vol.runs}
      /\ buffer \in Cells /\ Arranged(buffer, sector)
      /\ \A s \in 1..sector : buffer[s].body <= writes
      /\ (dataruns = <<>> => position = NotSet)
  BY <1>1 DEF LookupInv, TypeOK, WalkerInv, LoopInv
<1>4. Placed(Wanted)' = Placed(Wanted) /\ Place(Wanted)' = Place(Wanted)
  BY <1>1, <1>2 DEF Placed, Place, ClusterOf
<1>5. CASE \E j \in DOMAIN dataruns :
             Found(j) /\ position' = Position(Wanted, j) /\ place' = "read" /\ UNCHANGED record
  <2>1. PICK j \in DOMAIN dataruns :
          Found(j) /\ position' = Position(Wanted, j) /\ place' = "read" /\ UNCHANGED record
    BY <1>5
  <2>2. dataruns = vol.runs /\ dataruns # <<>>
    BY <1>3, <2>1
  <2>3. position' = Place(Wanted) /\ position' \in Nat
    BY <1>2, <1>3, <2>1, <2>2, PositionIsPlace DEF Found
  <2>4. TypeOK'
    BY <1>1, <1>3, <2>1, <2>3 DEF LookupInv, TypeOK
  <2>5. WalkerInv'
    BY <1>1, <1>3, <2>1, <2>2, SamePlaces DEF LookupInv, WalkerInv
  <2>6. LoopInv'
    BY <1>1, <1>3, <1>4, <2>1, <2>3, SamePlaces DEF LoopInv
  <2>7. RecordInv'
    BY <1>3, <2>1 DEF RecordInv, NoRecord, NotFoundIsOutside
  <2> QED BY <2>4, <2>5, <2>6, <2>7 DEF LookupInv
<1>6. CASE /\ \A j \in DOMAIN dataruns : ~Found(j)
           /\ position = NotSet /\ record' = Failed("not found") /\ place' = "idle"
           /\ UNCHANGED position
  <2>1. dataruns = <<>> \/ ~Placed(Wanted)
    BY <1>2, <1>3, <1>6, PlacedIsFound DEF Found
  <2>2. dataruns = <<>> \/ ~Whole(number)
    BY <1>2, <2>1 DEF Whole
  <2>3. record'.status = "not found"
    BY <1>6 DEF Failed
  <2>4. TypeOK'
    BY <1>1, <1>6, <2>3 DEF LookupInv, TypeOK
  <2>5. WalkerInv'
    BY <1>1, <1>3, <1>6, SamePlaces DEF LookupInv, WalkerInv
  <2>6. LoopInv'
    BY <1>6 DEF LoopInv
  <2>7. RecordInv'
    BY <1>1, <2>2, <2>3, SamePlaces DEF RecordInv, NotFoundIsOutside
  <2> QED BY <2>4, <2>5, <2>6, <2>7 DEF LookupInv
<1>7. CASE /\ \A j \in DOMAIN dataruns : ~Found(j)
           /\ position # NotSet /\ place' = "read" /\ UNCHANGED <<record, position>>
  <2>1. dataruns = vol.runs
    <3>1. position # NotSet
      BY <1>7
    <3>2. dataruns # <<>>
      BY <3>1 DEF LookupInv, WalkerInv
    <3> QED BY <1>3, <3>2
  <2>2. ~Placed(Wanted)
    BY <1>2, <1>3, <1>7, <2>1, PlacedIsFound DEF Found
  <2>3. position' \in Nat
    BY <1>7 DEF LookupInv, TypeOK
  <2>4. TypeOK'
    BY <1>1, <1>7 DEF LookupInv, TypeOK
  <2>5. WalkerInv'
    BY <1>1, <1>3, <1>7, SamePlaces DEF LookupInv, WalkerInv
  <2>6. LoopInv'
    BY <1>1, <1>3, <1>4, <1>7, <2>2, <2>3, SamePlaces DEF LoopInv
  <2>7. RecordInv'
    BY <1>3, <1>7 DEF RecordInv, NoRecord, NotFoundIsOutside
  <2> QED BY <2>4, <2>5, <2>6, <2>7 DEF LookupInv
<1> QED BY <1>5, <1>6, <1>7 DEF Locate, Proceed

LEMMA ReadKeeps == LookupInv /\ Read => LookupInv'
<1> SUFFICES ASSUME LookupInv, Read PROVE LookupInv'
  OBVIOUS
<1> DEFINE spr == vol.sectorsPerRecord
<1>1. /\ place = "read" /\ place' = "locate" /\ sector' = sector + 1
      /\ buffer' = [buffer EXCEPT ![sector + 1] = OnDisk(position)]
      /\ UNCHANGED <<vol, dataruns, number, position, record, writes>>
  BY DEF Read, Proceed
<1>2. /\ record = NoRecord /\ buffer \in Cells /\ Arranged(buffer, sector)
      /\ \A s \in 1..sector : buffer[s].body <= writes
      /\ sector < spr /\ position \in Nat /\ (Placed(Wanted) => position = Place(Wanted))
  BY <1>1 DEF LookupInv, LoopInv
<1>3. spr \in Nat \ {0} /\ sector \in Nat /\ writes \in Nat /\ Wanted = Sector(sector + 1)
      /\ sector + 1 \in 1..spr
  BY <1>2, LoopFacts
<1>4. OnDisk(position) \in Cell /\ OnDisk(position).at = position /\ OnDisk(position).body = writes
  BY <1>2, <1>3 DEF OnDisk, Cell, NotSet
<1>5. buffer' \in Cells
  BY <1>1, <1>2, <1>4 DEF Cells
<1>6. buffer'[sector + 1] = OnDisk(position) /\ \A s \in 1..sector : buffer'[s] = buffer[s]
  <2>1. \A s \in 1..sector : s \in 1..spr /\ s # sector + 1
    BY <1>2, <1>3
  <2> QED BY <1>1, <1>2, <1>3, <2>1 DEF Cells
<1>7. ASSUME NEW s \in 1..(sector + 1)
      PROVE  /\ Placed(Sector(s)) => buffer'[s].at = Place(Sector(s))
             /\ buffer'[s].body <= writes
             /\ \A t \in s..(sector + 1) : buffer'[s].body <= buffer'[t].body
  <2>1. CASE s = sector + 1
    <3>1. \A t \in s..(sector + 1) : t = s
      BY <1>3, <2>1
    <3>2. buffer'[s].body = writes /\ buffer'[s].at = position
      BY <1>4, <1>6, <2>1
    <3> QED BY <1>2, <1>3, <2>1, <3>1, <3>2
  <2>2. CASE s # sector + 1
    <3>1. s \in 1..sector
      BY <1>3, <2>2
    <3>2. buffer'[s] = buffer[s] /\ buffer[s].body <= writes
          /\ (Placed(Sector(s)) => buffer[s].at = Place(Sector(s)))
          /\ \A t \in s..sector : buffer[s].body <= buffer[t].body
      BY <1>2, <1>6, <3>1 DEF Arranged
    <3>3. ASSUME NEW t \in s..(sector + 1) PROVE buffer'[s].body <= buffer'[t].body
      <4>1. CASE t = sector + 1
        BY <1>4, <1>6, <3>2, <4>1
      <4>2. CASE t # sector + 1
        <5>1. t \in 1..sector /\ t \in s..sector
          BY <1>3, <3>1, <4>2
        <5> QED BY <1>6, <3>2, <5>1
      <4> QED BY <4>1, <4>2
    <3> QED BY <3>2, <3>3
  <2> QED BY <2>1, <2>2
<1>8. Len(buffer') = spr
  <2>1. buffer' \in Seq(Cell) /\ DOMAIN buffer' = 1..spr
    BY <1>3, <1>5, IsASeq DEF Cells
  <2> QED BY <1>3, <2>1, LenProperties
<1>9. TypeOK'
  <2>1. sector' \in 0..vol'.sectorsPerRecord
    BY <1>1, <1>3
  <2> QED BY <1>1, <1>8, <2>1 DEF LookupInv, TypeOK
<1>10. WalkerInv'
  BY <1>1, <1>5, SamePlaces DEF LookupInv, WalkerInv
<1>11. LoopInv'
  <2>1. Arranged(buffer', sector')
    BY <1>1, <1>7 DEF Arranged
  <2>2. Arranged(buffer, sector)'
    BY <1>1, <2>1, SamePlaces
  <2> QED BY <1>1, <1>2, <1>5, <1>7, <2>2, SamePlaces DEF LoopInv
<1>12. RecordInv'
  BY <1>1, <1>2 DEF RecordInv, NoRecord, NotFoundIsOutside
<1> QED BY <1>9, <1>10, <1>11, <1>12 DEF LookupInv

LEMMA ReadFailsKeeps == LookupInv /\ ReadFails => LookupInv'
<1> SUFFICES ASSUME LookupInv, ReadFails PROVE LookupInv'
  OBVIOUS
<1>1. /\ place = "read" /\ place' = "idle" /\ record' = Failed("read error")
      /\ UNCHANGED <<vol, dataruns, number, sector, position, buffer, writes>>
  BY DEF ReadFails, Proceed
<1>2. record'.status = "read error"
  BY <1>1 DEF Failed
<1>3. TypeOK'
  BY <1>1, <1>2 DEF LookupInv, TypeOK
<1>4. WalkerInv'
  BY <1>1, SamePlaces DEF LookupInv, WalkerInv
<1>5. LoopInv' /\ RecordInv'
  BY <1>1, <1>2 DEF LoopInv, RecordInv, NotFoundIsOutside
<1> QED BY <1>3, <1>4, <1>5 DEF LookupInv

LEMMA BuildKeeps == LookupInv /\ Build => LookupInv'
<1> SUFFICES ASSUME LookupInv, Build PROVE LookupInv'
  OBVIOUS
<1> DEFINE spr == vol.sectorsPerRecord
           fixed == FixedUp(buffer)
<1>1. /\ place = "locate" /\ place' = "idle" /\ sector = spr
      /\ record' = [status |-> "ok", offset |-> position - 1, sectors |-> fixed]
      /\ UNCHANGED <<vol, dataruns, number, sector, position, buffer, writes>>
  BY DEF Build, Proceed
<1>2. buffer \in Cells /\ Arranged(buffer, spr)
  BY <1>1 DEF LookupInv, LoopInv
<1>3. spr \in Nat \ {0} /\ 1 \in 1..spr
  BY LoopFacts
<1>4. \A s \in 1..spr : /\ fixed[s] = [buffer[s] EXCEPT !.tail = buffer[1].body]
                        /\ fixed[s] \in Cell
                        /\ fixed[s].at = buffer[s].at /\ fixed[s].body = buffer[s].body
                        /\ fixed[s].tail = buffer[1].body
  <2> SUFFICES ASSUME NEW s \in 1..spr
               PROVE  /\ fixed[s] = [buffer[s] EXCEPT !.tail = buffer[1].body]
                      /\ fixed[s] \in Cell
                      /\ fixed[s].at = buffer[s].at /\ fixed[s].body = buffer[s].body
                      /\ fixed[s].tail = buffer[1].body
    OBVIOUS
  <2>1. s < UpdateSize
    BY <1>3 DEF UpdateSize
  <2>2. fixed[s] = [buffer[s] EXCEPT !.tail = buffer[1].body]
    BY <1>2, <2>1 DEF FixedUp, Cells
  <2>3. buffer[s] \in Cell /\ buffer[1] \in Cell
    BY <1>2, <1>3 DEF Cells
  <2> QED BY <2>2, <2>3 DEF Cell
<1>5. fixed \in Cells
  <2>1. DOMAIN fixed = 1..spr
    BY <1>2 DEF FixedUp, Cells
  <2>2. fixed = [s \in 1..spr |-> fixed[s]]
    BY <2>1 DEF FixedUp
  <2> HIDE DEF fixed
  <2> QED BY <1>4, <2>2 DEF Cells
<1>6. Arranged(fixed, spr)
  <2> SUFFICES ASSUME NEW s \in 1..spr
               PROVE  /\ Placed(Sector(s)) => fixed[s].at = Place(Sector(s))
                      /\ \A t \in s..spr : fixed[s].body <= fixed[t].body
    BY DEF Arranged
  <2>1. \A t \in s..spr : t \in 1..spr
    BY <1>3
  <2> HIDE DEF fixed
  <2> QED BY <1>2, <1>4, <2>1 DEF Arranged
<1>7. \A s \in 1..spr : fixed[s].tail = fixed[1].body
  <2> HIDE DEF fixed
  <2> QED BY <1>3, <1>4
<1>8. record'.status = "ok" /\ record'.sectors = fixed
  BY <1>1
<1>9. TypeOK'
  BY <1>1, <1>8 DEF LookupInv, TypeOK
<1>10. WalkerInv'
  BY <1>1, SamePlaces DEF LookupInv, WalkerInv
<1>11. LoopInv'
  BY <1>1 DEF LoopInv
<1>12. RecordInv'
  <2> HIDE DEF fixed
  <2>1. (record.sectors \in Cells)' /\ Arranged(record.sectors, vol.sectorsPerRecord)'
    BY <1>1, <1>5, <1>6, <1>8, SamePlaces
  <2> QED BY <1>1, <1>7, <1>8, <2>1 DEF RecordInv, NotFoundIsOutside
<1> QED BY <1>9, <1>10, <1>11, <1>12 DEF LookupInv

LEMMA NtfsWritesKeeps == LookupInv /\ NtfsWrites => LookupInv'
<1> SUFFICES ASSUME LookupInv, NtfsWrites PROVE LookupInv'
  OBVIOUS
<1>1. /\ place \in {"locate", "read"} /\ writes < MaxWrites /\ writes' = writes + 1
      /\ UNCHANGED <<vol, dataruns, place, number, sector, position, buffer, record>>
  BY DEF NtfsWrites
<1>2. writes \in Nat /\ sector \in Nat /\ MaxWrites \in Nat
  BY LoopFacts, LookupAssumption
<1>3. TypeOK'
  <2>1. writes' \in 0..MaxWrites
    BY <1>1, <1>2
  <2> QED BY <1>1, <2>1 DEF LookupInv, TypeOK
<1>4. WalkerInv'
  BY <1>1, SamePlaces DEF LookupInv, WalkerInv
<1>5. LoopInv'
  <2>1. \A s \in 1..sector : buffer[s].body \in Nat /\ buffer[s].body <= writes
    <3>1. \A s \in 1..sector : s \in 1..vol.sectorsPerRecord
      <4>1. sector \in 0..vol.sectorsPerRecord
        BY DEF LookupInv, TypeOK
      <4> QED BY <4>1, LoopFacts
    <3>2. buffer \in Cells /\ \A s \in 1..sector : buffer[s].body <= writes
      BY <1>1 DEF LookupInv, LoopInv
    <3>3. \A s \in 1..vol.sectorsPerRecord : buffer[s].body \in Nat
      BY <3>2 DEF Cells, Cell
    <3> QED BY <3>1, <3>2, <3>3
  <2>2. \A s \in 1..sector : buffer[s].body <= writes'
    BY <1>1, <1>2, <2>1
  <2>3. Wanted' = Wanted
    BY <1>1 DEF Wanted
  <2> QED BY <1>1, <2>2, <2>3, SamePlaces DEF LookupInv, LoopInv
<1>6. RecordInv'
  BY <1>1, SamePlaces DEF LookupInv, RecordInv, LoopInv, NoRecord, NotFoundIsOutside
<1> QED BY <1>3, <1>4, <1>5, <1>6 DEF LookupInv

LEMMA WalkerUnchanged == LookupInv /\ UNCHANGED walker => LookupInv'
<1> SUFFICES ASSUME LookupInv, UNCHANGED walker PROVE LookupInv'
  OBVIOUS
<1>1. UNCHANGED <<vol, dataruns, place, number, sector, position, buffer, record, writes>>
  BY DEF walker
<1>2. Wanted' = Wanted
  BY <1>1 DEF Wanted
<1>3. TypeOK' /\ WalkerInv'
  BY <1>1, SamePlaces DEF LookupInv, TypeOK, WalkerInv
<1>4. LoopInv'
  BY <1>1, <1>2, SamePlaces DEF LookupInv, LoopInv
<1>5. RecordInv'
  BY <1>1, SamePlaces DEF LookupInv, RecordInv, NotFoundIsOutside
<1> QED BY <1>3, <1>4, <1>5 DEF LookupInv

(* No step but those of ReadRuns touches the decoder, and none the volume. *)
LEMMA MftKeeps == MftInv /\ [LookupNext]_lookupVars => MftInv'
<1> SUFFICES ASSUME MftInv, [LookupNext]_lookupVars PROVE MftInv'
  OBVIOUS
<1>1. vol' = vol
  BY DEF LookupNext, lookupVars, walker, ReadMft, ReadRuns, Construct, Call, Locate, Read,
         ReadFails, Build, NtfsWrites
<1>2. UNCHANGED vars \/ Decode
  BY DEF LookupNext, lookupVars, ReadMft, ReadRuns, Construct, Call, Locate, Read,
         ReadFails, Build, NtfsWrites, Proceed
<1>3. DecodeInv'
  BY <1>2, DecodeKeeps, StutterStep DEF MftInv
<1>4. layout' = layout
  <2>1. UNCHANGED input
    BY <1>2 DEF vars, Decode, Check, ReadHeader, ReadLength, LengthDone, ReadOffset,
                OffsetDone, Push, Finish
  <2> QED BY <2>1 DEF input
<1> QED BY <1>1, <1>3, <1>4 DEF MftInv, LayoutOf

LEMMA LookupStep == LookupInv /\ MftInv /\ [LookupNext]_lookupVars => LookupInv'
<1> SUFFICES ASSUME LookupInv, MftInv, [LookupNext]_lookupVars PROVE LookupInv'
  OBVIOUS
<1>1. CASE UNCHANGED walker
  BY <1>1, WalkerUnchanged
<1>2. CASE LookupNext /\ ~UNCHANGED walker
  <2>1. ~ReadRuns /\ ~UNCHANGED lookupVars
    BY <1>2 DEF ReadRuns, lookupVars
  <2> QED BY <1>2, <2>1, ReadMftKeeps, ConstructKeeps, CallKeeps, LocateKeeps, ReadKeeps,
             ReadFailsKeeps, BuildKeeps, NtfsWritesKeeps DEF LookupNext
<1> QED BY <1>1, <1>2 DEF lookupVars

LEMMA LookupAlways == LookupSpec => [](LookupInv /\ MftInv)
<1>1. LookupInit => LookupInv /\ MftInv
  BY InitLookup, InitDecode DEF LookupInit, MftInv
<1> QED BY <1>1, LookupStep, MftKeeps, PTL DEF LookupSpec

-----------------------------------------------------------------------------
(***************************************************************************)
(* The walker and its loop are well typed: offsets are positions, or what  *)
(* uint64_t offset = -1LL stands for, and no sector beyond the record's is *)
(* looked up (mt_ntfs_mft_walker.cpp:153).                                 *)
(***************************************************************************)
THEOREM LookupTypeOK == LookupSpec => []TypeOK
<1>1. LookupInv => TypeOK
  BY DEF LookupInv
<1> QED BY <1>1, LookupAlways, PTL

(***************************************************************************)
(* "Record not found" is never said of a record that lies in the runs, if  *)
(* the walker has them (mt_ntfs_mft_walker.cpp:167).                       *)
(***************************************************************************)
THEOREM NotFoundAlwaysOutside == LookupSpec => []NotFoundIsOutside
<1>1. LookupInv => NotFoundIsOutside
  BY DEF LookupInv, RecordInv
<1> QED BY <1>1, LookupAlways, PTL

(***************************************************************************)
(* Whatever the sizes of clusters and records and wherever $MFT lies, a    *)
(* record that is not written during the call is returned whole, with its  *)
(* fixups undone (mt_ntfs_mft_walker.cpp:148-196).                         *)
(***************************************************************************)
THEOREM QuietRecordAlwaysExact == LookupSpec => []QuietRecordIsExact
<1>1. LookupInv => QuietRecordIsExact
  <2> DEFINE spr == vol.sectorsPerRecord
             b == record.sectors
  <2> SUFFICES ASSUME LookupInv, record.status = "ok", Whole(number),
                      b[1].body = b[spr].body, NEW s \in 1..spr
               PROVE  b[s] = [at |-> Place(number * spr + s - 1),
                              body |-> b[1].body, tail |-> b[1].body]
    BY DEF QuietRecordIsExact
  <2>1. spr \in Nat \ {0} /\ Placed(Sector(s))
    BY LoopFacts DEF Whole
  <2>2. b \in Cells /\ Arranged(b, spr) /\ b[s].tail = b[1].body
    BY DEF LookupInv, RecordInv
  <2>3. 1 \in 1..spr /\ spr \in 1..spr /\ s \in 1..spr /\ s \in Int /\ spr \in s..spr
    BY <2>1
  <2>4. b[s] \in Cell /\ b[1] \in Cell /\ b[spr] \in Cell
    BY <2>2, <2>3 DEF Cells
  <2>5. b[1].body <= b[s].body /\ b[s].body <= b[spr].body
    BY <2>2, <2>3 DEF Arranged
  <2>6. b[s].body = b[1].body
    BY <2>4, <2>5 DEF Cell
  <2>7. b[s].at = Place(Sector(s))
    BY <2>1, <2>2 DEF Arranged
  <2>8. b[s] = [at |-> b[s].at, body |-> b[s].body, tail |-> b[s].tail]
    BY <2>4 DEF Cell
  <2> QED BY <2>2, <2>6, <2>7, <2>8 DEF Sector
<1> QED BY <1>1, LookupAlways, PTL
=============================================================================
