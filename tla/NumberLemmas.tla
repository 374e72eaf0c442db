---------------------------- MODULE NumberLemmas ----------------------------
(***************************************************************************)
(* Facts about numbers that the proofs about ternary entries and time      *)
(* stamps rest on: least and greatest elements, quotient and remainder,    *)
(* powers of two.                                                          *)
(***************************************************************************)
EXTENDS Integers, TLAPS, WellFoundedInduction

\* The order of the natural numbers is well-founded.
LEMMA LessThanWellFounded ==
    IsWellFoundedOn({ss \in Nat \X Nat : ss[1] < ss[2]}, Nat)
BY NatLessThanWellFounded DEF OpToRel

\* A set of natural numbers that is not empty has a least element: this is the
\* form in which induction is used below.
LEMMA LeastElement ==
    ASSUME NEW S \in SUBSET Nat, S # {}
    PROVE  \E m \in S : \A k \in S : m <= k
<1> DEFINE R == {ss \in Nat \X Nat : ss[1] < ss[2]}
<1>1. IsWellFoundedOn(R, Nat)
  BY LessThanWellFounded
<1>2. \A x, y \in Nat : y < x => <<y, x>> \in R
  OBVIOUS
<1> HIDE DEF R
<1>3. \E x \in S : \A y \in S : ~(<<y, x>> \in R)
  BY <1>1, WFMin
<1>4. PICK x \in S : \A y \in S : ~(<<y, x>> \in R)
  BY <1>3
<1>5. ASSUME NEW k \in S PROVE x <= k
  <2>1. ~(<<k, x>> \in R)
    BY <1>4
  <2>2. x \in Nat /\ k \in Nat
    OBVIOUS
  <2>3. ~(k < x)
    BY <2>1, <2>2, <1>2
  <2> QED BY <2>2, <2>3
<1> QED BY <1>5

\* A bounded one has a greatest element.
LEMMA GreatestElement ==
    ASSUME NEW S \in SUBSET Nat, S # {}, NEW B \in Nat, \A k \in S : k <= B
    PROVE  \E m \in S : \A k \in S : k <= m
<1> DEFINE T == {n \in Nat : \E k \in S : n = B - k}
<1>1. T # {} /\ T \in SUBSET Nat
  <2>1. PICK k \in S : TRUE
    OBVIOUS
  <2>2. B - k \in T
    BY <2>1
  <2> QED BY <2>2
<1>2. PICK n \in T : \A j \in T : n <= j
  <2> HIDE DEF T
  <2> QED BY <1>1, LeastElement
<1>3. PICK m \in S : n = B - m
  BY <1>2
<1>4. ASSUME NEW k \in S PROVE k <= m
  <2>1. B - k \in T
    OBVIOUS
  <2>2. n <= B - k
    BY <2>1, <1>2
  <2>3. k \in Nat /\ m \in Nat
    OBVIOUS
  <2> QED BY <2>2, <2>3, <1>3
<1> QED BY <1>4

\* Quotient and remainder of an integer.
LEMMA DivMod ==
    ASSUME NEW a \in Int, NEW b \in Nat \ {0}
    PROVE  /\ (a \div b) \in Int
           /\ (a % b) \in 0 .. (b - 1)
           /\ a = b * (a \div b) + (a % b)
OBVIOUS

\* The same for a natural number, in the form most proofs need.
LEMMA Quotient ==
    ASSUME NEW a \in Nat, NEW b \in Nat \ {0}
    PROVE  \E q \in Nat, r \in 0 .. (b - 1) : a = b * q + r /\ (a % b) = r
<1>1. a \in Int
  OBVIOUS
<1>2. PICK q \in Int, r \in 0 .. (b - 1) : a = b * q + r /\ (a % b) = r
  BY <1>1, DivMod
<1>3. q >= 0
  <2>1. SUFFICES ASSUME q <= -1 PROVE FALSE
    BY <1>2
  <2>2. b * q <= -b
    BY <2>1, <1>2
  <2> QED BY <2>2, <1>2
<1> QED BY <1>2, <1>3

\* There is only one way to write a number as a multiple and a remainder.
LEMMA DivModUnique ==
    ASSUME NEW b \in Nat \ {0}, NEW q \in Int, NEW r \in 0 .. (b - 1),
           NEW a \in Int, a = b * q + r
    PROVE  (a \div b) = q /\ (a % b) = r
OBVIOUS

\* The numbers with one quotient are a block of as many as the divisor says.
LEMMA QuotientIs ==
    ASSUME NEW s \in Nat \ {0}, NEW h \in Nat, NEW v \in Nat
    PROVE  (v \div s) = h <=> s * h <= v /\ v < s * h + s
<1>1. PICK q \in Int, r \in 0 .. (s - 1) : v = s * q + r /\ (v \div s) = q
  <2>1. v \in Int
    OBVIOUS
  <2>2. (v \div s) \in Int /\ (v % s) \in 0 .. (s - 1) /\ v = s * (v \div s) + (v % s)
    BY <2>1, DivMod, SMTT(30)
  <2> QED BY <2>2
<1>2. ASSUME s * h <= v, v < s * h + s PROVE q = h
  <2>1. PICK c \in Nat : c = s * h
    OBVIOUS
  <2>2. v - c \in 0 .. (s - 1) /\ v = s * h + (v - c) /\ v \in Int /\ h \in Int
    BY <1>2, <2>1
  <2>3. (v \div s) = h
    BY <2>2, DivModUnique
  <2> QED BY <1>1, <2>3
<1>3. ASSUME q = h PROVE s * h <= v /\ v < s * h + s
  <2>1. PICK c \in Nat : c = s * h /\ v = c + r
    BY <1>1, <1>3
  <2> QED BY <2>1
<1> QED BY <1>1, <1>2, <1>3

\* Powers of two, given by their recursion: all of them are positive.
LEMMA PowersPositive ==
    ASSUME NEW N \in Nat, NEW P \in [0..N -> Nat], P[0] = 1,
           \A i \in 0..(N-1) : P[i+1] = 2 * P[i]
    PROVE  \A i \in 0..N : P[i] >= 1
<1> DEFINE S == {i \in Nat : i <= N /\ ~(P[i] >= 1)}
<1>1. SUFFICES ASSUME S # {} PROVE FALSE
  OBVIOUS
<1>2. PICK m \in S : \A k \in S : m <= k
  <2>1. S \in SUBSET Nat
    OBVIOUS
  <2> HIDE DEF S
  <2> QED BY <1>1, <2>1, LeastElement
<1>3. m # 0
  BY <1>2
<1>4. m - 1 \in 0..(N-1) /\ ~(m - 1 \in S)
  BY <1>2, <1>3
<1>5. P[m-1] >= 1 /\ P[m-1] \in Nat
  BY <1>4
<1>6. P[(m-1)+1] = 2 * P[m-1]
  BY <1>4
<1>7. (m-1)+1 = m
  BY <1>2
<1>8. P[m] >= 1
  BY <1>5, <1>6, <1>7
<1> QED BY <1>8, <1>2

\* The smaller of two powers divides the larger one.
LEMMA PowerDivides ==
    ASSUME NEW N \in Nat, NEW P \in [0..N -> Nat], P[0] = 1,
           \A i \in 0..(N-1) : P[i+1] = 2 * P[i],
           NEW a \in 0..N, NEW c \in a..N
    PROVE  \E m \in Nat : m >= 1 /\ P[c] = P[a] * m
<1> DEFINE Q(b) == \E m \in Nat : m >= 1 /\ P[b] = P[a] * m
           S == {b \in a..N : ~Q(b)}
<1>1. ASSUME S # {} PROVE FALSE
  <2>1. PICK b \in S : \A k \in S : b <= k
    <3>1. S \in SUBSET Nat
      OBVIOUS
    <3> HIDE DEF S
    <3> QED BY <1>1, <3>1, LeastElement
  <2>2. b # a
    <3>1. P[a] = P[a] * 1
      OBVIOUS
    <3> QED BY <2>1, <3>1
  <2>3. b - 1 \in a..N /\ b - 1 \in 0..(N-1) /\ ~(b - 1 \in S)
    <3> HIDE DEF Q
    <3> QED BY <2>1, <2>2
  <2>4. PICK m \in Nat : m >= 1 /\ P[b-1] = P[a] * m
    BY <2>3
  <2>5. P[(b-1)+1] = 2 * P[b-1] /\ (b-1)+1 = b
    BY <2>1, <2>3
  <2>6. P[b] = P[a] * (2 * m) /\ 2 * m \in Nat /\ 2 * m >= 1
    BY <2>4, <2>5
  <2> QED BY <2>1, <2>6
<1>2. Q(c)
  <2> HIDE DEF Q
  <2> QED BY <1>1
<1> QED BY <1>2

\* Clearing one bit more takes the weight of that bit away if it is set.
LEMMA RemainderOfDouble ==
    ASSUME NEW v \in Nat, NEW p \in Nat \ {0}
    PROVE  (v % p) = IF (v % (2 * p)) >= p THEN (v % (2 * p)) - p ELSE (v % (2 * p))
<1>1. 2 * p \in Nat \ {0} /\ v \in Int
  OBVIOUS
<1>2. PICK q \in Int, r \in 0 .. (2 * p - 1) : v = (2 * p) * q + r /\ (v % (2 * p)) = r
  BY <1>1, DivMod
<1>3. CASE r >= p
  <2>1. v = p * (2 * q + 1) + (r - p) /\ r - p \in 0 .. (p - 1) /\ 2 * q + 1 \in Int
    BY <1>2, <1>3
  <2>2. PICK q2 \in Int, r2 \in 0 .. (p - 1) :
            v = p * q2 + r2 /\ q2 = 2 * q + 1 /\ r2 = r - p
    BY <2>1
  <2>3. (v % p) = r2
    BY <1>1, <2>2, DivModUnique
  <2> QED BY <1>2, <1>3, <2>2, <2>3
<1>4. CASE ~(r >= p)
  <2>1. v = p * (2 * q) + r /\ r \in 0 .. (p - 1) /\ 2 * q \in Int
    BY <1>2, <1>4
  <2>2. PICK q2 \in Int : v = p * q2 + r /\ q2 = 2 * q
    BY <2>1
  <2>3. (v % p) = r
    BY <1>1, <2>1, <2>2, DivModUnique
  <2> QED BY <1>2, <1>4, <2>3
<1> QED BY <1>3, <1>4

\* Two multiples of a number are the same or at least that number apart.
LEMMA MultiplesApart ==
    ASSUME NEW p \in Nat \ {0}, NEW x \in Int, NEW y \in Int, p * x < p * y
    PROVE  p * x + p <= p * y
<1>1. x < y
  OBVIOUS
<1>2. y = x + 1 + (y - x - 1) /\ y - x - 1 \in Nat
  BY <1>1
<1>3. p * y = p * x + p + p * (y - x - 1)
  BY <1>2
<1>4. p * (y - x - 1) \in Nat
  BY <1>2
<1> QED BY <1>3, <1>4

\* A number of the range of a clock is its own remainder.
LEMMA ModSmall ==
    ASSUME NEW c \in Nat \ {0}, NEW a \in 0 .. (c - 1)
    PROVE  (a % c) = a
OBVIOUS

\* Time stamps of a wrapping clock may be reduced before they are added.
LEMMA ModAdd ==
    ASSUME NEW c \in Nat \ {0}, NEW a \in Int, NEW b \in Int
    PROVE  (((a % c) + b) % c) = ((a + b) % c)
<1>1. PICK q \in Int, r \in 0 .. (c - 1) : a = c * q + r /\ (a % c) = r
  BY DivMod
<1>2. r + b \in Int /\ a + b \in Int
  OBVIOUS
<1>3. PICK q2 \in Int, r2 \in 0 .. (c - 1) : r + b = c * q2 + r2 /\ ((r + b) % c) = r2
  BY <1>2, DivMod
<1>4. PICK q3 \in Int, s \in Int : s = c * q3 + r2 /\ s = a + b
  <2>1. a + b = c * (q + q2) + r2 /\ q + q2 \in Int
    BY <1>1, <1>3
  <2> QED BY <1>2, <2>1
<1>5. (s % c) = r2
  BY <1>4, DivModUnique
<1> QED BY <1>1, <1>3, <1>4, <1>5
=============================================================================
