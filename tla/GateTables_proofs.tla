-------------------------- MODULE GateTables_proofs --------------------------
(***************************************************************************)
(* The conversion of a tGCL to the two tables that answer to its control   *)
(* packets, for every tGCL and every width of words and time stamps.       *)
(*                                                                         *)
(* Range splitting: the block the loop picks is aligned and fits, so that  *)
(* its entry matches the values from cur to cur + size - 1; and it is a    *)
(* largest block of the range, since a larger one would contain an entry   *)
(* below cur.                                                              *)
(*                                                                         *)
(* The table of the period: ExceededSoFar says what its entries match when *)
(* the bits from i upwards have been handled; with i = 0 it is the claim.  *)
(*                                                                         *)
(* Guard bands: after k iterations the slices are the first k ones, each   *)
(* Moved to where the guard bands before it end, and its Band.             *)
(*                                                                         *)
(* The composition: the table has the rows of the slices converted so far, *)
(* which are the largest blocks of each (TablesIInv).                      *)
(*                                                                         *)
(* The evaluation program: the first block of what is left of a range is a *)
(* largest one and the others are those of what is left behind it, so that *)
(* the optimized count from a value on is that of the largest blocks.      *)
(***************************************************************************)
EXTENDS TernaryEvaluation, NumberLemmas, FiniteSetTheorems, FunctionTheorems

LEMMA Pow2Positive == \A h \in 0..W : Pow2[h] \in Nat \ {0}
<1>1. \A h \in 0..W : Pow2[h] >= 1
  BY WordAssumption, PowersPositive
<1> QED BY <1>1, WordAssumption

LEMMA BlocksPositive == Blocks \in SUBSET (Nat \ {0}) /\ 1 \in Blocks /\ Word \in SUBSET Nat
<1>1. \A h \in 0..(W-1) : h \in 0..W /\ Pow2[h] \in Nat \ {0}
  BY Pow2Positive, WordAssumption
<1>2. 0 \in 0..(W-1)
  BY WordAssumption
<1> QED BY <1>1, <1>2, WordAssumption DEF Blocks, Word

LEMMA WordsBelow ==
    ASSUME NEW y \in Word, NEW x \in Nat, NEW z \in Int, x <= z, z <= y
    PROVE  x \in Word /\ z \in Word
<1>1. W \in 0..W /\ Pow2[W] \in Nat
  BY Pow2Positive, WordAssumption
<1>2. PICK p \in Nat : p = Pow2[W] /\ Word = 0..(p - 1)
  BY <1>1 DEF Word
<1>3. y \in 0..(p - 1)
  BY <1>2
<1>4. x \in 0..(p - 1) /\ z \in 0..(p - 1)
  BY <1>3
<1> QED BY <1>2, <1>4

\* The choice of the largest element of a bounded set finds one.
LEMMA LargestIsThere ==
    ASSUME NEW S \in SUBSET Nat, S # {}, NEW B \in Nat, \A h \in S : h <= B
    PROVE  Largest(S) \in S
<1>1. \E m \in S : \A h \in S : h <= m
  BY GreatestElement
<1> QED BY <1>1 DEF Largest

LEMMA LargestIsLargest ==
    ASSUME NEW S \in SUBSET Nat, NEW B \in Nat, \A h \in S : h <= B, NEW p \in S
    PROVE  p <= Largest(S)
<1>1. \E m \in S : \A h \in S : h <= m
  BY GreatestElement
<1> QED BY <1>1 DEF Largest

\* 1 << (31 - leading_zeros(n)) is a block that is not larger than n.
LEMMA MaxBlockSizeFits ==
    ASSUME NEW n \in Nat \ {0}
    PROVE  MaxBlockSize(n) \in Blocks /\ MaxBlockSize(n) <= n
<1> DEFINE S == {p \in Blocks : p <= n}
<1>1. S \in SUBSET Nat /\ \A h \in S : h <= n
  BY BlocksPositive
<1>2. 1 \in S
  BY BlocksPositive
<1>3. Largest(S) \in S
  <2> HIDE DEF S
  <2> QED BY <1>1, <1>2, LargestIsThere
<1> QED BY <1>3 DEF MaxBlockSize

\* 1 << trailing_zeros(c) is a block that divides c.
LEMMA AlignSizeDivides ==
    ASSUME NEW c \in Nat
    PROVE  AlignSize(c) \in Blocks /\ (c % AlignSize(c)) = 0
<1>1. CASE c = 0
  <2>1. W - 1 \in 0..(W-1) /\ Pow2[W-1] \in Blocks
    BY WordAssumption DEF Blocks
  <2>2. PICK p \in Nat \ {0} : p = Pow2[W-1]
    BY <2>1, BlocksPositive
  <2>3. (0 % p) = 0
    OBVIOUS
  <2> QED BY <1>1, <2>1, <2>2, <2>3 DEF AlignSize
<1>2. CASE c # 0
  <2> DEFINE S == {p \in Blocks : (c % p) = 0}
  <2>1. S \in SUBSET Nat
    BY BlocksPositive
  <2>2. S # {}
    <3>1. (c % 1) = 0
      OBVIOUS
    <3> QED BY <3>1, BlocksPositive
  <2>3. ASSUME NEW h \in S PROVE h <= c
    <3>1. h \in Nat \ {0} /\ (c % h) = 0
      BY BlocksPositive
    <3>2. ~(h <= c) => c \in 0 .. (h - 1)
      BY <3>1
    <3>3. ~(h <= c) => (c % h) = c
      BY <3>1, <3>2, ModSmall
    <3> QED BY <1>2, <3>1, <3>3
  <2>4. Largest(S) \in S
    <3> HIDE DEF S
    <3> QED BY <2>1, <2>2, <2>3, LargestIsThere
  <2> QED BY <1>2, <2>4 DEF AlignSize
<1> QED BY <1>1, <1>2

\* Of two blocks the smaller one divides the larger one.
LEMMA SmallerBlockDivides ==
    ASSUME NEW s \in Blocks, NEW b \in Blocks, s <= b
    PROVE  \E m \in Nat : b = s * m
<1>1. PICK j \in 0..(W-1) : s = Pow2[j]
  BY DEF Blocks
<1>2. PICK h \in 0..(W-1) : b = Pow2[h]
  BY DEF Blocks
<1>3. s \in Nat \ {0} /\ b \in Nat \ {0} /\ W \in Nat /\ j \in 0..W /\ h \in 0..W
  BY BlocksPositive, WordAssumption
<1>4. CASE j <= h
  <2>1. h \in j..W
    BY <1>3, <1>4
  <2>2. \E m \in Nat : m >= 1 /\ Pow2[h] = Pow2[j] * m
    BY <1>3, <2>1, WordAssumption, PowerDivides
  <2> QED BY <1>1, <1>2, <2>2
<1>5. CASE h <= j
  <2>1. j \in h..W
    BY <1>3, <1>5
  <2>2. PICK m \in Nat : m >= 1 /\ Pow2[j] = Pow2[h] * m
    BY <1>3, <2>1, WordAssumption, PowerDivides
  <2>3. s = b * m /\ b * 1 = b
    BY <1>1, <1>2, <1>3, <2>2
  <2>4. m = 1
    <3>1. ASSUME 1 < m PROVE FALSE
      <4>1. b * 1 < b * m
        BY <1>3, <2>2, <3>1
      <4> QED BY <2>3, <4>1, <1>3
    <3> QED BY <3>1, <2>2
  <2>5. b = s * 1
    BY <1>3, <2>3, <2>4
  <2> QED BY <2>5
<1> QED BY <1>4, <1>5

\* The block of an iteration is aligned and not larger than what is left.
LEMMA BlockSizeFits ==
    ASSUME NEW n \in Nat \ {0}, NEW c \in Nat
    PROVE  /\ BlockSize(n, c) \in Blocks /\ BlockSize(n, c) <= n
           /\ \E h \in Nat : c = BlockSize(n, c) * h
<1>1. PICK s \in Blocks : s = MaxBlockSize(n) /\ s <= n
  BY MaxBlockSizeFits
<1>2. PICK b \in Blocks : b = AlignSize(c) /\ (c % b) = 0
  BY AlignSizeDivides
<1>3. s \in Nat \ {0} /\ b \in Nat \ {0}
  BY BlocksPositive
<1>4. PICK q \in Nat : c = b * q
  <2>1. PICK q \in Nat, r \in 0 .. (b - 1) : c = b * q + r /\ (c % b) = r
    BY <1>3, Quotient
  <2>2. b * q \in Nat
    BY <1>3
  <2> QED BY <1>2, <2>1, <2>2
<1>5. CASE s <= b
  <2>1. PICK m \in Nat : b = s * m
    BY <1>5, SmallerBlockDivides
  <2>2. c = s * (m * q) /\ m * q \in Nat
    BY <1>3, <1>4, <2>1
  <2> QED BY <1>1, <1>2, <1>5, <2>2 DEF BlockSize
<1>6. CASE ~(s <= b)
  BY <1>1, <1>2, <1>3, <1>4, <1>6 DEF BlockSize
<1> QED BY <1>5, <1>6

\* An aligned entry matches the values of its block.
LEMMA HitBlock ==
    ASSUME NEW s \in Nat \ {0}, NEW h \in Nat, NEW v \in Nat, NEW e,
           e.size = s, e.value = s * h
    PROVE  Hit(e, v) <=> s * h <= v /\ v < s * h + s
<1>1. (v \div s) = h <=> s * h <= v /\ v < s * h + s
  BY QuotientIs
<1>2. ((s * h) \div s) = h
  <2>1. PICK c \in Nat : c = s * h
    OBVIOUS
  <2>2. s * h <= c /\ c < s * h + s
    BY <2>1
  <2> QED BY <2>1, <2>2, QuotientIs
<1> QED BY <1>1, <1>2 DEF Hit
-----------------------------------------------------------------------------
\* cur never runs past the value behind the range, unless the range is empty.
InRange == pc = "loop" => cur = start \/ cur <= end + 1

RangeIInv == /\ RangeTypeOK
        /\ CoverSoFar
        /\ InRange
        /\ ExactCover
        /\ Disjoint
        /\ PanicOnlyAtLargestWord

LEMMA RangeInitIInv == RangeInit => RangeIInv
<1>1. 0 \in Word
  BY Pow2Positive, WordAssumption DEF Word
<1> QED BY <1>1, BlocksPositive
    DEF RangeInit, RangeIInv, RangeTypeOK, CoverSoFar, InRange, ExactCover, Disjoint, PanicOnlyAtLargestWord

\* What an iteration adds: an entry that matches the values from cur to
\* cur + size - 1, none of which an earlier entry matches.
LEMMA NewEntry ==
    ASSUME RangeIInv, pc = "loop", NEW size \in Blocks, NEW h \in Nat, cur = size * h,
           NEW e, e = [value |-> cur, size |-> size]
    PROVE  /\ e \in Entry
           /\ \A v \in Word : Hit(e, v) <=> cur <= v /\ v < cur + size
           /\ \A v \in Word : Hit(e, v) => \A f \in entries : ~Hit(f, v)
<1>1. e \in Entry /\ e.size = size /\ e.value = size * h
  BY DEF RangeIInv, RangeTypeOK, Entry
<1>2. size \in Nat \ {0} /\ Word \in SUBSET Nat /\ cur \in Nat
  BY BlocksPositive DEF RangeIInv, RangeTypeOK
<1>3. ASSUME NEW v \in Word PROVE Hit(e, v) <=> cur <= v /\ v < cur + size
  <2>1. v \in Nat
    BY <1>2
  <2> QED BY <1>1, <1>2, <2>1, HitBlock
<1>4. ASSUME NEW v \in Word, Hit(e, v), NEW f \in entries, Hit(f, v) PROVE FALSE
  <2>1. v < cur
    BY <1>4 DEF RangeIInv, CoverSoFar
  <2> QED BY <1>2, <1>3, <1>4, <2>1
<1> QED BY <1>1, <1>3, <1>4

\* The new entry keeps the entries disjoint.
LEMMA DisjointKept ==
    ASSUME Disjoint, NEW e, entries' = entries \union {e},
           \A v \in Word : Hit(e, v) => \A f \in entries : ~Hit(f, v)
    PROVE  Disjoint'
<1>1. Word' = Word /\ \A f, v : Hit(f, v)' = Hit(f, v)
  BY DEF Word, Hit
<1> QED BY <1>1 DEF Disjoint

LEMMA AddSingleRangeIInv == RangeIInv /\ AddSingle => RangeIInv'
<1> SUFFICES ASSUME RangeIInv, AddSingle PROVE RangeIInv'
  OBVIOUS
<1> DEFINE e == [value |-> cur, size |-> 1]
<1>1. /\ pc = "loop" /\ cur = end /\ pc' = "done" /\ entries' = entries \union {e}
      /\ start' = start /\ end' = end /\ cur' = cur
  BY DEF AddSingle
<1>2. cur \in Nat /\ cur = 1 * cur /\ 1 \in Blocks
  BY BlocksPositive DEF RangeIInv, RangeTypeOK
<1>3. /\ e \in Entry
      /\ \A v \in Word : Hit(e, v) <=> cur <= v /\ v < cur + 1
      /\ \A v \in Word : Hit(e, v) => \A f \in entries : ~Hit(f, v)
  BY <1>1, <1>2, NewEntry
<1> HIDE DEF e
<1>4. RangeTypeOK'
  BY <1>1, <1>3 DEF RangeIInv, RangeTypeOK
<1>5. Disjoint'
  BY <1>1, <1>3, DisjointKept DEF RangeIInv
<1>6. ExactCover'
  <2>1. ASSUME NEW v \in Word
        PROVE  (\E f \in entries' : Hit(f, v)) <=> start <= v /\ v <= end
    <3>1. (\E f \in entries : Hit(f, v)) <=> start <= v /\ v < cur
      BY <1>1 DEF RangeIInv, CoverSoFar
    <3>2. (\E f \in entries' : Hit(f, v)) <=> (\E f \in entries : Hit(f, v)) \/ Hit(e, v)
      BY <1>1
    <3>3. start <= cur /\ v \in Nat /\ start \in Nat
      BY <1>1, BlocksPositive DEF RangeIInv, CoverSoFar, RangeTypeOK
    <3> QED BY <1>1, <1>2, <1>3, <3>1, <3>2, <3>3
  <2> QED BY <1>1, <2>1 DEF ExactCover, Hit
<1> QED BY <1>1, <1>4, <1>5, <1>6
    DEF RangeIInv, CoverSoFar, InRange, PanicOnlyAtLargestWord

LEMMA AddBlockRangeIInv == RangeIInv /\ AddBlock => RangeIInv'
<1> SUFFICES ASSUME RangeIInv, AddBlock PROVE RangeIInv'
  OBVIOUS
<1>1. PICK n \in Nat \ {0} : n = end - cur + 1
  BY BlocksPositive DEF RangeIInv, RangeTypeOK, AddBlock
<1>2. cur \in Nat /\ start \in Nat /\ end \in Nat
  BY BlocksPositive DEF RangeIInv, RangeTypeOK
<1>3. PICK size \in Blocks : /\ size = BlockSize(n, cur) /\ size <= n
                            /\ \E h \in Nat : cur = size * h
  BY <1>2, BlockSizeFits
<1>4. PICK h \in Nat : cur = size * h
  BY <1>3
<1>5. size \in Nat \ {0}
  BY BlocksPositive
<1> DEFINE e == [value |-> cur, size |-> size]
<1>6. /\ pc = "loop" /\ cur < end /\ entries' = entries \union {e}
      /\ start' = start /\ end' = end
      /\ IF cur + size < Pow2[W] THEN cur' = cur + size /\ pc' = pc
                                ELSE cur' = cur /\ pc' = "panic"
  BY <1>1, <1>3 DEF AddBlock
<1>7. /\ e \in Entry
      /\ \A v \in Word : Hit(e, v) <=> cur <= v /\ v < cur + size
      /\ \A v \in Word : Hit(e, v) => \A f \in entries : ~Hit(f, v)
  BY <1>4, <1>6, NewEntry
<1>8. cur + size <= end + 1 /\ end < Pow2[W] /\ Pow2[W] \in Nat
  <2>1. Pow2[W] \in Nat
    BY WordAssumption
  <2> QED BY <1>1, <1>2, <1>3, <1>5, <2>1 DEF RangeIInv, RangeTypeOK, Word
<1> HIDE DEF e
<1>9. RangeTypeOK'
  <2>1. cur + size < Pow2[W] => cur + size \in Word
    BY <1>2, <1>5, <1>8 DEF Word
  <2> QED BY <1>6, <1>7, <2>1 DEF RangeIInv, RangeTypeOK
<1>10. Disjoint'
  BY <1>6, <1>7, DisjointKept DEF RangeIInv
<1>11. start <= cur
  BY <1>6 DEF RangeIInv, CoverSoFar
<1>12. CoverSoFar'
  <2>1. SUFFICES ASSUME pc' = "loop" PROVE CoverSoFar'
    BY DEF CoverSoFar
  <2>2. cur' = cur + size
    BY <1>6, <2>1
  <2>3. ASSUME NEW v \in Word
        PROVE  (\E f \in entries' : Hit(f, v)) <=> start <= v /\ v < cur'
    <3>1. (\E f \in entries : Hit(f, v)) <=> start <= v /\ v < cur
      BY <1>6 DEF RangeIInv, CoverSoFar
    <3>2. (\E f \in entries' : Hit(f, v)) <=> (\E f \in entries : Hit(f, v)) \/ Hit(e, v)
      BY <1>6
    <3>3. v \in Nat
      BY BlocksPositive
    <3> QED BY <1>2, <1>5, <1>7, <1>11, <2>2, <3>1, <3>2, <3>3
  <2>4. start <= cur'
    BY <1>2, <1>5, <1>11, <2>2
  <2> QED BY <1>6, <2>3, <2>4 DEF CoverSoFar, Hit
<1>13. InRange'
  BY <1>6, <1>8 DEF InRange
<1>14. PanicOnlyAtLargestWord'
  <2>1. pc' = "panic" => ~(cur + size < Pow2[W])
    BY <1>6
  <2>2. pc' = "panic" => end = Pow2[W] - 1 /\ start < end
    BY <1>2, <1>5, <1>6, <1>8, <1>11, <2>1
  <2> QED BY <1>6, <2>2 DEF PanicOnlyAtLargestWord
<1> QED BY <1>6, <1>9, <1>10, <1>12, <1>13, <1>14 DEF RangeIInv, ExactCover

LEMMA PanicOnCountRangeIInv == RangeIInv /\ PanicOnCount => RangeIInv'
<1> SUFFICES ASSUME RangeIInv, PanicOnCount PROVE RangeIInv'
  OBVIOUS
<1>1. /\ pc = "loop" /\ cur < end /\ end - cur + 1 = Pow2[W] /\ pc' = "panic"
      /\ start' = start /\ end' = end /\ cur' = cur /\ entries' = entries
  BY DEF PanicOnCount, CountOverflows
<1>2. RangeTypeOK' /\ Disjoint'
  BY <1>1 DEF RangeIInv, RangeTypeOK, Disjoint, Hit
<1>3. end = Pow2[W] - 1 /\ start < end
  <2>1. /\ Pow2[W] \in Nat /\ start \in Nat /\ cur \in Nat /\ end \in Nat
        /\ end < Pow2[W] /\ start <= cur
    BY <1>1, WordAssumption DEF RangeIInv, RangeTypeOK, Word, CoverSoFar
  <2> QED BY <1>1, <2>1
<1> QED BY <1>1, <1>2, <1>3
    DEF RangeIInv, CoverSoFar, InRange, ExactCover, PanicOnlyAtLargestWord

LEMMA LeaveLoopRangeIInv == RangeIInv /\ LeaveLoop => RangeIInv'
<1> SUFFICES ASSUME RangeIInv, LeaveLoop PROVE RangeIInv'
  OBVIOUS
<1>1. /\ pc = "loop" /\ cur > end /\ pc' = "done"
      /\ start' = start /\ end' = end /\ cur' = cur /\ entries' = entries
  BY DEF LeaveLoop
<1>2. RangeTypeOK' /\ Disjoint'
  BY <1>1 DEF RangeIInv, RangeTypeOK, Disjoint, Hit
<1>3. ExactCover'
  <2>1. ASSUME NEW v \in Word
        PROVE  (\E f \in entries : Hit(f, v)) <=> start <= v /\ v <= end
    <3>1. (\E f \in entries : Hit(f, v)) <=> start <= v /\ v < cur
      BY <1>1 DEF RangeIInv, CoverSoFar
    <3>2. v \in Nat /\ start \in Nat /\ cur \in Nat /\ end \in Nat
      BY BlocksPositive DEF RangeIInv, RangeTypeOK
    <3>3. cur = start \/ cur <= end + 1
      BY <1>1 DEF RangeIInv, InRange
    <3> QED BY <1>1, <3>1, <3>2, <3>3
  <2> QED BY <1>1, <2>1 DEF ExactCover, Hit
<1> QED BY <1>1, <1>2, <1>3 DEF RangeIInv, CoverSoFar, InRange, PanicOnlyAtLargestWord

LEMMA RangeNextIInv == RangeIInv /\ [RangeNext]_rangeVars => RangeIInv'
<1>1. RangeIInv /\ UNCHANGED rangeVars => RangeIInv'
  BY DEF RangeIInv, RangeTypeOK, CoverSoFar, InRange, ExactCover, Disjoint,
         PanicOnlyAtLargestWord, Hit, rangeVars
<1> QED BY <1>1, AddSingleRangeIInv, AddBlockRangeIInv, PanicOnCountRangeIInv, LeaveLoopRangeIInv
        DEF RangeNext

LEMMA RangeInductive == RangeSpec => []RangeIInv
BY RangeInitIInv, RangeNextIInv, PTL DEF RangeSpec

\* Every entry of a call is a value and a block of the word.
THEOREM RangeTypeCorrect == RangeSpec => []RangeTypeOK
<1>1. RangeIInv => RangeTypeOK
  BY DEF RangeIInv
<1> QED BY <1>1, RangeInductive, PTL

\* The entries of a finished call match exactly the values of its range: no gap
\* and no excess, whatever the range and the width of the word.
THEOREM EveryValueCovered == RangeSpec => []ExactCover
<1>1. RangeIInv => ExactCover
  BY DEF RangeIInv
<1> QED BY <1>1, RangeInductive, PTL

\* No value of the word is matched by two entries of a call.
THEOREM EntriesDisjoint == RangeSpec => []Disjoint
<1>1. RangeIInv => Disjoint
  BY DEF RangeIInv
<1> QED BY <1>1, RangeInductive, PTL

\* An overflow check stops the call only for a range that ends at the largest
\* word and is not that word alone.
THEOREM PanicOnlyForLargestWord == RangeSpec => []PanicOnlyAtLargestWord
<1>1. RangeIInv => PanicOnlyAtLargestWord
  BY DEF RangeIInv
<1> QED BY <1>1, RangeInductive, PTL
-----------------------------------------------------------------------------
\* The blocks of a range, and those that no larger block of it contains.
BlocksIn(l, h) ==
    {b \in Entry : b.value % b.size = 0 /\ l <= b.value /\ b.value + b.size - 1 <= h}

LargestIn(l, h) ==
    {b \in BlocksIn(l, h) : ~\E a \in BlocksIn(l, h) : a.size > b.size /\ Hit(a, b.value)}

LEMMA LargestBlocksAre == LargestBlocks = LargestIn(start, end)
BY DEF LargestBlocks, LargestIn, BlocksIn

\* An aligned entry is a block: it matches size values from its own upwards.
LEMMA AlignedHit ==
    ASSUME NEW b \in Entry, (b.value % b.size) = 0, NEW v \in Nat
    PROVE  Hit(b, v) <=> b.value <= v /\ v < b.value + b.size
<1>1. PICK s \in Nat \ {0} : s = b.size
  BY BlocksPositive DEF Entry
<1>2. PICK c \in Nat : c = b.value
  BY BlocksPositive DEF Entry
<1>3. PICK q \in Nat, r \in 0 .. (s - 1) : c = s * q + r /\ (c % s) = r
  BY Quotient
<1>4. c = s * q
  <2>1. PICK d \in Nat : d = s * q
    OBVIOUS
  <2> QED BY <1>1, <1>2, <1>3, <2>1
<1>5. Hit(b, v) <=> s * q <= v /\ v < s * q + s
  BY <1>1, <1>2, <1>4, HitBlock
<1> QED BY <1>1, <1>2, <1>4, <1>5

LEMMA EntryNumbers ==
    ASSUME NEW b \in Entry
    PROVE  b.value \in Nat /\ b.size \in Nat \ {0} /\ b = [value |-> b.value, size |-> b.size]
BY BlocksPositive DEF Entry

\* Of two blocks that share a value the larger one contains the other.
LEMMA BlocksNest ==
    ASSUME NEW a \in Entry, NEW b \in Entry, (a.value % a.size) = 0, (b.value % b.size) = 0,
           NEW v \in Nat, Hit(a, v), Hit(b, v), b.size <= a.size
    PROVE  a.value <= b.value /\ b.value + b.size <= a.value + a.size
<1>1. PICK s \in Nat \ {0} : s = b.size
  BY EntryNumbers
<1>2. PICK m \in Nat : a.size = s * m
  BY <1>1, SmallerBlockDivides DEF Entry
<1>3. PICK x \in Nat : a.value = s * x
  <2>1. PICK q \in Nat, r \in 0 .. (a.size - 1) :
            a.value = a.size * q + r /\ (a.value % a.size) = r
    BY EntryNumbers, Quotient
  <2>2. a.value = (s * m) * q
    <3>1. PICK d \in Nat : d = (s * m) * q
      OBVIOUS
    <3> QED BY <1>2, <2>1, <3>1
  <2>3. m * q \in Nat /\ a.value = s * (m * q)
    BY <2>2
  <2> QED BY <2>3
<1>4. PICK y \in Nat : b.value = s * y
  <2>1. PICK q \in Nat, r \in 0 .. (s - 1) : b.value = s * q + r /\ (b.value % s) = r
    BY <1>1, EntryNumbers, Quotient
  <2>2. PICK d \in Nat : d = s * q
    OBVIOUS
  <2> QED BY <1>1, <2>1, <2>2
<1>5. /\ a.value <= v /\ v < a.value + a.size
      /\ b.value <= v /\ v < b.value + s
  BY <1>1, AlignedHit
<1>6. a.value \in Nat /\ a.size \in Nat /\ b.value \in Nat
  BY EntryNumbers
<1>7. s * (x + m) = s * x + s * m /\ s * (y + 1) = s * y + s
  OBVIOUS
<1>8. a.value <= b.value
  <2>1. s * x < s * (y + 1)
    BY <1>3, <1>4, <1>5, <1>6, <1>7
  <2>2. s * x + s <= s * (y + 1)
    BY <2>1, MultiplesApart
  <2> QED BY <1>3, <1>4, <1>6, <1>7, <2>2
<1>9. b.value + s <= a.value + a.size
  <2>1. s * y < s * (x + m)
    BY <1>2, <1>3, <1>4, <1>5, <1>6, <1>7
  <2>2. s * y + s <= s * (x + m)
    BY <2>1, MultiplesApart
  <2> QED BY <1>2, <1>3, <1>4, <1>6, <1>7, <2>2
<1> QED BY <1>1, <1>8, <1>9

\* No value of a range is in two of its largest blocks.
LEMMA LargestApart ==
    ASSUME NEW l, NEW h, NEW e \in LargestIn(l, h), NEW f \in LargestIn(l, h),
           NEW v \in Nat, Hit(e, v), Hit(f, v)
    PROVE  e = f
<1>1. /\ e \in BlocksIn(l, h) /\ f \in BlocksIn(l, h)
      /\ e \in Entry /\ f \in Entry /\ (e.value % e.size) = 0 /\ (f.value % f.size) = 0
  BY DEF LargestIn, BlocksIn
<1>2. ASSUME NEW a \in LargestIn(l, h), NEW b \in LargestIn(l, h), Hit(a, v), Hit(b, v),
             a.size > b.size
      PROVE  FALSE
  <2>1. /\ a \in BlocksIn(l, h) /\ a \in Entry /\ b \in Entry
        /\ (a.value % a.size) = 0 /\ (b.value % b.size) = 0
    BY DEF LargestIn, BlocksIn
  <2>2. b.value \in Nat /\ b.size \in Nat \ {0} /\ a.value \in Nat /\ a.size \in Nat
    BY <2>1, EntryNumbers
  <2>3. a.value <= b.value /\ b.value + b.size <= a.value + a.size
    BY <1>2, <2>1, <2>2, BlocksNest
  <2>4. Hit(a, b.value)
    BY <2>1, <2>2, <2>3, AlignedHit
  <2> QED BY <1>2, <2>1, <2>4 DEF LargestIn
<1>3. e.size \in Nat /\ f.size \in Nat
  BY <1>1, EntryNumbers
<1>4. e.size = f.size
  BY <1>2, <1>3
<1>5. /\ e.value <= f.value /\ f.value + f.size <= e.value + e.size
      /\ f.value <= e.value
  BY <1>1, <1>3, <1>4, BlocksNest
<1>6. e.value \in Nat /\ f.value \in Nat
  BY <1>1, EntryNumbers
<1>7. e.value = f.value
  BY <1>5, <1>6
<1> QED BY <1>1, <1>4, <1>7, EntryNumbers

\* The largest blocks of a range match its values and no other.
LEMMA LargestCover ==
    ASSUME NEW l \in Word, NEW h \in Word, NEW v \in Word
    PROVE  (\E e \in LargestIn(l, h) : Hit(e, v)) <=> (l <= v /\ v <= h)
<1>1. l \in Nat /\ h \in Nat /\ v \in Nat
  BY BlocksPositive
<1>2. ASSUME NEW e \in LargestIn(l, h), Hit(e, v) PROVE l <= v /\ v <= h
  <2>1. /\ e \in Entry /\ (e.value % e.size) = 0
        /\ l <= e.value /\ e.value + e.size - 1 <= h
    BY DEF LargestIn, BlocksIn
  <2>2. e.value <= v /\ v < e.value + e.size
    BY <1>1, <1>2, <2>1, AlignedHit
  <2> QED BY <1>1, <2>1, <2>2, EntryNumbers
<1>3. ASSUME l <= v, v <= h PROVE \E e \in LargestIn(l, h) : Hit(e, v)
  <2> DEFINE C == {b \in BlocksIn(l, h) : Hit(b, v)}
             S == {b.size : b \in C}
             one == [value |-> v, size |-> 1]
  <2>1. one \in C
    <3>1. one \in Entry /\ (one.value % one.size) = 0 /\ one.value = v /\ one.size = 1
      BY <1>1, BlocksPositive DEF Entry
    <3>2. Hit(one, v)
      BY <1>1, <3>1, AlignedHit
    <3> QED BY <1>1, <1>3, <3>1, <3>2 DEF BlocksIn
  <2>2. C \in SUBSET Entry
    BY DEF BlocksIn
  <2>3. ASSUME NEW b \in C
        PROVE  /\ b \in BlocksIn(l, h) /\ Hit(b, v) /\ b \in Entry
               /\ (b.value % b.size) = 0 /\ b.size <= h + 1
    <3>1. b \in Entry /\ b.value + b.size - 1 <= h
      BY DEF BlocksIn
    <3> QED BY <1>1, <3>1, EntryNumbers DEF BlocksIn
  <2> HIDE DEF C
  <2>4. S \in SUBSET Nat /\ S # {} /\ \A n \in S : n <= h + 1
    BY <2>1, <2>2, <2>3, EntryNumbers
  <2>5. h + 1 \in Nat
    BY <1>1
  <2>6. \E m \in S : \A n \in S : n <= m
    <3> HIDE DEF S
    <3> QED BY <2>4, <2>5, GreatestElement
  <2>7. PICK e \in C : \A b \in C : b.size <= e.size
    BY <2>6
  <2>8. ASSUME NEW a \in BlocksIn(l, h), a.size > e.size, Hit(a, e.value) PROVE FALSE
    <3>1. a \in Entry /\ (a.value % a.size) = 0
      BY DEF BlocksIn
    <3>2. e.value \in Nat /\ e.size \in Nat \ {0} /\ a.value \in Nat /\ a.size \in Nat \ {0}
      BY <2>3, <3>1, EntryNumbers
    <3>3. Hit(e, e.value)
      BY <2>3, <3>2, AlignedHit
    <3>4. a.value <= e.value /\ e.value + e.size <= a.value + a.size
      BY <2>3, <2>8, <3>1, <3>2, <3>3, BlocksNest
    <3>5. e.value <= v /\ v < e.value + e.size
      BY <1>1, <2>3, AlignedHit
    <3>6. Hit(a, v)
      BY <1>1, <3>1, <3>2, <3>4, <3>5, AlignedHit
    <3>7. a \in C
      BY <3>6 DEF C
    <3> QED BY <2>7, <2>8, <3>2, <3>7
  <2>9. e \in LargestIn(l, h)
    BY <2>3, <2>8 DEF LargestIn
  <2> QED BY <2>3, <2>9
<1> QED BY <1>2, <1>3

\* A power of two divides the larger ones.
LEMMA Pow2Divides ==
    ASSUME NEW a \in 0..W, NEW c \in a..W
    PROVE  \E m \in Nat : m >= 1 /\ Pow2[c] = Pow2[a] * m
<1>1. PICK w \in Nat : w = W
  BY WordAssumption
<1>2. Pow2 \in [0..w -> Nat] /\ Pow2[0] = 1 /\ \A j \in 0..(w-1) : Pow2[j+1] = 2 * Pow2[j]
  BY <1>1, WordAssumption
<1>3. a \in 0..w /\ c \in a..w
  BY <1>1
<1> QED BY <1>2, <1>3, PowerDivides

\* The choices of an iteration are the largest there are.
LEMMA BlockSizeLargest ==
    ASSUME NEW n \in Nat \ {0}, NEW c \in Nat,
           NEW p \in Blocks, p <= n, (c % p) = 0
    PROVE  p <= BlockSize(n, c)
<1>1. p <= MaxBlockSize(n)
  <2> DEFINE S == {s \in Blocks : s <= n}
  <2>1. S \in SUBSET Nat /\ (\A s \in S : s <= n) /\ p \in S
    BY BlocksPositive
  <2>2. p <= Largest(S)
    <3> HIDE DEF S
    <3> QED BY <2>1, LargestIsLargest
  <2> QED BY <2>2 DEF MaxBlockSize
<1>2. p <= AlignSize(c)
  <2>1. CASE c = 0
    <3>1. PICK j \in 0..(W-1) : p = Pow2[j]
      BY DEF Blocks
    <3>2. j \in 0..W /\ W - 1 \in j..W /\ W - 1 \in 0..W /\ W \in Nat
      <4>1. PICK w \in Nat : w = W /\ j \in 0..(w-1)
        BY WordAssumption
      <4>2. j \in 0..w /\ w - 1 \in j..w /\ w - 1 \in 0..w
        BY <4>1
      <4> QED BY <4>1, <4>2
    <3>3. PICK b \in j..W : b = W - 1
      BY <3>2
    <3>4. PICK m \in Nat : m >= 1 /\ Pow2[b] = Pow2[j] * m
      <4>1. j \in 0..W
        BY <3>2
      <4> QED BY <4>1, Pow2Divides
    <3>5. PICK d \in Nat \ {0} : d = Pow2[j]
      BY <3>2, Pow2Positive
    <3>6. d * 1 <= d * m
      BY <3>4
    <3> QED BY <2>1, <3>1, <3>3, <3>4, <3>5, <3>6 DEF AlignSize
  <2>2. CASE c # 0
    <3> DEFINE S == {s \in Blocks : (c % s) = 0}
    <3>1. S \in SUBSET Nat /\ p \in S
      BY BlocksPositive
    <3>2. ASSUME NEW s \in S PROVE s <= c
      <4>1. s \in Nat \ {0} /\ (c % s) = 0
        BY BlocksPositive
      <4>2. ~(s <= c) => c \in 0 .. (s - 1)
        BY <4>1
      <4>3. ~(s <= c) => (c % s) = c
        BY <4>1, <4>2, ModSmall
      <4> QED BY <2>2, <4>1, <4>3
    <3>3. p <= Largest(S)
      <4> HIDE DEF S
      <4> QED BY <3>1, <3>2, LargestIsLargest
    <3> QED BY <2>2, <3>3 DEF AlignSize
  <2> QED BY <2>1, <2>2
<1> QED BY <1>1, <1>2 DEF BlockSize

\* While the loop runs, and after it, all entries are largest blocks.
FewestSoFar == pc # "panic" => entries \subseteq LargestIn(start, end)

\* A block at cur that is as large as alignment and range allow is a largest one:
\* a larger block that contains cur would contain an entry below it.
LEMMA NewLargest ==
    ASSUME RangeIInv, FewestSoFar, pc = "loop", NEW size \in Blocks,
           (cur % size) = 0, cur + size - 1 <= end,
           \A p \in Blocks : (cur % p) = 0 /\ cur + p - 1 <= end => p <= size
    PROVE  [value |-> cur, size |-> size] \in LargestIn(start, end)
<1> DEFINE e == [value |-> cur, size |-> size]
<1>1. cur \in Word /\ cur \in Nat /\ start \in Nat /\ start <= cur /\ size \in Nat \ {0}
  BY BlocksPositive DEF RangeIInv, RangeTypeOK, CoverSoFar
<1>2. e \in BlocksIn(start, end)
  BY <1>1 DEF BlocksIn, Entry
<1>3. ASSUME NEW a \in BlocksIn(start, end), a.size > size, Hit(a, cur) PROVE FALSE
  <2>1. /\ a \in Entry /\ (a.value % a.size) = 0 /\ a.size \in Blocks
        /\ start <= a.value /\ a.value + a.size - 1 <= end /\ a.value \in Word
    BY DEF BlocksIn, Entry
  <2>2. a.value \in Nat /\ a.size \in Nat \ {0}
    BY <2>1, EntryNumbers
  <2>3. a.value <= cur /\ cur < a.value + a.size
    BY <1>1, <1>3, <2>1, AlignedHit
  <2>4. a.value # cur
    BY <1>1, <1>3, <2>1, <2>2
  <2>5. PICK f \in entries : Hit(f, a.value)
    BY <1>1, <2>1, <2>2, <2>3, <2>4 DEF RangeIInv, CoverSoFar
  <2>6. /\ f \in BlocksIn(start, end)
        /\ ~\E b \in BlocksIn(start, end) : b.size > f.size /\ Hit(b, f.value)
    BY DEF FewestSoFar, LargestIn
  <2>7. f \in Entry /\ (f.value % f.size) = 0 /\ f.value \in Nat /\ f.size \in Nat \ {0}
    BY <2>6, EntryNumbers DEF BlocksIn
  <2>8. Hit(a, a.value)
    BY <2>1, <2>2, AlignedHit
  <2>9. CASE a.size <= f.size
    <3>1. f.value <= a.value /\ a.value + a.size <= f.value + f.size
      BY <2>1, <2>2, <2>5, <2>7, <2>8, <2>9, BlocksNest
    <3>2. Hit(f, cur)
      BY <1>1, <2>2, <2>3, <2>7, <3>1, AlignedHit
    <3> QED BY <1>1, <3>2 DEF RangeIInv, CoverSoFar
  <2>10. CASE f.size <= a.size /\ f.size # a.size
    <3>1. a.value <= f.value /\ f.value + f.size <= a.value + a.size
      BY <2>1, <2>2, <2>5, <2>7, <2>8, <2>10, BlocksNest
    <3>2. Hit(a, f.value)
      BY <2>1, <2>2, <2>7, <3>1, AlignedHit
    <3> QED BY <2>2, <2>6, <2>7, <2>10, <3>2
  <2> QED BY <2>2, <2>7, <2>9, <2>10
<1> QED BY <1>2, <1>3 DEF LargestIn

LEMMA AddSingleFewest == RangeIInv /\ FewestSoFar /\ AddSingle => FewestSoFar'
<1> SUFFICES ASSUME RangeIInv, FewestSoFar, AddSingle PROVE FewestSoFar'
  OBVIOUS
<1>1. /\ pc = "loop" /\ cur = end /\ entries' = entries \union {[value |-> cur, size |-> 1]}
      /\ start' = start /\ end' = end
  BY DEF AddSingle
<1>2. cur \in Nat /\ 1 \in Blocks /\ (cur % 1) = 0 /\ cur + 1 - 1 <= end
  BY <1>1, BlocksPositive DEF RangeIInv, RangeTypeOK
<1>3. \A p \in Blocks : cur + p - 1 <= end => p <= 1
  BY <1>1, <1>2, BlocksPositive
<1>4. [value |-> cur, size |-> 1] \in LargestIn(start, end)
  BY <1>1, <1>2, <1>3, NewLargest
<1>5. LargestIn(start, end)' = LargestIn(start, end)
  BY <1>1 DEF LargestIn, BlocksIn, Hit, Entry, Word, Blocks
<1> QED BY <1>1, <1>4, <1>5 DEF FewestSoFar

LEMMA AddBlockFewest == RangeIInv /\ FewestSoFar /\ AddBlock => FewestSoFar'
<1> SUFFICES ASSUME RangeIInv, FewestSoFar, AddBlock PROVE FewestSoFar'
  OBVIOUS
<1>1. cur \in Nat /\ end \in Nat
  BY BlocksPositive DEF RangeIInv, RangeTypeOK
<1>2. PICK n \in Nat \ {0} : n = end - cur + 1
  BY <1>1 DEF AddBlock
<1>3. PICK size \in Blocks : /\ size = BlockSize(n, cur) /\ size <= n
                             /\ \E h \in Nat : cur = size * h
  BY <1>1, BlockSizeFits
<1>4. /\ pc = "loop" /\ entries' = entries \union {[value |-> cur, size |-> size]}
      /\ start' = start /\ end' = end
  BY <1>2, <1>3 DEF AddBlock
<1>5. (cur % size) = 0
  <2>1. PICK h \in Nat : cur = size * h
    BY <1>3
  <2>2. size \in Nat \ {0} /\ cur \in Int /\ h \in Int /\ 0 \in 0 .. (size - 1) /\ cur = size * h + 0
    BY <1>1, <2>1, BlocksPositive
  <2> QED BY <2>2, DivModUnique
<1>6. cur + size - 1 <= end
  <2>1. size \in Nat /\ size <= n
    BY <1>3, BlocksPositive
  <2> QED BY <1>1, <1>2, <2>1
<1>7. ASSUME NEW p \in Blocks, (cur % p) = 0, cur + p - 1 <= end PROVE p <= size
  <2>1. p \in Nat
    BY BlocksPositive
  <2>2. p <= n
    BY <1>1, <1>2, <1>7, <2>1
  <2> QED BY <1>1, <1>3, <1>7, <2>2, BlockSizeLargest
<1>8. [value |-> cur, size |-> size] \in LargestIn(start, end)
  BY <1>4, <1>5, <1>6, <1>7, NewLargest
<1>9. LargestIn(start, end)' = LargestIn(start, end)
  BY <1>4 DEF LargestIn, BlocksIn, Hit, Entry, Word, Blocks
<1> QED BY <1>4, <1>8, <1>9 DEF FewestSoFar

LEMMA FewestKept == RangeIInv /\ FewestSoFar /\ [RangeNext]_rangeVars => FewestSoFar'
<1> SUFFICES ASSUME RangeIInv, FewestSoFar, [RangeNext]_rangeVars PROVE FewestSoFar'
  OBVIOUS
<1>1. CASE PanicOnCount
  BY <1>1 DEF PanicOnCount, FewestSoFar
<1>2. CASE LeaveLoop \/ UNCHANGED rangeVars
  <2>1. start' = start /\ end' = end /\ entries' = entries /\ (pc' # "panic" => pc # "panic")
    BY <1>2 DEF LeaveLoop, rangeVars
  <2>2. LargestIn(start, end)' = LargestIn(start, end)
    BY <2>1 DEF LargestIn, BlocksIn, Hit, Entry, Word, Blocks
  <2> QED BY <2>1, <2>2 DEF FewestSoFar
<1> QED BY <1>1, <1>2, AddSingleFewest, AddBlockFewest DEF RangeNext

\* A largest block of the range that were no entry would have its first value
\* matched by another one.
LEMMA FewestFollows == RangeIInv /\ FewestSoFar => FewestEntries
<1> SUFFICES ASSUME RangeIInv, FewestSoFar, pc = "done" PROVE entries = LargestBlocks
  BY DEF FewestEntries
<1>1. entries \subseteq LargestIn(start, end)
  BY DEF FewestSoFar
<1>2. ASSUME NEW b \in LargestIn(start, end) PROVE b \in entries
  <2>1. b \in Entry /\ b.value \in Word /\ (b.value % b.size) = 0
    BY DEF LargestIn, BlocksIn, Entry
  <2>2. b.value \in Nat /\ b.size \in Nat \ {0}
    BY <2>1, EntryNumbers
  <2>3. Hit(b, b.value)
    BY <2>1, <2>2, AlignedHit
  <2>4. start <= b.value /\ b.value <= end
    BY <2>1, <2>3, LargestCover DEF RangeIInv, RangeTypeOK
  <2>5. PICK e \in entries : Hit(e, b.value)
    BY <2>1, <2>4 DEF RangeIInv, ExactCover
  <2>6. e = b
    BY <1>1, <2>2, <2>3, <2>5, LargestApart
  <2> QED BY <2>6
<1> QED BY <1>1, <1>2, LargestBlocksAre

\* A finished call has the fewest entries there can be: just the blocks of the
\* range that no larger block of it contains.
THEOREM FewestEntriesWritten == RangeSpec => []FewestEntries
<1>1. RangeInit => FewestSoFar
  BY DEF RangeInit, FewestSoFar
<1>2. RangeSpec => [](RangeIInv /\ FewestSoFar)
  BY <1>1, RangeInitIInv, RangeNextIInv, FewestKept, PTL DEF RangeSpec
<1> QED BY <1>2, FewestFollows, PTL
-----------------------------------------------------------------------------
LEMMA BitPositive == \A j \in 0..N : Bit[j] \in Nat \ {0}
<1>1. \A j \in 0..N : Bit[j] >= 1
  BY BitAssumption, PowersPositive
<1> QED BY <1>1, BitAssumption

\* Clearing bits leaves a natural number.
LEMMA KeepNat ==
    ASSUME NEW v \in Nat, NEW j \in 0..N
    PROVE  Keep(v, j) \in Nat /\ Keep(v, j) <= v
<1>1. PICK p \in Nat \ {0} : p = Bit[j]
  BY BitPositive
<1>2. PICK q \in Nat, r \in 0 .. (p - 1) : v = p * q + r /\ (v % p) = r
  BY Quotient
<1>3. p * q \in Nat
  OBVIOUS
<1>4. Keep(v, j) = v - r
  BY <1>1, <1>2 DEF Keep
<1> QED BY <1>2, <1>3, <1>4

\* Bit j of a number is what is cleared in addition by Keep(_, j+1).
LEMMA KeepSplit ==
    ASSUME NEW v \in Nat, NEW j \in 0..(N-1)
    PROVE  /\ Keep(v, j) \in {Keep(v, j+1), Keep(v, j+1) + Bit[j]}
           /\ Keep(v, j+1) \in Nat
<1>1. PICK p \in Nat \ {0} : p = Bit[j] /\ 2 * p = Bit[j+1]
  BY BitPositive, BitAssumption
<1>2. (v % p) = IF (v % (2 * p)) >= p THEN (v % (2 * p)) - p ELSE (v % (2 * p))
  BY RemainderOfDouble
<1>3. Keep(v, j) = v - (v % p) /\ Keep(v, j+1) = v - (v % (2 * p))
  BY <1>1 DEF Keep
<1>4. (v % (2 * p)) \in Int
  <2>1. 2 * p \in Nat \ {0}
    OBVIOUS
  <2> QED BY <2>1, Quotient
<1>5. Keep(v, j+1) \in Nat
  <2>1. j + 1 \in 0..N
    BY BitAssumption
  <2> QED BY <2>1, KeepNat
<1> QED BY <1>1, <1>2, <1>3, <1>4, <1>5

\* What is kept of different numbers from bit j upwards is 2^j apart.
LEMMA KeepApart ==
    ASSUME NEW v \in Nat, NEW t \in Nat, NEW j \in 0..N, Keep(t, j) < Keep(v, j)
    PROVE  Keep(t, j) + Bit[j] <= Keep(v, j)
<1>1. PICK p \in Nat \ {0} : p = Bit[j]
  BY BitPositive
<1>2. PICK x \in Int : Keep(t, j) = p * x
  <2>1. PICK q \in Nat, r \in 0 .. (p - 1) : t = p * q + r /\ (t % p) = r
    BY Quotient
  <2> QED BY <2>1, <1>1 DEF Keep
<1>3. PICK y \in Int : Keep(v, j) = p * y
  <2>1. PICK q \in Nat, r \in 0 .. (p - 1) : v = p * q + r /\ (v % p) = r
    BY Quotient
  <2> QED BY <2>1, <1>1 DEF Keep
<1>4. p * x < p * y
  BY <1>2, <1>3
<1>5. p * x + p <= p * y
  BY <1>4, MultiplesApart
<1> QED BY <1>1, <1>2, <1>3, <1>5

\* A number exceeds the duration in the bits from j upwards if it does so in
\* the bits above j, or if it agrees with it there and bit j is set in it only.
LEMMA ExceedsInOneMoreBit ==
    ASSUME NEW v \in Nat, NEW t \in Nat, NEW j \in 0..(N-1)
    PROVE  Keep(v, j) > Keep(t, j) <=>
             \/ Keep(v, j+1) > Keep(t, j+1)
             \/ BitIsZero(t, j) /\ Keep(v, j) = Keep(t, j+1) + Bit[j]
<1> DEFINE p == Bit[j]
<1>1. p \in Nat \ {0} /\ Bit[j+1] = 2 * p /\ j + 1 \in 0..N
  BY BitPositive, BitAssumption
<1>2. /\ Keep(v, j) \in {Keep(v, j+1), Keep(v, j+1) + p} /\ Keep(v, j+1) \in Nat
      /\ Keep(t, j) \in {Keep(t, j+1), Keep(t, j+1) + p} /\ Keep(t, j+1) \in Nat
  BY KeepSplit
<1>3. Keep(v, j+1) > Keep(t, j+1) => Keep(t, j+1) + 2 * p <= Keep(v, j+1)
  BY <1>1, <1>2, KeepApart
<1>4. Keep(v, j+1) < Keep(t, j+1) => Keep(v, j+1) + 2 * p <= Keep(t, j+1)
  BY <1>1, <1>2, KeepApart
<1>5. BitIsZero(t, j) <=> Keep(t, j) = Keep(t, j+1)
  BY DEF BitIsZero
<1> HIDE DEF p
<1> QED BY <1>1, <1>2, <1>3, <1>4, <1>5 DEF p

\* The entry of bit j matches no number that exceeds the duration above bit j.
LEMMA EntryOfOneBit ==
    ASSUME NEW v \in Nat, NEW t \in Nat, NEW j \in 0..(N-1),
           Keep(v, j) = Keep(t, j+1) + Bit[j]
    PROVE  ~(Keep(v, j+1) > Keep(t, j+1))
<1> DEFINE p == Bit[j]
<1>1. p \in Nat \ {0} /\ Bit[j+1] = 2 * p /\ j + 1 \in 0..N
  BY BitPositive, BitAssumption
<1>2. /\ Keep(v, j) \in {Keep(v, j+1), Keep(v, j+1) + p} /\ Keep(v, j+1) \in Nat
      /\ Keep(t, j+1) \in Nat
  BY KeepSplit
<1>3. Keep(v, j+1) > Keep(t, j+1) => Keep(t, j+1) + 2 * p <= Keep(v, j+1)
  BY <1>1, <1>2, KeepApart
<1> HIDE DEF p
<1> QED BY <1>1, <1>2, <1>3 DEF p

\* The entry of a bit that is 0 in the duration is a time stamp.
LEMMA EntryFits ==
    ASSUME NEW t \in Position, NEW j \in 0..(N-1)
    PROVE  BitEntry(t, j) \in ExceededEntry
<1>1. PICK p \in Nat \ {0} : p = Bit[j] /\ 2 * p = Bit[j+1]
  BY BitPositive, BitAssumption
<1>2. 2 * p \in Nat \ {0} /\ t \in Nat /\ j + 1 \in 0..N /\ N \in (j+1)..N /\ N \in Nat
  BY BitAssumption DEF Position
<1>3. PICK q \in Nat, r \in 0 .. (2 * p - 1) : t = (2 * p) * q + r /\ (t % (2 * p)) = r
  BY <1>2, Quotient
<1>4. Keep(t, j+1) = (2 * p) * q
  <2>1. PICK s \in Nat : s = (2 * p) * q
    OBVIOUS
  <2>2. t = s + r /\ r \in Int
    BY <1>2, <1>3, <2>1
  <2>3. Keep(t, j+1) = t - r
    BY <1>1, <1>3 DEF Keep
  <2>4. Keep(t, j+1) = s
    BY <2>2, <2>3
  <2> QED BY <2>1, <2>4
<1>5. PICK m \in Nat : Bit[N] = (2 * p) * m
  <2>1. PICK a \in 0..N : a = j + 1 /\ N \in a..N
    BY <1>2
  <2>2. \E m \in Nat : m >= 1 /\ Bit[N] = Bit[a] * m
    BY <1>2, <2>1, BitAssumption, PowerDivides
  <2> QED BY <1>1, <2>1, <2>2
<1>6. (2 * p) * q < (2 * p) * m
  <2>1. (2 * p) * q \in Nat /\ (2 * p) * m \in Nat
    OBVIOUS
  <2> QED BY <1>3, <1>5, <2>1 DEF Position
<1>7. (2 * p) * q + 2 * p <= (2 * p) * m
  BY <1>2, <1>6, MultiplesApart
<1>8. (2 * p) * q + p \in Position
  <2>1. (2 * p) * q \in Nat /\ (2 * p) * m \in Nat
    OBVIOUS
  <2> QED BY <1>5, <1>7, <2>1 DEF Position
<1> QED BY <1>1, <1>4, <1>8 DEF BitEntry, ExceededEntry

\* Without bits nothing is kept, and with all bits everything is.
LEMMA KeepAllOrNothing ==
    ASSUME NEW v \in Position
    PROVE  Keep(v, N) = 0 /\ Keep(v, 0) = v
<1>1. N \in 0..N /\ 0 \in 0..N /\ v \in Int
  BY BitAssumption DEF Position
<1>2. (v % Bit[N]) = v
  <2>1. PICK c \in Nat \ {0} : c = Bit[N]
    BY <1>1, BitPositive
  <2> QED BY <2>1, ModSmall DEF Position
<1>3. (v % Bit[0]) = 0
  BY <1>1, BitAssumption
<1> QED BY <1>1, <1>2, <1>3 DEF Keep
-----------------------------------------------------------------------------
\* The entries of the table are well formed: every value is a time stamp.
THEOREM ExceededTypeCorrect == ExceededSpec => []ExceededTypeOK
<1>1. ExceededInit => ExceededTypeOK
  BY BitAssumption DEF ExceededInit, ExceededTypeOK
<1>2. ExceededTypeOK /\ [NextBit]_exceededVars => ExceededTypeOK'
  <2>1. ASSUME ExceededTypeOK, NextBit PROVE ExceededTypeOK'
    <3>1. i - 1 \in 0..(N-1) /\ i - 1 \in 0..N
      BY <2>1, BitAssumption DEF ExceededTypeOK, NextBit
    <3>2. BitEntry(hyperperiod, i-1) \in ExceededEntry
      BY <2>1, <3>1, EntryFits DEF ExceededTypeOK
    <3> QED BY <2>1, <3>1, <3>2 DEF ExceededTypeOK, NextBit
  <2> QED BY <2>1 DEF NextBit, ExceededTypeOK, exceededVars
<1> QED BY <1>1, <1>2, PTL DEF ExceededSpec

\* The two facts that every iteration keeps: what the entries match so far, and
\* that no two of them match the same position.
ExceededIInv == ExceededTypeOK /\ ExceededSoFar /\ PriorityIrrelevant

LEMMA ExceededInitIInv == ExceededInit => ExceededIInv
<1>1. ASSUME ExceededInit PROVE ExceededTypeOK
  BY <1>1, BitAssumption DEF ExceededInit, ExceededTypeOK
<1>2. ASSUME ExceededInit PROVE ExceededSoFar
  <2>1. ASSUME NEW v \in Position PROVE ~(Keep(v, i) > Keep(hyperperiod, i))
    BY <1>2, <2>1, KeepAllOrNothing DEF ExceededInit
  <2> QED BY <1>2, <2>1 DEF ExceededInit, ExceededSoFar
<1>3. ExceededInit => PriorityIrrelevant
  BY DEF ExceededInit, PriorityIrrelevant
<1> QED BY <1>1, <1>2, <1>3 DEF ExceededIInv

LEMMA ExceededNextIInv == ExceededIInv /\ [NextBit]_exceededVars => ExceededIInv'
<1> SUFFICES ASSUME ExceededIInv, NextBit PROVE ExceededIInv'
  BY DEF ExceededIInv, ExceededTypeOK, ExceededSoFar, PriorityIrrelevant, NextBit, exceededVars
<1> DEFINE j == i - 1
           added == BitEntry(hyperperiod, j)
<1>1. /\ j \in 0..(N-1) /\ j + 1 = i /\ i' = j /\ hyperperiod' = hyperperiod
      /\ hyperperiod \in Position /\ hyperperiod \in Nat
      /\ exceeded' = exceeded \union (IF BitIsZero(hyperperiod, j) THEN {added} ELSE {})
  BY BitAssumption DEF ExceededIInv, ExceededTypeOK, NextBit, Position
<1>2. added \in ExceededEntry
  BY <1>1, EntryFits
<1>3. ASSUME NEW v \in Position
      PROVE  ExceededHit(added, v) <=> Keep(v, j) = Keep(hyperperiod, j+1) + Bit[j]
  BY DEF ExceededHit, BitEntry
<1>4. \A v \in Position : v \in Nat
  BY DEF Position
<1> HIDE DEF j, added
<1>5. ExceededTypeOK'
  BY <1>1, <1>2, BitAssumption DEF ExceededIInv, ExceededTypeOK
<1>6. ExceededSoFar'
  <2>1. ASSUME NEW v \in Position
        PROVE  (\E e \in exceeded' : ExceededHit(e, v)) <=> Keep(v, j) > Keep(hyperperiod, j)
    <3>1. (\E e \in exceeded : ExceededHit(e, v)) <=> Keep(v, j+1) > Keep(hyperperiod, j+1)
      BY <1>1 DEF ExceededIInv, ExceededSoFar
    <3>2. Keep(v, j) > Keep(hyperperiod, j) <=>
            \/ Keep(v, j+1) > Keep(hyperperiod, j+1)
            \/ BitIsZero(hyperperiod, j) /\ Keep(v, j) = Keep(hyperperiod, j+1) + Bit[j]
      BY <1>1, <1>4, ExceedsInOneMoreBit
    <3>3. (\E e \in exceeded' : ExceededHit(e, v)) <=>
            \/ \E e \in exceeded : ExceededHit(e, v)
            \/ BitIsZero(hyperperiod, j) /\ ExceededHit(added, v)
      BY <1>1
    <3> QED BY <3>1, <3>2, <3>3, <1>3
  <2> QED BY <1>1, <2>1 DEF ExceededSoFar, Keep, ExceededHit
<1>7. PriorityIrrelevant'
  <2>1. ASSUME NEW v \in Position, NEW e \in exceeded, ExceededHit(e, v), ExceededHit(added, v)
        PROVE  FALSE
    <3>1. Keep(v, j+1) > Keep(hyperperiod, j+1)
      BY <1>1, <2>1 DEF ExceededIInv, ExceededSoFar
    <3>2. Keep(v, j) = Keep(hyperperiod, j+1) + Bit[j]
      BY <1>3, <2>1
    <3> QED BY <3>1, <3>2, <1>1, <1>4, EntryOfOneBit
  <2> QED BY <1>1, <2>1 DEF ExceededIInv, PriorityIrrelevant, ExceededHit, Keep
<1> QED BY <1>5, <1>6, <1>7 DEF ExceededIInv

LEMMA ExceededInductive == ExceededSpec => []ExceededIInv
BY ExceededInitIInv, ExceededNextIInv, PTL DEF ExceededSpec

\* The finished table matches the positions behind the hyperperiod and no other
\* one, for every duration and every width of the time stamps.
THEOREM TableIsComparison == ExceededSpec => []ExactlyExceeded
<1>1. ExceededIInv => ExactlyExceeded
  BY KeepAllOrNothing DEF ExceededIInv, ExceededTypeOK, ExceededSoFar, ExactlyExceeded
<1> QED BY <1>1, ExceededInductive, PTL

\* At most one entry matches a position, so the priorities do not matter.
THEOREM PrioritiesDoNotMatter == ExceededSpec => []PriorityIrrelevant
<1>1. ExceededIInv => PriorityIrrelevant
  BY DEF ExceededIInv
<1> QED BY <1>1, ExceededInductive, PTL
-----------------------------------------------------------------------------
\* A function that sums up exists: the one for m - 1 numbers, and one number more.
LEMMA SumsThere ==
    ASSUME NEW n \in Nat, NEW d \in [1..n -> Int]
    PROVE  \E f : f = [j \in {0} \union DOMAIN d |-> IF j = 0 THEN 0 ELSE f[j-1] + d[j]]
<1> DEFINE Good(m, f) == f = [j \in 0..m |-> IF j = 0 THEN 0 ELSE f[j-1] + d[j]]
           S == {m \in 0..n : ~\E f : Good(m, f)}
<1> HIDE DEF Good
<1>1. S = {}
  <2> SUFFICES ASSUME S # {} PROVE FALSE
    OBVIOUS
  <2>1. PICK m \in S : \A h \in S : m <= h
    <3>1. S \in SUBSET Nat
      OBVIOUS
    <3> HIDE DEF S
    <3> QED BY <3>1, LeastElement
  <2>2. m \in 0..n /\ ~\E f : Good(m, f)
    OBVIOUS
  <2>3. m # 0
    <3>1. [j \in 0..0 |-> 0] = [j \in 0..0 |-> IF j = 0 THEN 0 ELSE [h \in 0..0 |-> 0][j-1] + d[j]]
      OBVIOUS
    <3> QED BY <2>2, <3>1 DEF Good
  <2>4. m - 1 \in 0..n /\ m - 1 \notin S /\ m \in Nat
    <3>1. m - 1 \in 0..n /\ m \in Nat
      BY <2>2, <2>3
    <3> HIDE DEF S
    <3> QED BY <2>1, <3>1
  <2>5. PICK f : Good(m - 1, f)
    BY <2>4
  <2> DEFINE g == [j \in 0..m |-> IF j = m THEN f[m-1] + d[m] ELSE f[j]]
  <2>6. ASSUME NEW j \in 0..m PROVE g[j] = IF j = 0 THEN 0 ELSE g[j-1] + d[j]
    <3>1. CASE j = 0
      <4>1. f[0] = 0
        BY <2>3, <2>4, <2>5 DEF Good
      <4> QED BY <2>3, <3>1, <4>1
    <3>2. CASE j # 0 /\ j # m
      <4>1. j \in 0..(m-1) /\ j - 1 \in 0..m /\ j - 1 # m
        BY <2>4, <3>2
      <4>2. f[j] = f[j-1] + d[j]
        BY <2>5, <3>2, <4>1 DEF Good
      <4> QED BY <3>2, <4>1, <4>2
    <3>3. CASE j # 0 /\ j = m
      <4>1. m - 1 \in 0..m /\ m - 1 # m
        BY <2>3, <2>4
      <4> QED BY <3>3, <4>1
    <3> QED BY <3>1, <3>2, <3>3
  <2>7. g = [j \in 0..m |-> IF j = 0 THEN 0 ELSE g[j-1] + d[j]]
    <3>1. g = [j \in 0..m |-> g[j]]
      OBVIOUS
    <3> HIDE DEF g
    <3> QED BY <2>6, <3>1
  <2> QED BY <2>2, <2>7 DEF Good
<1>2. n \in 0..n /\ n \notin S
  <2> HIDE DEF S
  <2> QED BY <1>1
<1>3. PICK f : Good(n, f)
  BY <1>2
<1>4. {0} \union DOMAIN d = 0..n
  OBVIOUS
<1> QED BY <1>3, <1>4 DEF Good

\* The sums of numbers are what their definition says of them.
LEMMA SumsAre ==
    ASSUME NEW n \in Nat, NEW d \in [1..n -> Int]
    PROVE  /\ Sums(d)[0] = 0
           /\ \A j \in 1..n : Sums(d)[j] = Sums(d)[j-1] + d[j]
           /\ \A j \in 0..n : Sums(d)[j] \in Int
<1>1. Sums(d) = [j \in {0} \union DOMAIN d |-> IF j = 0 THEN 0 ELSE Sums(d)[j-1] + d[j]]
  BY SumsThere DEF Sums
<1> DEFINE s == Sums(d)
<1>2. s = [j \in {0} \union DOMAIN d |-> IF j = 0 THEN 0 ELSE s[j-1] + d[j]]
  BY <1>1
<1> HIDE DEF s
<1>3. s[0] = 0 /\ \A j \in 1..n : s[j] = s[j-1] + d[j]
  BY <1>2
<1> DEFINE T == {j \in 0..n : s[j] \notin Int}
<1>4. T = {}
  <2> SUFFICES ASSUME T # {} PROVE FALSE
    OBVIOUS
  <2>1. PICK m \in T : \A h \in T : m <= h
    <3>1. T \in SUBSET Nat
      OBVIOUS
    <3> HIDE DEF T
    <3> QED BY <3>1, LeastElement
  <2>2. m \in 0..n /\ s[m] \notin Int /\ m # 0
    BY <1>3
  <2>3. m - 1 \in 0..n /\ m - 1 \notin T
    BY <2>1, <2>2
  <2>4. s[m-1] \in Int /\ m \in 1..n /\ d[m] \in Int
    BY <2>2, <2>3
  <2> QED BY <1>3, <2>2, <2>4
<1> QED BY <1>3, <1>4 DEF s

LEMMA InputParts ==
    ASSUME NEW g \in Inputs
    PROVE  /\ g.period \in Nat /\ g.guard_band_width \in Nat
           /\ g.time_slices \in Seq(TimeSlice)
           /\ Len(g.time_slices) \in Nat
           /\ DOMAIN g.time_slices = 1..Len(g.time_slices)
           /\ \A j \in 1..Len(g.time_slices) :
                /\ g.time_slices[j] \in TimeSlice
                /\ Width(g.time_slices[j]) \in Int
                /\ g.guard_band_width # 0 => Width(g.time_slices[j]) \in Nat
<1>1. g \in [period : Nat, guard_band_width : Nat, time_slices : Seq(TimeSlice)]
  BY InputAssumption
<1>2. g.time_slices \in Seq(TimeSlice)
  BY <1>1
<1>3. /\ Len(g.time_slices) \in Nat /\ DOMAIN g.time_slices = 1..Len(g.time_slices)
      /\ \A j \in 1..Len(g.time_slices) : g.time_slices[j] \in TimeSlice
  BY <1>2
<1>4. ASSUME NEW j \in 1..Len(g.time_slices)
      PROVE  /\ Width(g.time_slices[j]) \in Int
             /\ g.guard_band_width # 0 => Width(g.time_slices[j]) \in Nat
  <2>1. g.time_slices[j].low \in Nat /\ g.time_slices[j].high \in Nat
    BY <1>3 DEF TimeSlice
  <2>2. g.guard_band_width # 0 => g.time_slices[j].low <= g.time_slices[j].high
    BY <1>3, InputAssumption
  <2> QED BY <2>1, <2>2 DEF Width
<1> QED BY <1>1, <1>2, <1>3, <1>4

\* The ends of the guard bands follow each other, a slice and a band apart.
LEMMA EndsAre ==
    ASSUME NEW g \in Inputs
    PROVE  /\ Ends(g)[0] = 0
           /\ \A j \in 1..Len(g.time_slices) :
                Ends(g)[j] = Ends(g)[j-1] + (Width(g.time_slices[j]) + g.guard_band_width)
           /\ \A j \in 0..Len(g.time_slices) : Ends(g)[j] \in Int
<1> DEFINE d == [j \in DOMAIN g.time_slices |-> Width(g.time_slices[j]) + g.guard_band_width]
<1>1. PICK n \in Nat : n = Len(g.time_slices) /\ DOMAIN g.time_slices = 1..n
  BY InputParts
<1>2. \A j \in 1..n : Width(g.time_slices[j]) + g.guard_band_width \in Int
  BY <1>1, InputParts
<1>3. d \in [1..n -> Int]
  BY <1>1, <1>2
<1>4. Ends(g) = Sums(d)
  BY DEF Ends
<1>5. \A j \in 1..n : d[j] = Width(g.time_slices[j]) + g.guard_band_width
  BY <1>1
<1> HIDE DEF d
<1>6. /\ Sums(d)[0] = 0
      /\ \A j \in 1..n : Sums(d)[j] = Sums(d)[j-1] + d[j]
      /\ \A j \in 0..n : Sums(d)[j] \in Int
  BY <1>3, SumsAre
<1> QED BY <1>1, <1>4, <1>5, <1>6

LEMMA EndsGrow ==
    ASSUME NEW g \in Inputs, g.guard_band_width # 0
    PROVE  /\ \A j \in 0..Len(g.time_slices) : Ends(g)[j] \in Nat
           /\ \A a, b \in 0..Len(g.time_slices) : a <= b => Ends(g)[a] <= Ends(g)[b]
<1>1. PICK n \in Nat : n = Len(g.time_slices)
  BY InputParts
<1>2. PICK e : e = Ends(g)
  OBVIOUS
<1>3. /\ e[0] = 0
      /\ \A j \in 0..n : e[j] \in Int
      /\ \A j \in 1..n : e[j-1] <= e[j]
  <2>1. ASSUME NEW j \in 1..n PROVE e[j-1] <= e[j]
    <3>1. PICK w \in Nat : w = Width(g.time_slices[j]) + g.guard_band_width
      BY <1>1, InputParts
    <3>2. e[j-1] \in Int /\ e[j] \in Int /\ e[j] = e[j-1] + w
      <4>1. j - 1 \in 0..n /\ j \in 0..n
        BY <1>1
      <4> QED BY <1>1, <1>2, <3>1, <4>1, EndsAre
    <3> QED BY <3>2
  <2> QED BY <1>1, <1>2, <2>1, EndsAre
<1>4. ASSUME NEW a \in 0..n, NEW b \in 0..n, a <= b PROVE e[a] <= e[b]
  <2> DEFINE S == {c \in a..n : ~(e[a] <= e[c])}
  <2>1. SUFFICES ASSUME S # {} PROVE FALSE
    BY <1>4
  <2>2. PICK c \in S : \A h \in S : c <= h
    <3>1. S \in SUBSET Nat
      BY <1>4
    <3> HIDE DEF S
    <3> QED BY <2>1, <3>1, LeastElement
  <2>3. c \in a..n /\ ~(e[a] <= e[c]) /\ e[a] \in Int
    BY <1>3
  <2>4. c # a
    BY <2>3
  <2>5. c - 1 \in a..n /\ c \in 1..n /\ c - 1 \notin S
    <3>1. c - 1 \in a..n /\ c \in 1..n
      BY <2>3, <2>4
    <3>2. ~(c <= c - 1)
      BY <2>3
    <3> HIDE DEF S
    <3> QED BY <2>2, <3>1, <3>2
  <2>6. e[a] <= e[c-1] /\ e[c-1] <= e[c] /\ e[c-1] \in Int /\ e[c] \in Int
    BY <1>3, <2>3, <2>5
  <2> QED BY <2>3, <2>6
<1>5. ASSUME NEW j \in 0..n PROVE e[j] \in Nat
  <2>1. e[0] <= e[j] /\ e[j] \in Int
    BY <1>1, <1>3, <1>4
  <2> QED BY <1>3, <2>1
<1> QED BY <1>1, <1>2, <1>4, <1>5
-----------------------------------------------------------------------------
\* Slice j of a tGCL moved to its place, and the guard band behind it.
Moved(g, j) ==
    [g.time_slices[j] EXCEPT !.low = Ends(g)[j-1],
                             !.high = Ends(g)[j-1] + Width(g.time_slices[j])]
Band(g, j) ==
    GuardSlice(g.time_slices[j], Ends(g)[j-1] + Width(g.time_slices[j]), g.guard_band_width)

\* The first n slices of a tGCL, each moved and with its guard band.
Expansion(g, n, slices) ==
    /\ slices \in Seq(TimeSlice)
    /\ Len(slices) = 2 * n
    /\ \A j \in 1..n : slices[2*j - 1] = Moved(g, j) /\ slices[2*j] = Band(g, j)

GuardIInv ==
    /\ gcl \in Inputs
    /\ k \in 0..Len(gcl.time_slices)
    /\ gcl.guard_band_width = 0 => k = 0
    /\ new.last_high = Ends(gcl)[k]
    /\ Expansion(gcl, k, new.time_slices)
    /\ guarded # Pending =>
         guarded = <<IF gcl.guard_band_width = 0 THEN gcl
                     ELSE [gcl EXCEPT
                             !.period = @ + gcl.guard_band_width * Len(gcl.time_slices),
                             !.time_slices = new.time_slices]>>
    /\ guarded # Pending /\ gcl.guard_band_width # 0 => k = Len(gcl.time_slices)

\* What a slice and its guard band are.
LEMMA MovedIs ==
    ASSUME NEW g \in Inputs, g.guard_band_width # 0, NEW j \in 1..Len(g.time_slices)
    PROVE  /\ Moved(g, j) \in TimeSlice /\ Band(g, j) \in TimeSlice
           /\ Moved(g, j).low = Ends(g)[j-1]
           /\ Moved(g, j).high = Ends(g)[j] - g.guard_band_width
           /\ Moved(g, j).queue_states = g.time_slices[j].queue_states
           /\ Moved(g, j).low <= Moved(g, j).high
           /\ Width(Moved(g, j)) = Width(g.time_slices[j])
           /\ Band(g, j).low = Moved(g, j).high
           /\ Band(g, j).high = Ends(g)[j]
           /\ DOMAIN Band(g, j).queue_states = DOMAIN g.time_slices[j].queue_states
           /\ \A q \in DOMAIN Band(g, j).queue_states : Band(g, j).queue_states[q] = 1
<1>1. PICK ts \in TimeSlice : ts = g.time_slices[j]
  BY InputParts
<1>2. PICK w \in Nat : w = g.guard_band_width
  BY InputParts
<1>3. PICK x \in Nat : x = Width(ts)
  BY <1>1, InputParts
<1>4. PICK e \in Nat : e = Ends(g)[j-1]
  <2>1. j - 1 \in 0..Len(g.time_slices)
    BY InputParts
  <2> QED BY <2>1, EndsGrow
<1>5. Ends(g)[j] = e + (x + w)
  BY <1>1, <1>2, <1>3, <1>4, EndsAre
<1>6. /\ Moved(g, j) = [ts EXCEPT !.low = e, !.high = e + x]
      /\ Band(g, j) = [low |-> e + x, high |-> e + x + w,
                       queue_states |-> [q \in DOMAIN ts.queue_states |-> 1]]
  BY <1>1, <1>2, <1>3, <1>4 DEF Moved, Band, GuardSlice
<1>7. /\ Moved(g, j) = [low |-> e, high |-> e + x, queue_states |-> ts.queue_states]
  BY <1>6 DEF TimeSlice
<1>8. [q \in DOMAIN ts.queue_states |-> 1] \in UNION {[qs -> {0, 1}] : qs \in SUBSET Queues}
  <2>1. PICK qs \in SUBSET Queues : ts.queue_states \in [qs -> {0, 1}]
    BY DEF TimeSlice
  <2>2. [q \in DOMAIN ts.queue_states |-> 1] \in [qs -> {0, 1}]
    BY <2>1
  <2> QED BY <2>2
<1>9. Moved(g, j) \in TimeSlice
  BY <1>7 DEF TimeSlice
<1>10. Band(g, j) \in TimeSlice
  BY <1>6, <1>8 DEF TimeSlice
<1> HIDE DEF Ends
<1> QED BY <1>1, <1>2, <1>3, <1>4, <1>5, <1>6, <1>7, <1>9, <1>10 DEF Width

\* Two more slices behind a sequence of them.
LEMMA TwoMore ==
    ASSUME NEW S, NEW s \in Seq(S), NEW n \in Nat, Len(s) = 2 * n, NEW a \in S, NEW b \in S
    PROVE  /\ s \o <<a, b>> \in Seq(S)
           /\ Len(s \o <<a, b>>) = 2 * (n + 1)
           /\ (s \o <<a, b>>)[2 * (n + 1) - 1] = a
           /\ (s \o <<a, b>>)[2 * (n + 1)] = b
           /\ \A j \in 1..(2 * n) : (s \o <<a, b>>)[j] = s[j]
<1>1. PICK m \in Nat : m = Len(s) /\ m = 2 * n
  OBVIOUS
<1>2. /\ <<a, b>> \in Seq(S) /\ Len(<<a, b>>) = 2 /\ <<a, b>>[1] = a /\ <<a, b>>[2] = b
  OBVIOUS
<1>3. /\ s \o <<a, b>> \in Seq(S) /\ Len(s \o <<a, b>>) = m + 2
      /\ \A j \in 1..(m + 2) : (s \o <<a, b>>)[j] = IF j <= m THEN s[j] ELSE <<a, b>>[j - m]
  BY <1>1, <1>2
<1>4. /\ (s \o <<a, b>>)[m + 1] = <<a, b>>[1] /\ (s \o <<a, b>>)[m + 2] = <<a, b>>[2]
      /\ \A j \in 1..m : (s \o <<a, b>>)[j] = s[j]
  <2>1. m + 1 \in 1..(m + 2) /\ m + 2 \in 1..(m + 2) /\ ~(m + 1 <= m) /\ ~(m + 2 <= m)
        /\ m + 1 - m = 1 /\ m + 2 - m = 2
    OBVIOUS
  <2>2. \A j \in 1..m : j \in 1..(m + 2) /\ j <= m
    OBVIOUS
  <2> QED BY <1>3, <2>1, <2>2
<1>5. 2 * (n + 1) = m + 2 /\ 2 * (n + 1) - 1 = m + 1
  BY <1>1
<1> QED BY <1>1, <1>2, <1>3, <1>4, <1>5

LEMMA GuardInitIInv == GuardInit => GuardIInv
<1> SUFFICES ASSUME GuardInit PROVE GuardIInv
  OBVIOUS
<1>1. /\ gcl \in Inputs /\ k = 0 /\ new.last_high = 0 /\ new.time_slices = <<>>
      /\ guarded = Pending
  BY DEF GuardInit
<1>2. 0 \in 0..Len(gcl.time_slices) /\ Ends(gcl)[0] = 0
  BY <1>1, InputParts, EndsAre
<1>3. Expansion(gcl, 0, <<>>)
  BY DEF Expansion
<1> QED BY <1>1, <1>2, <1>3 DEF GuardIInv

LEMMA EmitSliceIInv == GuardIInv /\ EmitSlice => GuardIInv'
<1> SUFFICES ASSUME GuardIInv, EmitSlice PROVE GuardIInv'
  OBVIOUS
<1>1. /\ guarded = Pending /\ gcl.guard_band_width # 0 /\ k < Len(gcl.time_slices)
      /\ new' = AppendGuarded(new, gcl.time_slices[k+1], gcl.guard_band_width)
      /\ k' = k + 1 /\ gcl' = gcl /\ guarded' = guarded
  BY DEF EmitSlice
<1>2. gcl \in Inputs
  BY DEF GuardIInv
<1>3. PICK n \in Nat : n = Len(gcl.time_slices)
  BY <1>2, InputParts
<1>4. k \in Nat /\ k + 1 \in 1..n /\ k + 1 \in 0..n /\ k \in 0..n /\ k + 1 - 1 = k
  BY <1>1, <1>3 DEF GuardIInv
<1>5. /\ Moved(gcl, k+1) \in TimeSlice /\ Band(gcl, k+1) \in TimeSlice
      /\ Ends(gcl)[k+1] = Ends(gcl)[k] + (Width(gcl.time_slices[k+1]) + gcl.guard_band_width)
      /\ Ends(gcl)[k] \in Int
  BY <1>1, <1>2, <1>3, <1>4, MovedIs, EndsAre
<1>6. PICK e \in Int, w \in Nat, ts \in TimeSlice, x \in Int :
           /\ e = new.last_high /\ e = Ends(gcl)[k] /\ w = gcl.guard_band_width
           /\ ts = gcl.time_slices[k+1] /\ x = ts.high - ts.low /\ x = Width(ts)
  <2>1. new.last_high = Ends(gcl)[k] /\ Ends(gcl)[k] \in Int
    BY <1>5 DEF GuardIInv
  <2>2. /\ gcl.guard_band_width \in Nat /\ gcl.time_slices[k+1] \in TimeSlice
        /\ Width(gcl.time_slices[k+1]) \in Int
    BY <1>2, <1>3, <1>4, InputParts
  <2> QED BY <2>1, <2>2 DEF Width
<1>7. /\ new'.last_high = Ends(gcl)[k+1]
      /\ new'.time_slices = new.time_slices \o <<Moved(gcl, k+1), Band(gcl, k+1)>>
  <2>1. new' = [last_high |-> e + x + w,
                time_slices |-> new.time_slices
                                  \o <<[ts EXCEPT !.low = e, !.high = e + x],
                                       GuardSlice(ts, e + x, w)>>]
    BY <1>1, <1>6 DEF AppendGuarded
  <2>2. Ends(gcl)[k+1] = e + (x + w) /\ e + x + w = e + (x + w)
    BY <1>5, <1>6
  <2> DEFINE j == k + 1
  <2>3. Ends(gcl)[j-1] = e /\ gcl.time_slices[j] = ts
    BY <1>4, <1>6
  <2> HIDE DEF j
  <2>4. Moved(gcl, j) = [ts EXCEPT !.low = e, !.high = e + x]
    BY <1>6, <2>3 DEF Moved
  <2>5. Band(gcl, j) = GuardSlice(ts, e + x, w)
    BY <1>6, <2>3 DEF Band
  <2> QED BY <2>1, <2>2, <2>3, <2>4, <2>5 DEF j
<1>8. Expansion(gcl, k + 1, new'.time_slices)
  <2>1. PICK s \in Seq(TimeSlice) : s = new.time_slices
    BY DEF GuardIInv, Expansion
  <2>2. /\ Len(s) = 2 * k
        /\ \A j \in 1..k : s[2*j - 1] = Moved(gcl, j) /\ s[2*j] = Band(gcl, j)
    BY <2>1 DEF GuardIInv, Expansion
  <2>3. PICK a \in TimeSlice, b \in TimeSlice : a = Moved(gcl, k+1) /\ b = Band(gcl, k+1)
    BY <1>5
  <2>4. PICK t : t = s \o <<a, b>>
    OBVIOUS
  <2>5. /\ t \in Seq(TimeSlice) /\ Len(t) = 2 * (k + 1)
        /\ t[2 * (k + 1) - 1] = a /\ t[2 * (k + 1)] = b
        /\ \A j \in 1..(2 * k) : t[j] = s[j]
    BY <1>4, <2>2, <2>4, TwoMore
  <2>6. ASSUME NEW j \in 1..(k + 1) PROVE t[2*j - 1] = Moved(gcl, j) /\ t[2*j] = Band(gcl, j)
    <3>1. CASE j = k + 1
      BY <2>3, <2>5, <3>1
    <3>2. CASE j # k + 1
      <4>1. j \in 1..k /\ 2 * j - 1 \in 1..(2 * k) /\ 2 * j \in 1..(2 * k)
        BY <1>4, <3>2
      <4> QED BY <2>2, <2>5, <4>1
    <3> QED BY <3>1, <3>2
  <2> QED BY <1>7, <2>1, <2>3, <2>4, <2>5, <2>6 DEF Expansion
<1> QED BY <1>1, <1>2, <1>3, <1>4, <1>7, <1>8 DEF GuardIInv

LEMMA GuardNextIInv == GuardIInv /\ [GuardNext]_guardVars => GuardIInv'
<1> SUFFICES ASSUME GuardIInv, [GuardNext]_guardVars PROVE GuardIInv'
  OBVIOUS
<1>1. CASE CopyUnguarded
  <2>1. /\ gcl.guard_band_width = 0 /\ guarded' = <<gcl>> /\ gcl' = gcl /\ k' = k /\ new' = new
    BY <1>1 DEF CopyUnguarded
  <2> QED BY <2>1 DEF GuardIInv
<1>2. CASE PushExpanded
  <2>1. /\ gcl.guard_band_width # 0 /\ k = Len(gcl.time_slices)
        /\ guarded' = <<[gcl EXCEPT !.period = @ + gcl.guard_band_width * k,
                                    !.time_slices = new.time_slices]>>
        /\ gcl' = gcl /\ k' = k /\ new' = new
    BY <1>2 DEF PushExpanded
  <2> QED BY <2>1 DEF GuardIInv
<1>3. CASE UNCHANGED guardVars
  <2>1. gcl' = gcl /\ k' = k /\ new' = new /\ guarded' = guarded
    BY <1>3 DEF guardVars
  <2> QED BY <2>1 DEF GuardIInv
<1> QED BY <1>1, <1>2, <1>3, EmitSliceIInv DEF GuardNext

LEMMA EveryPlace ==
    \A n \in Nat : \A p \in 1..(2 * n) : \E j \in 1..n : p = 2 * j - 1 \/ p = 2 * j
<1> SUFFICES ASSUME NEW n \in Nat, NEW p \in 1..(2 * n)
             PROVE  \E j \in 1..n : p = 2 * j - 1 \/ p = 2 * j
  OBVIOUS
<1>1. PICK q \in Nat, r \in 0 .. 1 : p = 2 * q + r
  <2>1. p \in Nat /\ 2 \in Nat \ {0}
    OBVIOUS
  <2>2. \E q \in Nat, r \in 0 .. (2 - 1) : p = 2 * q + r /\ (p % 2) = r
    BY <2>1, Quotient
  <2> QED BY <2>2
<1>2. CASE r = 0
  <2>1. q \in 1..n /\ p = 2 * q
    BY <1>1, <1>2
  <2> QED BY <2>1
<1>3. CASE r = 1
  <2>1. q + 1 \in 1..n /\ p = 2 * (q + 1) - 1
    BY <1>1, <1>3
  <2> QED BY <2>1
<1> QED BY <1>2, <1>3

LEMMA GuardTypeFollows == GuardIInv => GuardTypeOK
<1> SUFFICES ASSUME GuardIInv PROVE GuardTypeOK
  OBVIOUS
<1>1. gcl \in Inputs /\ k \in 0..Len(gcl.time_slices) /\ Expansion(gcl, k, new.time_slices)
  BY DEF GuardIInv
<1>2. PICK s \in Seq(TimeSlice) : s = new.time_slices /\ Len(s) = 2 * k /\ DOMAIN s = 1..Len(s)
  BY <1>1 DEF Expansion
<1>3. ASSUME NEW p \in DOMAIN new.time_slices
      PROVE  /\ new.time_slices[p].low \in Nat
             /\ new.time_slices[p].low <= new.time_slices[p].high
             /\ new.time_slices[p].high <= new.last_high
  <2>1. k \in Nat /\ p \in 1..(2 * k)
    BY <1>1, <1>2, InputParts
  <2>2. PICK j \in 1..k : p = 2 * j - 1 \/ p = 2 * j
    BY <2>1, EveryPlace
  <2>3. gcl.guard_band_width # 0 /\ j \in 1..Len(gcl.time_slices)
    BY <1>1, <2>1, InputParts DEF GuardIInv
  <2>4. s[p] = Moved(gcl, j) \/ s[p] = Band(gcl, j)
    BY <1>1, <1>2, <2>2 DEF Expansion
  <2>5. PICK w \in Nat : w = gcl.guard_band_width
    BY <1>1, InputParts
  <2>6. /\ Ends(gcl)[j-1] \in Nat /\ Ends(gcl)[j] \in Nat
        /\ Ends(gcl)[j] <= Ends(gcl)[k] /\ Ends(gcl)[k] \in Nat
    <3>1. j \in 0..Len(gcl.time_slices) /\ j - 1 \in 0..Len(gcl.time_slices) /\ j <= k
      BY <1>1, <2>1, <2>3, InputParts
    <3> QED BY <1>1, <2>3, <3>1, EndsGrow
  <2>7. /\ Moved(gcl, j).low = Ends(gcl)[j-1]
        /\ Moved(gcl, j).high = Ends(gcl)[j] - w
        /\ Moved(gcl, j).low <= Moved(gcl, j).high
        /\ Band(gcl, j).low = Moved(gcl, j).high
        /\ Band(gcl, j).high = Ends(gcl)[j]
    BY <1>1, <2>3, <2>5, MovedIs
  <2>8. new.last_high = Ends(gcl)[k]
    BY DEF GuardIInv
  <2>9. CASE s[p] = Moved(gcl, j)
    BY <1>2, <2>5, <2>6, <2>7, <2>8, <2>9
  <2>10. CASE s[p] = Band(gcl, j)
    BY <1>2, <2>5, <2>6, <2>7, <2>8, <2>10
  <2> QED BY <2>4, <2>9, <2>10
<1>4. Len(new.time_slices) = 2 * k
  BY <1>2
<1>5. guarded = Pending \/ DOMAIN guarded = {1}
  <2> DEFINE a == IF gcl.guard_band_width = 0 THEN gcl
                  ELSE [gcl EXCEPT
                             !.period = @ + gcl.guard_band_width * Len(gcl.time_slices),
                             !.time_slices = new.time_slices]
  <2>1. guarded # Pending => guarded = <<a>>
    BY DEF GuardIInv
  <2> HIDE DEF a
  <2>2. DOMAIN <<a>> = {1}
    OBVIOUS
  <2> QED BY <2>1, <2>2
<1> QED BY <1>1, <1>3, <1>4, <1>5 DEF GuardTypeOK

\* What is pushed for a tGCL with guard bands.
LEMMA GuardedIs ==
    ASSUME GuardIInv, guarded # Pending
    PROVE  /\ gcl \in Inputs
           /\ gcl.guard_band_width = 0 => guarded[1] = gcl
           /\ gcl.guard_band_width # 0 =>
                /\ guarded[1].period = gcl.period + gcl.guard_band_width * Len(gcl.time_slices)
                /\ guarded[1].guard_band_width = gcl.guard_band_width
                /\ Expansion(gcl, Len(gcl.time_slices), guarded[1].time_slices)
<1>1. gcl \in Inputs
  BY DEF GuardIInv
<1>2. CASE gcl.guard_band_width = 0
  BY <1>1, <1>2 DEF GuardIInv
<1>3. CASE gcl.guard_band_width # 0
  <2> DEFINE a == [gcl EXCEPT
                     !.period = @ + gcl.guard_band_width * Len(gcl.time_slices),
                     !.time_slices = new.time_slices]
  <2>1. guarded[1] = a
    BY <1>3 DEF GuardIInv
  <2>2. gcl \in [period : Nat, guard_band_width : Nat, time_slices : Seq(TimeSlice)]
    BY <1>1, InputAssumption
  <2>3. /\ a.period = gcl.period + gcl.guard_band_width * Len(gcl.time_slices)
        /\ a.guard_band_width = gcl.guard_band_width /\ a.time_slices = new.time_slices
    BY <2>2
  <2>4. Expansion(gcl, Len(gcl.time_slices), new.time_slices)
    BY <1>3 DEF GuardIInv
  <2> QED BY <1>1, <1>3, <2>1, <2>3, <2>4
<1> QED BY <1>2, <1>3

\* The slices of a tGCL that covers its period end where they should: shifted
\* by the guard bands before them.
LEMMA TilesEnds ==
    ASSUME NEW g \in Inputs, g.guard_band_width # 0, Tiles(g)
    PROVE  Ends(g)[Len(g.time_slices)] = g.period + g.guard_band_width * Len(g.time_slices)
<1>1. PICK n \in Nat : n = Len(g.time_slices) /\ n >= 1
  <2>1. g.time_slices \in Seq(TimeSlice) /\ g.time_slices # <<>>
    BY InputParts DEF Tiles
  <2>2. Len(g.time_slices) \in Nat /\ Len(g.time_slices) # 0
    BY <2>1
  <2> QED BY <2>2
<1>2. PICK w \in Nat : w = g.guard_band_width
  BY InputParts
<1> DEFINE High(j) == g.time_slices[j].high
           S == {j \in 1..n : ~(Ends(g)[j] = High(j) + w * j)}
<1>3. ASSUME NEW j \in 1..n
      PROVE  /\ g.time_slices[j].low \in Nat /\ High(j) \in Nat
             /\ Ends(g)[j] = Ends(g)[j-1] + ((High(j) - g.time_slices[j].low) + w)
  <2>1. g.time_slices[j] \in TimeSlice
    BY <1>1, InputParts
  <2> QED BY <1>1, <1>2, <2>1, EndsAre DEF TimeSlice, Width
<1>4. /\ Ends(g)[0] = 0 /\ g.time_slices[1].low = 0 /\ High(n) = g.period
      /\ \A j \in 1..(n-1) : g.time_slices[j+1].low = High(j)
  BY <1>1, EndsAre DEF Tiles, LastOf
<1> HIDE DEF High
<1>5. S = {}
  <2>1. SUFFICES ASSUME S # {} PROVE FALSE
    OBVIOUS
  <2>2. PICK m \in S : \A h \in S : m <= h
    <3>1. S \in SUBSET Nat
      OBVIOUS
    <3> HIDE DEF S
    <3> QED BY <2>1, <3>1, LeastElement
  <2>3. m \in 1..n /\ ~(Ends(g)[m] = High(m) + w * m)
    OBVIOUS
  <2>4. CASE m = 1
    <3>1. Ends(g)[1] = 0 + ((High(1) - 0) + w) /\ High(1) \in Nat
      BY <1>3, <1>4, <2>3, <2>4
    <3>2. w * 1 = w
      OBVIOUS
    <3> QED BY <2>3, <2>4, <3>1, <3>2
  <2>5. CASE m # 1
    <3>1. PICK h \in 1..(n-1) : h = m - 1 /\ m = h + 1
      BY <2>3, <2>5
    <3>2. h \in 1..n /\ h \notin S
      <4>1. h \in 1..n /\ ~(m <= h)
        BY <2>3, <3>1
      <4> HIDE DEF S
      <4> QED BY <2>2, <4>1
    <3>3. Ends(g)[h] = High(h) + w * h /\ High(h) \in Nat /\ High(m) \in Nat
      BY <1>3, <2>3, <3>2
    <3>4. g.time_slices[m].low = High(h)
      BY <1>4, <3>1
    <3>5. Ends(g)[m] = Ends(g)[h] + ((High(m) - High(h)) + w)
      BY <1>3, <2>3, <3>1, <3>4
    <3>6. PICK z \in Nat : z = w * h /\ w * m = z + w
      <4>1. w * (h + 1) = w * h + w /\ w * h \in Nat
        OBVIOUS
      <4> QED BY <3>1, <4>1
    <3>7. Ends(g)[m] = High(m) + (z + w)
      <4>1. PICK x \in Nat, y \in Nat : x = High(h) /\ y = High(m)
        BY <3>3
      <4>2. Ends(g)[m] = (x + z) + ((y - x) + w)
        BY <3>3, <3>5, <3>6, <4>1
      <4> QED BY <4>1, <4>2
    <3> QED BY <2>3, <3>6, <3>7
  <2> QED BY <2>4, <2>5
<1>6. n \in 1..n /\ n \notin S
  <2> HIDE DEF S
  <2> QED BY <1>1, <1>5
<1>7. Ends(g)[n] = High(n) + w * n
  BY <1>6
<1> QED BY <1>1, <1>2, <1>4, <1>7

LEMMA CoverageFollows == GuardIInv => CoverageKept
<1> SUFFICES ASSUME GuardIInv, guarded # Pending, Tiles(gcl) PROVE Tiles(guarded[1])
  BY DEF CoverageKept
<1>1. CASE gcl.guard_band_width = 0
  BY <1>1, GuardedIs
<1>2. CASE gcl.guard_band_width # 0
  <2>1. PICK w \in Nat, n \in Nat : w = gcl.guard_band_width /\ n = Len(gcl.time_slices) /\ n >= 1
    <3>1. gcl.time_slices \in Seq(TimeSlice) /\ gcl.time_slices # <<>>
      BY GuardedIs, InputParts DEF Tiles
    <3>2. Len(gcl.time_slices) \in Nat /\ Len(gcl.time_slices) # 0
      BY <3>1
    <3> QED BY <3>2, GuardedIs, InputParts
  <2>2. PICK s \in Seq(TimeSlice) :
            /\ s = guarded[1].time_slices /\ Len(s) = 2 * n
            /\ \A j \in 1..n : s[2*j - 1] = Moved(gcl, j) /\ s[2*j] = Band(gcl, j)
    BY <1>2, <2>1, GuardedIs DEF Expansion
  <2>3. ASSUME NEW j \in 1..n
        PROVE  /\ Moved(gcl, j).low = Ends(gcl)[j-1]
               /\ Band(gcl, j).low = Moved(gcl, j).high
               /\ Band(gcl, j).high = Ends(gcl)[j]
    BY <1>2, <2>1, GuardedIs, MovedIs
  <2>4. s # <<>> /\ s[1].low = 0
    <3>1. 1 \in 1..n /\ 2 * 1 - 1 = 1 /\ Len(s) # 0
      BY <2>1, <2>2
    <3>2. s[1] = Moved(gcl, 1) /\ Moved(gcl, 1).low = Ends(gcl)[0]
      <4>1. s[2 * 1 - 1] = Moved(gcl, 1) /\ 1 - 1 = 0
        BY <2>2, <3>1
      <4> QED BY <2>3, <3>1, <4>1
    <3>3. Ends(gcl)[0] = 0
      BY GuardedIs, EndsAre
    <3> QED BY <3>1, <3>2, <3>3
  <2>5. ASSUME NEW p \in 1..(2 * n - 1) PROVE s[p+1].low = s[p].high
    <3>1. p \in 1..(2 * n)
      OBVIOUS
    <3>2. PICK j \in 1..n : p = 2 * j - 1 \/ p = 2 * j
      BY <3>1, EveryPlace
    <3>3. CASE p = 2 * j - 1
      <4>1. p + 1 = 2 * j
        BY <3>3
      <4>2. s[p+1] = Band(gcl, j) /\ s[p] = Moved(gcl, j)
        BY <2>2, <3>3, <4>1
      <4> QED BY <2>3, <4>2
    <3>4. CASE p = 2 * j
      <4>1. PICK h \in 1..n : h = j + 1 /\ p + 1 = 2 * h - 1 /\ h - 1 = j
        <5>1. j + 1 \in 1..n
          BY <3>4
        <5> QED BY <3>4, <5>1
      <4>2. s[p+1] = Moved(gcl, h) /\ s[p] = Band(gcl, j)
        BY <2>2, <3>4, <4>1
      <4>3. Moved(gcl, h).low = Ends(gcl)[j]
        BY <2>3, <4>1
      <4> QED BY <2>3, <4>2, <4>3
    <3> QED BY <3>2, <3>3, <3>4
  <2>6. s[2 * n].high = guarded[1].period
    <3>1. n \in 1..n
      BY <2>1
    <3>2. s[2 * n].high = Ends(gcl)[n]
      BY <2>2, <2>3, <3>1
    <3>3. Ends(gcl)[n] = gcl.period + gcl.guard_band_width * n
      BY <1>2, <2>1, GuardedIs, TilesEnds
    <3> QED BY <1>2, <2>1, <3>2, <3>3, GuardedIs
  <2> QED BY <2>2, <2>4, <2>5, <2>6 DEF Tiles, LastOf
<1> QED BY <1>1, <1>2

\* A guard band of width w ends no later than the slice that is behind it begins.
LEMMA BandBetween ==
    ASSUME NEW w \in Nat, NEW x \in Nat, NEW y \in Nat, x <= y
    PROVE  y - (x - w) >= w /\ \A h \in Nat : y - (x - w) + h >= w
OBVIOUS

LEMMA SeparationFollows == GuardIInv => SlicesSeparated
<1> SUFFICES ASSUME GuardIInv, guarded # Pending, gcl.guard_band_width # 0, Tiles(gcl),
                    NEW a \in DOMAIN guarded[1].time_slices,
                    NEW b \in DOMAIN guarded[1].time_slices, a # b,
                    NEW p \in Queues, NEW q \in Queues,
                    Opens(guarded[1].time_slices[a], p), Opens(guarded[1].time_slices[b], q)
             PROVE  IF a < b
                    THEN guarded[1].time_slices[b].low - guarded[1].time_slices[a].high
                           >= guarded[1].guard_band_width
                    ELSE guarded[1].period - guarded[1].time_slices[a].high
                           + guarded[1].time_slices[b].low >= guarded[1].guard_band_width
  BY DEF SlicesSeparated
<1>1. PICK w \in Nat, n \in Nat : w = gcl.guard_band_width /\ n = Len(gcl.time_slices)
  BY GuardedIs, InputParts
<1>2. PICK s \in Seq(TimeSlice) :
          /\ s = guarded[1].time_slices /\ Len(s) = 2 * n /\ DOMAIN s = 1..Len(s)
          /\ \A j \in 1..n : s[2*j - 1] = Moved(gcl, j) /\ s[2*j] = Band(gcl, j)
  <2>1. PICK s : s = guarded[1].time_slices
    OBVIOUS
  <2>2. Expansion(gcl, n, s)
    BY <1>1, <2>1, GuardedIs
  <2>3. s \in Seq(TimeSlice) /\ DOMAIN s = 1..Len(s)
    BY <2>2 DEF Expansion
  <2> QED BY <2>1, <2>2, <2>3 DEF Expansion
<1>3. guarded[1].guard_band_width = w /\ guarded[1].period = gcl.period + w * n
  BY <1>1, GuardedIs
<1>4. ASSUME NEW c \in 1..(2 * n), NEW u, Opens(s[c], u)
      PROVE  \E j \in 1..n : /\ c = 2 * j - 1
                             /\ s[c].low = Ends(gcl)[j-1] /\ s[c].high = Ends(gcl)[j] - w
  <2>1. PICK j \in 1..n : c = 2 * j - 1 \/ c = 2 * j
    BY EveryPlace
  <2>2. ~Opens(Band(gcl, j), u)
    BY <1>1, GuardedIs, MovedIs DEF Opens
  <2>3. c = 2 * j - 1
    BY <1>2, <1>4, <2>1, <2>2
  <2>4. Moved(gcl, j).low = Ends(gcl)[j-1] /\ Moved(gcl, j).high = Ends(gcl)[j] - w
    BY <1>1, GuardedIs, MovedIs
  <2> QED BY <1>2, <2>3, <2>4
<1>5. PICK i1 \in 1..n : /\ a = 2 * i1 - 1
                         /\ s[a].low = Ends(gcl)[i1-1] /\ s[a].high = Ends(gcl)[i1] - w
  BY <1>2, <1>4
<1>6. PICK i2 \in 1..n : /\ b = 2 * i2 - 1
                         /\ s[b].low = Ends(gcl)[i2-1] /\ s[b].high = Ends(gcl)[i2] - w
  BY <1>2, <1>4
<1>7. /\ n \in 0..n /\ i1 \in 0..n /\ i2 - 1 \in 0..n
      /\ Ends(gcl)[i1] \in Nat /\ Ends(gcl)[i2-1] \in Nat /\ Ends(gcl)[n] \in Nat
      /\ Ends(gcl)[i1] <= Ends(gcl)[n]
      /\ i1 <= i2 - 1 => Ends(gcl)[i1] <= Ends(gcl)[i2-1]
  <2>1. n \in 0..n /\ i1 \in 0..n /\ i2 - 1 \in 0..n /\ i1 <= n
    OBVIOUS
  <2> QED BY <1>1, <2>1, GuardedIs, EndsGrow
<1>8. guarded[1].period = Ends(gcl)[n]
  BY <1>1, <1>3, GuardedIs, TilesEnds
<1>9. CASE a < b
  <2>1. i1 <= i2 - 1
    BY <1>5, <1>6, <1>9
  <2>2. PICK x \in Nat, y \in Nat : x = Ends(gcl)[i1] /\ y = Ends(gcl)[i2-1] /\ x <= y
    BY <1>7, <2>1
  <2>3. y - (x - w) >= w
    BY <2>2, BandBetween
  <2> QED BY <1>2, <1>3, <1>5, <1>6, <1>9, <2>2, <2>3
<1>10. CASE ~(a < b)
  <2>1. PICK x \in Nat, y \in Nat, z \in Nat :
            x = Ends(gcl)[i1] /\ y = Ends(gcl)[i2-1] /\ z = Ends(gcl)[n] /\ x <= z
    BY <1>7
  <2>2. z - (x - w) + y >= w
    BY <2>1, BandBetween
  <2> QED BY <1>2, <1>3, <1>5, <1>6, <1>8, <1>10, <2>1, <2>2
<1> QED BY <1>9, <1>10

\* A sum does not change if a zero is put behind every number.
LEMMA SumsWithZeros ==
    ASSUME NEW n \in Nat, NEW d \in [1..n -> Int], NEW e \in [1..(2 * n) -> Int],
           \A j \in 1..n : e[2 * j - 1] = d[j] /\ e[2 * j] = 0
    PROVE  Sums(e)[2 * n] = Sums(d)[n]
<1> DEFINE S == {j \in 0..n : ~(Sums(e)[2 * j] = Sums(d)[j])}
<1>1. /\ Sums(d)[0] = 0 /\ \A j \in 1..n : Sums(d)[j] = Sums(d)[j-1] + d[j]
      /\ \A j \in 0..n : Sums(d)[j] \in Int
  BY SumsAre
<1>2. PICK m \in Nat : m = 2 * n
  OBVIOUS
<1>3. /\ Sums(e)[0] = 0 /\ \A j \in 1..m : Sums(e)[j] = Sums(e)[j-1] + e[j]
      /\ \A j \in 0..m : Sums(e)[j] \in Int
  <2>1. e \in [1..m -> Int]
    BY <1>2
  <2> QED BY <2>1, SumsAre
<1>4. S = {}
  <2>1. SUFFICES ASSUME S # {} PROVE FALSE
    OBVIOUS
  <2>2. PICK j \in S : \A h \in S : j <= h
    <3>1. S \in SUBSET Nat
      OBVIOUS
    <3> HIDE DEF S
    <3> QED BY <2>1, <3>1, LeastElement
  <2>3. j \in 0..n /\ ~(Sums(e)[2 * j] = Sums(d)[j])
    OBVIOUS
  <2>4. j # 0
    <3>1. j = 0 => 2 * j = 0
      OBVIOUS
    <3> QED BY <1>1, <1>3, <2>3, <3>1
  <2>5. PICK h \in 0..n : h = j - 1 /\ h \notin S
    <3>1. j - 1 \in 0..n /\ ~(j <= j - 1)
      BY <2>3, <2>4
    <3> HIDE DEF S
    <3> QED BY <2>2, <3>1
  <2>6. Sums(e)[2 * h] = Sums(d)[h]
    BY <2>5
  <2>7. PICK c \in Nat : c = 2 * h /\ c + 1 = 2 * j - 1 /\ c + 2 = 2 * j
    BY <2>5, <2>3
  <2>8. c \in 0..m /\ c + 1 \in 1..m /\ c + 2 \in 1..m /\ c + 1 - 1 = c /\ c + 2 - 1 = c + 1
    BY <1>2, <2>3, <2>5, <2>7
  <2>9. Sums(e)[c + 1] = Sums(e)[c] + e[c + 1] /\ Sums(e)[c + 2] = Sums(e)[c + 1] + e[c + 2]
    BY <1>3, <2>8
  <2>10. j \in 1..n /\ e[c + 1] = d[j] /\ e[c + 2] = 0
    <3>1. j \in 1..n
      BY <2>3, <2>4
    <3>2. e[2 * j - 1] = d[j] /\ e[2 * j] = 0
      BY <3>1
    <3> QED BY <2>7, <3>1, <3>2
  <2>11. Sums(d)[j] = Sums(d)[h] + d[j] /\ Sums(d)[h] \in Int /\ d[j] \in Int
    BY <1>1, <2>5, <2>10
  <2>12. Sums(e)[c + 2] = Sums(d)[j]
    <3>1. PICK x \in Int, y \in Int : x = Sums(d)[h] /\ y = d[j]
      BY <2>11
    <3>2. Sums(e)[c] = x
      BY <2>6, <2>7, <3>1
    <3>3. Sums(e)[c + 1] = x + y /\ Sums(e)[c + 2] = (x + y) + 0
      BY <2>9, <2>10, <3>1, <3>2
    <3>4. (x + y) + 0 = x + y
      OBVIOUS
    <3> QED BY <2>11, <3>1, <3>3, <3>4
  <2> QED BY <2>3, <2>7, <2>12
<1>5. n \in 0..n /\ n \notin S
  <2> HIDE DEF S
  <2> QED BY <1>4
<1> QED BY <1>5

LEMMA OpenTimeFollows == GuardIInv => OpenTimeKept
<1> SUFFICES ASSUME GuardIInv, guarded # Pending, NEW q \in Queues
             PROVE  OpenTime(guarded[1], q) = OpenTime(gcl, q)
  BY DEF OpenTimeKept
<1>1. CASE gcl.guard_band_width = 0
  BY <1>1, GuardedIs
<1>2. CASE gcl.guard_band_width # 0
  <2>1. PICK n \in Nat : n = Len(gcl.time_slices) /\ DOMAIN gcl.time_slices = 1..n
    BY GuardedIs, InputParts
  <2>2. PICK s \in Seq(TimeSlice) :
            /\ s = guarded[1].time_slices /\ Len(s) = 2 * n /\ DOMAIN s = 1..Len(s)
            /\ \A j \in 1..n : s[2*j - 1] = Moved(gcl, j) /\ s[2*j] = Band(gcl, j)
    <3>1. Expansion(gcl, n, guarded[1].time_slices)
      BY <1>2, <2>1, GuardedIs
    <3>2. guarded[1].time_slices \in Seq(TimeSlice)
      BY <3>1 DEF Expansion
    <3>3. DOMAIN guarded[1].time_slices = 1..Len(guarded[1].time_slices)
      BY <3>2
    <3> QED BY <3>1, <3>2, <3>3 DEF Expansion
  <2> DEFINE d == [j \in DOMAIN gcl.time_slices |->
                     IF Opens(gcl.time_slices[j], q) THEN Width(gcl.time_slices[j]) ELSE 0]
             e == [j \in DOMAIN s |-> IF Opens(s[j], q) THEN Width(s[j]) ELSE 0]
  <2>3. d \in [1..n -> Int]
    <3>1. \A j \in 1..n : Width(gcl.time_slices[j]) \in Int
      BY <2>1, GuardedIs, InputParts
    <3> QED BY <2>1, <3>1
  <2>4. e \in [1..(2 * n) -> Int]
    <3>1. \A j \in 1..(2 * n) : s[j] \in TimeSlice
      BY <2>2
    <3>2. \A j \in 1..(2 * n) : Width(s[j]) \in Int
      BY <3>1 DEF TimeSlice, Width
    <3> QED BY <2>2, <3>2
  <2>5. ASSUME NEW j \in 1..n PROVE e[2 * j - 1] = d[j] /\ e[2 * j] = 0
    <3>1. 2 * j - 1 \in DOMAIN s /\ 2 * j \in DOMAIN s
      BY <2>2
    <3>2. /\ Moved(gcl, j).queue_states = gcl.time_slices[j].queue_states
          /\ Width(Moved(gcl, j)) = Width(gcl.time_slices[j])
          /\ \A u \in DOMAIN Band(gcl, j).queue_states : Band(gcl, j).queue_states[u] = 1
      BY <1>2, <2>1, GuardedIs, MovedIs
    <3>3. ~Opens(Band(gcl, j), q)
      BY <3>2 DEF Opens
    <3>4. Opens(Moved(gcl, j), q) <=> Opens(gcl.time_slices[j], q)
      BY <3>2 DEF Opens
    <3> QED BY <2>1, <2>2, <3>1, <3>2, <3>3, <3>4
  <2>6. OpenTime(gcl, q) = Sums(d)[n] /\ OpenTime(guarded[1], q) = Sums(e)[2 * n]
    BY <2>1, <2>2 DEF OpenTime
  <2> HIDE DEF d, e
  <2> QED BY <2>3, <2>4, <2>5, <2>6, SumsWithZeros
<1> QED BY <1>1, <1>2

\* A tGCL with its guard bands still fits the words of the code.
LEMMA GuardedFits ==
    ASSUME GuardIInv, guarded # Pending
    PROVE  /\ guarded[1].period \in Word
           /\ Slices \in Seq(TimeSlice)
           /\ Len(Slices) \in Nat
           /\ \A j \in 1..Len(Slices) :
                /\ Slices[j] \in TimeSlice /\ Slices[j].low \in Word /\ Slices[j].high \in Word
<1>1. gcl \in Inputs
  BY GuardedIs
<1>2. PICK w \in Nat, n \in Nat :
          w = gcl.guard_band_width /\ n = Len(gcl.time_slices) /\ DOMAIN gcl.time_slices = 1..n
  BY <1>1, InputParts
<1>3. gcl.period + w * n \in Word /\ gcl.period \in Nat
  BY <1>1, <1>2, WidthAssumption, InputParts
<1>4. CASE w = 0
  <2>1. guarded[1] = gcl
    BY <1>2, <1>4, GuardedIs
  <2>2. gcl.period \in Word
    <3>1. 0 * n = 0
      OBVIOUS
    <3> QED BY <1>3, <1>4, <3>1
  <2>3. \A j \in 1..n : gcl.time_slices[j].low \in Word /\ gcl.time_slices[j].high \in Word
    BY <1>1, <1>2, WidthAssumption
  <2> QED BY <1>1, <1>2, <2>1, <2>2, <2>3, InputParts DEF Slices
<1>5. CASE w # 0
  <2>1. PICK s \in Seq(TimeSlice) :
            /\ s = Slices /\ Len(s) = 2 * n
            /\ \A j \in 1..n : s[2*j - 1] = Moved(gcl, j) /\ s[2*j] = Band(gcl, j)
    <3>1. PICK s : s = Slices
      OBVIOUS
    <3>2. Expansion(gcl, n, s)
      BY <1>2, <1>5, <3>1, GuardedIs DEF Slices
    <3> QED BY <3>1, <3>2 DEF Expansion
  <2>2. ASSUME NEW p \in 1..(2 * n)
        PROVE  s[p] \in TimeSlice /\ s[p].low \in Word /\ s[p].high \in Word
    <3>1. PICK j \in 1..n : p = 2 * j - 1 \/ p = 2 * j
      BY EveryPlace
    <3>2. s[p] = Moved(gcl, j) \/ s[p] = Band(gcl, j)
      BY <2>1, <3>1
    <3>3. /\ Ends(gcl)[j-1] \in Nat /\ Ends(gcl)[j] \in Nat /\ Ends(gcl)[j-1] <= Ends(gcl)[j]
          /\ Ends(gcl)[j] \in Word
      <4>1. j \in 0..n /\ j - 1 \in 0..n /\ j - 1 <= j
        OBVIOUS
      <4> QED BY <1>1, <1>2, <1>5, <4>1, EndsGrow, WidthAssumption
    <3>4. /\ Moved(gcl, j) \in TimeSlice /\ Band(gcl, j) \in TimeSlice
          /\ Moved(gcl, j).low = Ends(gcl)[j-1]
          /\ Moved(gcl, j).high = Ends(gcl)[j] - w
          /\ Moved(gcl, j).low <= Moved(gcl, j).high
          /\ Band(gcl, j).low = Moved(gcl, j).high
          /\ Band(gcl, j).high = Ends(gcl)[j]
      BY <1>1, <1>2, <1>5, MovedIs
    <3>5. Ends(gcl)[j-1] \in Word /\ Ends(gcl)[j] - w \in Word
      <4>2. PICK x \in Nat, y \in Nat : x = Ends(gcl)[j-1] /\ y = Ends(gcl)[j] /\ x <= y - w
        BY <3>3, <3>4
      <4>3. y \in Word
        BY <3>3, <4>2
      <4>4. x \in Word /\ y - w \in Word
        <5>1. y - w \in Int /\ y - w <= y
          OBVIOUS
        <5> QED BY <4>2, <4>3, <5>1, WordsBelow
      <4> QED BY <4>2, <4>4
    <3> QED BY <3>2, <3>3, <3>4, <3>5
  <2> QED BY <1>1, <1>2, <1>3, <1>5, <2>1, <2>2, GuardedIs
<1> QED BY <1>4, <1>5
-----------------------------------------------------------------------------
\* Whatever fits a word is a position: both are given by powers of two.
LEMMA WordsArePositions == Word \in SUBSET Position
<1> DEFINE S == {h \in 0..W : ~(Pow2[h] = Bit[h])}
<1>1. W \in 0..N /\ N \in W..N /\ N \in Nat /\ W \in Nat
  BY WordAssumption, BitAssumption, WidthAssumption
<1>2. S = {}
  <2>1. SUFFICES ASSUME S # {} PROVE FALSE
    OBVIOUS
  <2>2. PICK m \in S : \A h \in S : m <= h
    <3>1. S \in SUBSET Nat
      OBVIOUS
    <3> HIDE DEF S
    <3> QED BY <2>1, <3>1, LeastElement
  <2>3. m \in 0..W /\ ~(Pow2[m] = Bit[m])
    OBVIOUS
  <2>4. m # 0
    BY <2>3, WordAssumption, BitAssumption
  <2>5. PICK h \in 0..(W-1) : m = h + 1 /\ h \notin S
    <3>1. m - 1 \in 0..(W-1) /\ m = m - 1 + 1 /\ ~(m <= m - 1)
      BY <1>1, <2>3, <2>4
    <3> HIDE DEF S
    <3> QED BY <2>2, <3>1
  <2>6. h \in 0..(N-1) /\ Pow2[h] = Bit[h]
    BY <1>1, <2>5
  <2> QED BY <2>3, <2>5, <2>6, WordAssumption, BitAssumption
<1>3. Pow2[W] = Bit[W]
  <2>1. W \in 0..W /\ W \notin S
    <3> HIDE DEF S
    <3> QED BY <1>1, <1>2
  <2> QED BY <2>1
<1>4. PICK m \in Nat : m >= 1 /\ Bit[N] = Bit[W] * m
  BY <1>1, BitAssumption, PowerDivides
<1>5. PICK p \in Nat : p = Pow2[W] /\ p = Bit[W]
  BY <1>1, <1>3, WordAssumption
<1>6. p * 1 <= p * m /\ p * 1 = p
  BY <1>4
<1> QED BY <1>4, <1>5, <1>6 DEF Word, Position

LEMMA FewestFollowsNext == RangeIInv' /\ FewestSoFar' => FewestEntries'
BY FewestFollows, PTL

LEMMA LargestBlocksAreNext == LargestBlocks' = LargestIn(start', end')
BY DEF LargestBlocks, LargestIn, BlocksIn, Hit, Entry, Word, Blocks

\* The slices whose entries are in the table.
Converted == IF pc = "done" THEN loaded ELSE loaded - 1

\* What slice j should have in the table.
RowsOf(j) == Rows(LargestIn(Slices[j].low, Slices[j].high), j)

TablesIInv ==
    /\ GuardIInv /\ RangeIInv /\ FewestSoFar /\ ExceededIInv
    /\ loaded \in Nat
    /\ guarded = Pending => loaded = 0
    /\ guarded # Pending => loaded <= Len(Slices)
    /\ loaded = 0 => pc = "done"
    /\ loaded # 0 => start = Slices[loaded].low /\ end = Slices[loaded].high
    /\ table = UNION {RowsOf(j) : j \in 1..Converted}
    /\ i = N => exceeded = {}
    /\ i # N => /\ guarded # Pending /\ pc = "done" /\ loaded = Len(Slices)
                /\ hyperperiod = PeriodOfPort

LEMMA TablesInitIInv == Init => TablesIInv
<1> SUFFICES ASSUME Init PROVE TablesIInv
  OBVIOUS
<1>1. /\ GuardInit /\ start = 1 /\ end = 0 /\ cur = 1 /\ entries = {} /\ pc = "done"
      /\ hyperperiod = 0 /\ i = N /\ exceeded = {} /\ loaded = 0 /\ table = {}
  BY DEF Init
<1>2. GuardIInv /\ guarded = Pending
  BY <1>1, GuardInitIInv DEF GuardInit
<1>3. 0 \in Word /\ 1 \in Word
  <2>1. 0 \in 0..W /\ 0 \in 0..(W-1) /\ W - 1 \in 0..(W-1) /\ W \in 0..W /\ W - 1 \in 0..W
    BY WordAssumption
  <2>2. PICK p \in Nat \ {0} : p = Pow2[W-1]
    BY <2>1, Pow2Positive
  <2>3. Pow2[W] = 2 * p
    <3>1. W - 1 + 1 = W
      BY WordAssumption
    <3>2. Pow2[(W - 1) + 1] = 2 * Pow2[W-1]
      BY <2>1, WordAssumption
    <3> QED BY <2>2, <3>1, <3>2
  <2> QED BY <2>2, <2>3 DEF Word
<1>4. RangeIInv
  <2>1. RangeTypeOK
    BY <1>1, <1>3 DEF RangeTypeOK
  <2>2. ExactCover
    BY <1>1, BlocksPositive DEF ExactCover
  <2> QED BY <1>1, <2>1, <2>2
          DEF RangeIInv, CoverSoFar, InRange, Disjoint, PanicOnlyAtLargestWord
<1>5. FewestSoFar
  BY <1>1 DEF FewestSoFar
<1>6. ExceededIInv
  <2>1. 0 \in Position
    BY <1>3, WordsArePositions
  <2>2. ExceededInit
    BY <1>1, <2>1 DEF ExceededInit
  <2> QED BY <2>2, ExceededInitIInv
<1>7. table = UNION {RowsOf(j) : j \in 1..Converted}
  <2>1. Converted = 0
    BY <1>1 DEF Converted
  <2> QED BY <1>1, <2>1
<1> QED BY <1>1, <1>2, <1>4, <1>5, <1>6, <1>7 DEF TablesIInv

LEMMA InsertGuardBandsIInv == TablesIInv /\ InsertGuardBands => TablesIInv'
<1> SUFFICES ASSUME TablesIInv, InsertGuardBands PROVE TablesIInv'
  OBVIOUS
<1>1. /\ GuardNext /\ UNCHANGED rangeVars /\ UNCHANGED exceededVars
      /\ loaded' = loaded /\ table' = table
  BY DEF InsertGuardBands
<1>2. /\ start' = start /\ end' = end /\ cur' = cur /\ entries' = entries /\ pc' = pc
      /\ hyperperiod' = hyperperiod /\ i' = i /\ exceeded' = exceeded
  BY <1>1 DEF rangeVars, exceededVars
<1>3. GuardIInv' /\ guarded = Pending
  BY <1>1, GuardNextIInv DEF TablesIInv, GuardNext, CopyUnguarded, EmitSlice, PushExpanded
<1>4. RangeIInv' /\ FewestSoFar' /\ ExceededIInv'
  BY <1>1, RangeNextIInv, FewestKept, ExceededNextIInv DEF TablesIInv
<1>5. loaded = 0 /\ pc = "done" /\ i = N /\ exceeded = {}
  BY <1>3 DEF TablesIInv
<1>6. guarded' # Pending => Len(Slices') \in Nat
  <2>1. (GuardIInv /\ guarded # Pending => Len(Slices) \in Nat)'
    BY GuardedFits, PTL
  <2> QED BY <1>3, <2>1
<1>7. table' = UNION {RowsOf(j)' : j \in 1..Converted'}
  <2>1. Converted = 0 /\ Converted' = 0
    BY <1>1, <1>2, <1>5 DEF Converted
  <2>2. table = {}
    BY <2>1 DEF TablesIInv
  <2> QED BY <1>1, <2>1, <2>2
<1> QED BY <1>1, <1>2, <1>3, <1>4, <1>5, <1>6, <1>7 DEF TablesIInv

LEMMA NextSliceIInv == TablesIInv /\ NextSlice => TablesIInv'
<1> SUFFICES ASSUME TablesIInv, NextSlice PROVE TablesIInv'
  OBVIOUS
<1>1. /\ guarded # Pending /\ pc = "done" /\ loaded < Len(Slices)
      /\ loaded' = loaded + 1
      /\ start' = Slices[loaded+1].low /\ cur' = start' /\ end' = Slices[loaded+1].high
      /\ entries' = {} /\ pc' = "loop"
      /\ UNCHANGED guardVars /\ UNCHANGED exceededVars /\ table' = table
  BY DEF NextSlice
<1>2. gcl' = gcl /\ k' = k /\ new' = new /\ guarded' = guarded
  BY <1>1 DEF guardVars
<1>3. hyperperiod' = hyperperiod /\ i' = i /\ exceeded' = exceeded
  BY <1>1 DEF exceededVars
<1>4. GuardIInv' /\ ExceededIInv'
  BY <1>1, GuardNextIInv, ExceededNextIInv DEF TablesIInv
<1>5. PICK n \in Nat : n = Len(Slices)
  BY <1>1, GuardedFits DEF TablesIInv
<1>6. loaded \in Nat /\ loaded + 1 \in 1..n
  BY <1>1, <1>5 DEF TablesIInv
<1>7. start' \in Word /\ end' \in Word
  BY <1>1, <1>5, <1>6, GuardedFits DEF TablesIInv
<1>8. RangeIInv' /\ FewestSoFar'
  <2>1. (RangeInit => RangeIInv)'
    BY RangeInitIInv, PTL
  <2>2. RangeInit'
    BY <1>1, <1>7 DEF RangeInit, Word
  <2>3. FewestSoFar'
    BY <1>1 DEF FewestSoFar
  <2> QED BY <2>1, <2>2, <2>3
<1>9. Slices' = Slices /\ Converted' = Converted
  BY <1>1, <1>2, <1>6 DEF Slices, Converted
<1>10. \A j : RowsOf(j)' = RowsOf(j)
  BY <1>9 DEF RowsOf, Rows, LargestIn, BlocksIn, Hit, Entry, Word, Blocks
<1>11. i = N
  BY <1>1, <1>5, <1>6 DEF TablesIInv
<1>12. table' = (UNION {RowsOf(j) : j \in 1..Converted})'
  BY <1>1, <1>9, <1>10 DEF TablesIInv
<1>13. loaded' \in Nat /\ loaded' # 0 /\ loaded' <= Len(Slices')
  BY <1>1, <1>5, <1>6, <1>9
<1>14. start' = Slices'[loaded'].low /\ end' = Slices'[loaded'].high
  BY <1>1, <1>9
<1>15. guarded' # Pending /\ i' = N /\ exceeded' = {}
  BY <1>1, <1>2, <1>3, <1>11 DEF TablesIInv
<1> QED BY <1>4, <1>8, <1>12, <1>13, <1>14, <1>15 DEF TablesIInv

LEMMA ConvertSliceIInv == TablesIInv /\ ConvertSlice => TablesIInv'
<1> SUFFICES ASSUME TablesIInv, ConvertSlice PROVE TablesIInv'
  OBVIOUS
<1>1. /\ RangeNext /\ loaded' = loaded /\ UNCHANGED guardVars /\ UNCHANGED exceededVars
      /\ table' = IF pc' = "done" THEN table \union Rows(entries', loaded) ELSE table
  BY DEF ConvertSlice
<1>2. gcl' = gcl /\ k' = k /\ new' = new /\ guarded' = guarded
  BY <1>1 DEF guardVars
<1>3. hyperperiod' = hyperperiod /\ i' = i /\ exceeded' = exceeded
  BY <1>1 DEF exceededVars
<1>4. GuardIInv' /\ ExceededIInv'
  BY <1>1, GuardNextIInv, ExceededNextIInv DEF TablesIInv
<1>5. RangeIInv' /\ FewestSoFar'
  BY <1>1, RangeNextIInv, FewestKept DEF TablesIInv
<1>6. pc = "loop" /\ start' = start /\ end' = end
  BY <1>1 DEF RangeNext, AddSingle, AddBlock, PanicOnCount, LeaveLoop
<1>7. loaded # 0 /\ loaded \in Nat /\ guarded # Pending /\ i = N
  BY <1>6 DEF TablesIInv
<1>8. Slices' = Slices
  BY <1>2 DEF Slices
<1>9. \A j : RowsOf(j)' = RowsOf(j)
  BY <1>8 DEF RowsOf, Rows, LargestIn, BlocksIn, Hit, Entry, Word, Blocks
<1>10. table = UNION {RowsOf(j) : j \in 1..(loaded - 1)}
  BY <1>6 DEF TablesIInv, Converted
<1>11. table' = (UNION {RowsOf(j) : j \in 1..Converted})'
  <2>1. CASE pc' = "done"
    <3>1. entries' = LargestIn(start, end)
      BY <1>5, <1>6, <2>1, FewestFollowsNext, LargestBlocksAreNext DEF FewestEntries
    <3>2. Rows(entries', loaded) = RowsOf(loaded)
      BY <1>7, <3>1 DEF TablesIInv, RowsOf
    <3>3. Converted' = loaded
      BY <1>1, <2>1 DEF Converted
    <3>4. 1..loaded = (1..(loaded - 1)) \union {loaded}
      BY <1>7
    <3>5. UNION {RowsOf(j) : j \in 1..loaded}
            = (UNION {RowsOf(j) : j \in 1..(loaded - 1)}) \union RowsOf(loaded)
      BY <3>4
    <3> QED BY <1>1, <1>9, <1>10, <2>1, <3>2, <3>3, <3>5
  <2>2. CASE pc' # "done"
    <3>1. Converted' = loaded - 1
      BY <1>1, <2>2 DEF Converted
    <3> QED BY <1>1, <1>9, <1>10, <2>2, <3>1
  <2> QED BY <2>1, <2>2
<1>12. /\ start' = Slices'[loaded'].low /\ end' = Slices'[loaded'].high
       /\ loaded' <= Len(Slices')
  BY <1>1, <1>6, <1>7, <1>8 DEF TablesIInv
<1> QED BY <1>1, <1>2, <1>3, <1>4, <1>5, <1>7, <1>11, <1>12 DEF TablesIInv

LEMMA ConvertPeriodIInv == TablesIInv /\ ConvertPeriod => TablesIInv'
<1> SUFFICES ASSUME TablesIInv, ConvertPeriod PROVE TablesIInv'
  OBVIOUS
<1>1. /\ guarded # Pending /\ pc = "done" /\ loaded = Len(Slices)
      /\ UNCHANGED guardVars /\ UNCHANGED rangeVars /\ loaded' = loaded /\ table' = table
  BY DEF ConvertPeriod
<1>2. gcl' = gcl /\ k' = k /\ new' = new /\ guarded' = guarded
  BY <1>1 DEF guardVars
<1>3. /\ start' = start /\ end' = end /\ cur' = cur /\ entries' = entries /\ pc' = pc
  BY <1>1 DEF rangeVars
<1>4. GuardIInv' /\ RangeIInv' /\ FewestSoFar'
  BY <1>1, GuardNextIInv, RangeNextIInv, FewestKept DEF TablesIInv
<1>5. Slices' = Slices /\ Converted' = Converted /\ PeriodOfPort' = PeriodOfPort
  BY <1>1, <1>2, <1>3 DEF Slices, Converted, PeriodOfPort
<1>6. \A j : RowsOf(j)' = RowsOf(j)
  BY <1>5 DEF RowsOf, Rows, LargestIn, BlocksIn, Hit, Entry, Word, Blocks
<1>7. table' = (UNION {RowsOf(j) : j \in 1..Converted})'
  BY <1>1, <1>5, <1>6 DEF TablesIInv
<1>8. /\ ExceededIInv'
      /\ i' = N => exceeded' = {}
      /\ i' # N => hyperperiod' = PeriodOfPort
  <2>1. CASE hyperperiod # PeriodOfPort
    <3>1. /\ hyperperiod' = PeriodOfPort /\ i' = i /\ exceeded' = exceeded
          /\ i = N /\ exceeded = {}
      BY <2>1 DEF ConvertPeriod, TablesIInv
    <3>2. hyperperiod' \in Position
      BY <1>1, <3>1, GuardedFits, WordsArePositions DEF TablesIInv, PeriodOfPort
    <3>3. ExceededInit'
      BY <3>1, <3>2 DEF ExceededInit, Position
    <3>4. (ExceededInit => ExceededIInv)'
      BY ExceededInitIInv, PTL
    <3> QED BY <3>1, <3>3, <3>4
  <2>2. CASE hyperperiod = PeriodOfPort
    <3>1. NextBit
      BY <2>2 DEF ConvertPeriod
    <3>2. ExceededIInv'
      BY <3>1, ExceededNextIInv DEF TablesIInv
    <3>3. i' # N /\ hyperperiod' = hyperperiod
      <4>1. i \in 0..N /\ i' = i - 1 /\ hyperperiod' = hyperperiod
        BY <3>1 DEF NextBit, TablesIInv, ExceededIInv, ExceededTypeOK
      <4> QED BY <4>1, BitAssumption
    <3> QED BY <2>2, <3>2, <3>3
  <2> QED BY <2>1, <2>2
<1> QED BY <1>1, <1>2, <1>3, <1>4, <1>5, <1>7, <1>8 DEF TablesIInv

LEMMA TablesInductive == Spec => []TablesIInv
<1>1. TablesIInv /\ [Next]_tableVars => TablesIInv'
  <2> SUFFICES ASSUME TablesIInv, [Next]_tableVars PROVE TablesIInv'
    OBVIOUS
  <2>1. CASE UNCHANGED tableVars
    <3>1. /\ UNCHANGED guardVars /\ UNCHANGED rangeVars /\ UNCHANGED exceededVars
          /\ loaded' = loaded /\ table' = table
      BY <2>1 DEF tableVars
    <3>2. GuardIInv' /\ RangeIInv' /\ FewestSoFar' /\ ExceededIInv'
      BY <3>1, GuardNextIInv, RangeNextIInv, FewestKept, ExceededNextIInv DEF TablesIInv
    <3>3. /\ guarded' = guarded /\ pc' = pc /\ start' = start /\ end' = end
          /\ i' = i /\ hyperperiod' = hyperperiod /\ exceeded' = exceeded
      BY <3>1 DEF guardVars, rangeVars, exceededVars
    <3>4. Slices' = Slices /\ Converted' = Converted /\ PeriodOfPort' = PeriodOfPort
      BY <3>1, <3>3 DEF Slices, Converted, PeriodOfPort
    <3>5. \A j : RowsOf(j)' = RowsOf(j)
      BY <3>4 DEF RowsOf, Rows, LargestIn, BlocksIn, Hit, Entry, Word, Blocks
    <3>6. table' = (UNION {RowsOf(j) : j \in 1..Converted})'
      BY <3>1, <3>4, <3>5 DEF TablesIInv
    <3> QED BY <3>1, <3>2, <3>3, <3>4, <3>6 DEF TablesIInv
  <2> QED BY <2>1, InsertGuardBandsIInv, NextSliceIInv, ConvertSliceIInv, ConvertPeriodIInv
          DEF Next
<1> QED BY <1>1, TablesInitIInv, PTL DEF Spec
-----------------------------------------------------------------------------
\* Every row of the table is a row of a slice that has been converted.
LEMMA RowIs ==
    ASSUME TablesIInv, NEW r \in table
    PROVE  /\ guarded # Pending
           /\ \E j \in 1..Len(Slices) :
                /\ j <= Converted
                /\ r.slice = j
                /\ r.entry \in LargestIn(Slices[j].low, Slices[j].high)
                /\ r.queue \in DOMAIN Slices[j].queue_states
                /\ r.state = Slices[j].queue_states[r.queue]
                /\ r = [entry |-> r.entry, slice |-> r.slice, queue |-> r.queue, state |-> r.state]
<1>1. PICK j \in 1..Converted : r \in RowsOf(j)
  BY DEF TablesIInv
<1>2. PICK e \in LargestIn(Slices[j].low, Slices[j].high), q \in DOMAIN Slices[j].queue_states :
          r = [entry |-> e, slice |-> j, queue |-> q, state |-> Slices[j].queue_states[q]]
  BY <1>1 DEF RowsOf, Rows
<1>3. guarded # Pending
  BY <1>1 DEF TablesIInv, Converted
<1>4. j \in 1..Len(Slices) /\ j <= Converted
  <2>1. Len(Slices) \in Nat /\ loaded \in Nat /\ loaded <= Len(Slices)
    BY <1>3, GuardedFits DEF TablesIInv
  <2>2. Converted \in Int /\ Converted <= loaded
    BY <2>1 DEF Converted
  <2> QED BY <2>1, <2>2
<1> QED BY <1>2, <1>3, <1>4

LEMMA TypeFollows == TablesIInv => TypeOK
<1> SUFFICES ASSUME TablesIInv PROVE TypeOK
  OBVIOUS
<1>1. GuardTypeOK /\ RangeTypeOK /\ ExceededTypeOK /\ loaded \in Nat
  BY GuardTypeFollows DEF TablesIInv, RangeIInv, ExceededIInv
<1>2. ASSUME NEW r \in table PROVE r \in Row
  <2>1. PICK j \in 1..Len(Slices) :
            /\ r.slice = j
            /\ r.entry \in LargestIn(Slices[j].low, Slices[j].high)
            /\ r.queue \in DOMAIN Slices[j].queue_states
            /\ r.state = Slices[j].queue_states[r.queue]
            /\ r = [entry |-> r.entry, slice |-> r.slice, queue |-> r.queue, state |-> r.state]
    BY RowIs
  <2>2. Slices[j] \in TimeSlice /\ j \in Nat
    BY RowIs, GuardedFits DEF TablesIInv
  <2>3. PICK qs \in SUBSET Queues : Slices[j].queue_states \in [qs -> {0, 1}]
    BY <2>2 DEF TimeSlice
  <2>4. r.queue \in Queues /\ r.state \in {0, 1}
    BY <2>1, <2>3
  <2>5. r.entry \in Entry
    BY <2>1 DEF LargestIn, BlocksIn
  <2> QED BY <2>1, <2>2, <2>4, <2>5 DEF Row
<1> QED BY <1>1, <1>2 DEF TypeOK

\* For a position within the period, the entries of the table that match it are
\* those of the slices it is in.
LEMMA TableMatches ==
    ASSUME TablesIInv, Finished, NEW q, NEW p \in Word
    PROVE  {r.state : r \in {r \in table : r.queue = q /\ Hit(r.entry, p)}}
             = StatesAt(guarded[1], q, p)
<1> DEFINE answers == {r.state : r \in {r \in table : r.queue = q /\ Hit(r.entry, p)}}
<1>1. /\ guarded # Pending /\ pc = "done" /\ loaded = Len(Slices)
      /\ Converted = Len(Slices)
  BY DEF Finished, Converted
<1>2. /\ Len(Slices) \in Nat /\ DOMAIN Slices = 1..Len(Slices)
      /\ \A j \in 1..Len(Slices) : Slices[j].low \in Word /\ Slices[j].high \in Word
  <2>1. Slices \in Seq(TimeSlice)
    BY <1>1, GuardedFits DEF TablesIInv
  <2> QED BY <1>1, <2>1, GuardedFits DEF TablesIInv
<1>3. ASSUME NEW x \in answers PROVE x \in StatesAt(guarded[1], q, p)
  <2>1. PICK r \in table : r.queue = q /\ Hit(r.entry, p) /\ x = r.state
    OBVIOUS
  <2>2. PICK j \in 1..Len(Slices) :
            /\ r.entry \in LargestIn(Slices[j].low, Slices[j].high)
            /\ r.queue \in DOMAIN Slices[j].queue_states
            /\ r.state = Slices[j].queue_states[r.queue]
    BY RowIs
  <2>3. Within(Slices[j], p)
    BY <1>2, <2>1, <2>2, LargestCover DEF Within
  <2> QED BY <1>2, <2>1, <2>2, <2>3 DEF StatesAt, Slices
<1>4. ASSUME NEW x \in StatesAt(guarded[1], q, p) PROVE x \in answers
  <2>1. PICK j \in 1..Len(Slices) :
            /\ Within(Slices[j], p) /\ q \in DOMAIN Slices[j].queue_states
            /\ x = Slices[j].queue_states[q]
    BY <1>2 DEF StatesAt, Slices
  <2>2. PICK e \in LargestIn(Slices[j].low, Slices[j].high) : Hit(e, p)
    BY <1>2, <2>1, LargestCover DEF Within
  <2>3. PICK r : r = [entry |-> e, slice |-> j, queue |-> q, state |-> Slices[j].queue_states[q]]
    OBVIOUS
  <2>4. r \in RowsOf(j)
    BY <2>1, <2>2, <2>3 DEF RowsOf, Rows
  <2>5. r \in table
    BY <1>1, <2>4 DEF TablesIInv
  <2>6. r.queue = q /\ r.state = x /\ r.entry = e
    BY <2>1, <2>3
  <2> QED BY <2>2, <2>5, <2>6
<1> HIDE DEF answers
<1>5. answers = StatesAt(guarded[1], q, p)
  BY <1>3, <1>4
<1> QED BY <1>5 DEF answers

LEMMA ComparisonFollows == ExceededIInv => ExactlyExceeded
BY KeepAllOrNothing DEF ExceededIInv, ExceededTypeOK, ExceededSoFar, ExactlyExceeded

LEMMA AnswersFollow == TablesIInv => TablesAnswer
<1> SUFFICES ASSUME TablesIInv, Finished, NEW q \in Queues, NEW d \in Position
             PROVE  Answer(q, d) = StatesAt(guarded[1], q,
                                     IF d > guarded[1].period THEN guarded[1].period ELSE d)
  BY DEF TablesAnswer
<1> DEFINE p == IF d > guarded[1].period THEN guarded[1].period ELSE d
<1>1. guarded # Pending /\ i = 0 /\ i # N
  BY BitAssumption DEF Finished
<1>2. hyperperiod = guarded[1].period /\ guarded[1].period \in Word
  BY <1>1, GuardedFits DEF TablesIInv, PeriodOfPort
<1>3. (\E e \in exceeded : ExceededHit(e, d)) <=> d > guarded[1].period
  BY <1>1, <1>2, ComparisonFollows DEF TablesIInv, ExactlyExceeded
<1>4. p \in Word
  <2>1. PICK m \in Nat, x \in Word : m = Pow2[W] /\ x = guarded[1].period
    BY <1>2, WordAssumption
  <2>2. d \in Nat
    BY DEF Position
  <2>3. p = IF d > x THEN x ELSE d
    BY <2>1
  <2> HIDE DEF p
  <2> QED BY <2>1, <2>2, <2>3 DEF Word
<1>5. (p % Pow2[W]) = p
  <2>1. PICK c \in Nat \ {0} : c = Pow2[W]
    <3>1. W \in 0..W
      BY WordAssumption
    <3> QED BY <3>1, Pow2Positive
  <2>2. p \in 0 .. (c - 1)
    BY <1>4, <2>1 DEF Word
  <2> HIDE DEF p
  <2> QED BY <2>1, <2>2, ModSmall
<1>6. p = IF \E e \in exceeded : ExceededHit(e, d) THEN hyperperiod ELSE d
  BY <1>2, <1>3
<1> HIDE DEF p
<1>7. Answer(q, d) = {r.state : r \in {r \in table : r.queue = q /\ Hit(r.entry, p % Pow2[W])}}
  BY <1>6 DEF Answer
<1>8. Answer(q, d) = StatesAt(guarded[1], q, p)
  BY <1>4, <1>5, <1>7, TableMatches
<1> QED BY <1>8 DEF p
-----------------------------------------------------------------------------
\* Slices that tile a period are in order.
LEMMA TilesInOrder ==
    ASSUME NEW n \in Nat, NEW s, \A j \in 1..n : s[j].low \in Nat /\ s[j].high \in Nat,
           \A j \in 1..n : s[j].low <= s[j].high,
           \A j \in 1..(n-1) : s[j+1].low = s[j].high
    PROVE  \A a, b \in 1..n : a < b => s[a].high <= s[b].low
<1> SUFFICES ASSUME NEW a \in 1..n PROVE \A b \in 1..n : a < b => s[a].high <= s[b].low
  OBVIOUS
<1> DEFINE S == {b \in (a+1)..n : ~(s[a].high <= s[b].low)}
<1>1. S = {}
  <2>1. SUFFICES ASSUME S # {} PROVE FALSE
    OBVIOUS
  <2>2. PICK b \in S : \A h \in S : b <= h
    <3>1. S \in SUBSET Nat
      OBVIOUS
    <3> HIDE DEF S
    <3> QED BY <2>1, <3>1, LeastElement
  <2>3. b \in (a+1)..n /\ ~(s[a].high <= s[b].low)
    OBVIOUS
  <2>4. PICK h \in 1..(n-1) : b = h + 1 /\ h \in 1..n
    <3>1. b - 1 \in 1..(n-1) /\ b = b - 1 + 1 /\ b - 1 \in 1..n
      BY <2>3
    <3> QED BY <3>1
  <2>5. s[b].low = s[h].high /\ s[h].low <= s[h].high /\ s[h].low \in Nat /\ s[h].high \in Nat
    BY <2>4
  <2>6. CASE h = a
    BY <2>3, <2>5, <2>6
  <2>7. CASE h # a
    <3>1. h \in (a+1)..n /\ ~(b <= h)
      BY <2>3, <2>4, <2>7
    <3>2. h \notin S
      <4> HIDE DEF S
      <4> QED BY <2>2, <3>1
    <3>3. s[a].high <= s[h].low
      BY <3>1, <3>2
    <3> QED BY <2>3, <2>5, <3>3
  <2> QED BY <2>6, <2>7
<1>2. ASSUME NEW b \in 1..n, a < b PROVE s[a].high <= s[b].low
  <2>1. b \in (a+1)..n
    BY <1>2
  <2>2. b \notin S
    <3> HIDE DEF S
    <3> QED BY <1>1
  <2> QED BY <2>1, <2>2
<1> QED BY <1>2

\* The slices of a guarded tGCL of several slices are not empty either.
LEMMA NotEmptyWithGuards ==
    ASSUME GuardIInv, guarded # Pending, NoEmptySlices, Tiles(gcl),
           NEW j \in 1..Len(Slices), Len(Slices) > 1
    PROVE  Slices[j].low < Slices[j].high
<1>1. gcl \in Inputs /\ DOMAIN gcl.time_slices = 1..Len(gcl.time_slices)
  BY GuardedIs, InputParts
<1>2. CASE gcl.guard_band_width = 0
  <2>1. Slices = gcl.time_slices
    BY <1>2, GuardedIs DEF Slices
  <2> QED BY <1>1, <1>2, <2>1 DEF NoEmptySlices
<1>3. CASE gcl.guard_band_width # 0
  <2>1. PICK n \in Nat : n = Len(gcl.time_slices)
    BY <1>1, InputParts
  <2>2. /\ Len(Slices) = 2 * n
        /\ \A h \in 1..n : Slices[2*h - 1] = Moved(gcl, h) /\ Slices[2*h] = Band(gcl, h)
    BY <1>3, <2>1, GuardedIs DEF Expansion, Slices
  <2>3. PICK h \in 1..n : j = 2 * h - 1 \/ j = 2 * h
    BY <2>2, EveryPlace
  <2>4. PICK w \in Nat \ {0}, x \in Nat, y \in Nat :
            /\ w = gcl.guard_band_width /\ x = Ends(gcl)[h-1] /\ y = Ends(gcl)[h]
    <3>1. h \in 0..n /\ h - 1 \in 0..n
      OBVIOUS
    <3>2. gcl.guard_band_width \in Nat \ {0}
      BY <1>1, <1>3, InputParts
    <3> QED BY <1>1, <1>3, <2>1, <3>1, <3>2, EndsGrow
  <2>5. PICK z \in Nat \ {0} : z = Width(gcl.time_slices[h])
    <3>1. gcl.time_slices[h].low < gcl.time_slices[h].high
      BY <1>1, <1>3, <2>1 DEF NoEmptySlices
    <3>2. gcl.time_slices[h] \in TimeSlice
      BY <1>1, <2>1, InputParts
    <3> QED BY <3>1, <3>2 DEF TimeSlice, Width
  <2>6. y = x + (z + w)
    BY <1>1, <2>1, <2>4, <2>5, EndsAre
  <2>7. /\ Moved(gcl, h).low = x /\ Moved(gcl, h).high = y - w
        /\ Band(gcl, h).low = y - w /\ Band(gcl, h).high = y
    BY <1>1, <1>3, <2>1, <2>4, MovedIs
  <2>8. x < y - w /\ y - w < y
    BY <2>6
  <2> QED BY <2>2, <2>3, <2>7, <2>8
<1> QED BY <1>2, <1>3

\* An entry belongs to one slice only.  Two slices have at most one value in
\* common, the end of the first and the start of the second.  If it is even the second slice
\* has a larger block that begins there, if it is odd the first has one that ends there.
LEMMA SlicesApart ==
    ASSUME NEW la \in Word, NEW ha \in Word, NEW lb \in Word, NEW hb \in Word,
           la < ha, ha <= lb, lb < hb,
           NEW e \in LargestIn(la, ha), e \in LargestIn(lb, hb)
    PROVE  FALSE
<1>1. /\ e \in Entry /\ (e.value % e.size) = 0
      /\ lb <= e.value /\ e.value + e.size - 1 <= ha
  BY DEF LargestIn, BlocksIn
<1>2. /\ la \in Nat /\ ha \in Nat /\ lb \in Nat /\ hb \in Nat
      /\ e.value \in Nat /\ e.size \in Nat \ {0} /\ e.value \in Word
  BY <1>1, BlocksPositive, EntryNumbers DEF Entry
<1>3. e.value = ha /\ ha = lb /\ e.size = 1
  <2>1. PICK x \in Nat, z \in Nat \ {0} : x = e.value /\ z = e.size
    BY <1>2
  <2>2. lb <= x /\ x + z - 1 <= ha
    BY <1>1, <2>1
  <2> QED BY <1>2, <2>1, <2>2
<1>4. 2 \in Blocks
  <2>1. Pow2[W] \in Nat /\ hb < Pow2[W] /\ hb >= 2
    BY <1>2, <1>3, WordAssumption DEF Word
  <2>2. W # 1
    <3> SUFFICES ASSUME W = 1 PROVE FALSE
      OBVIOUS
    <3>1. 0 \in 0..(W-1) /\ Pow2[0] = 1
      BY WordAssumption
    <3>2. Pow2[0+1] = 2 * Pow2[0]
      BY <3>1, WordAssumption
    <3>3. Pow2[W] = 2
      BY <3>1, <3>2
    <3> QED BY <1>2, <2>1, <3>3
  <2>3. 1 \in 0..(W-1) /\ 0 \in 0..(W-1)
    BY <2>2, WordAssumption
  <2>4. Pow2[0+1] = 2 * Pow2[0]
    BY <2>3, WordAssumption
  <2>5. Pow2[1] = 2
    BY <2>4, WordAssumption
  <2> QED BY <2>3, <2>5 DEF Blocks
<1>5. PICK c \in Nat, r \in 0 .. 1 : e.value = 2 * c + r
  <2>1. 2 \in Nat \ {0}
    OBVIOUS
  <2>2. \E c \in Nat, r \in 0 .. (2 - 1) : e.value = 2 * c + r /\ (e.value % 2) = r
    BY <1>2, <2>1, Quotient
  <2> QED BY <2>2
<1>6. PICK v \in Nat : v = 2 * c
  OBVIOUS
<1>7. (v % 2) = 0
  <2>1. 2 \in Nat \ {0} /\ v \in Int /\ c \in Int /\ 0 \in 0 .. (2 - 1) /\ v = 2 * c + 0
    BY <1>6
  <2> QED BY <2>1, DivModUnique
<1>8. v \in Word
  <2>1. PICK x \in Nat, m \in Nat : x = e.value /\ m = Pow2[W] /\ x < m
    <3>1. Pow2[W] \in Nat
      BY WordAssumption
    <3> QED BY <1>2, <3>1 DEF Word
  <2>2. v <= x
    BY <1>5, <1>6, <2>1
  <2> QED BY <2>1, <2>2 DEF Word
<1>9. PICK b \in Entry : b.value = v /\ b.size = 2 /\ (b.value % b.size) = 0
  <2>1. [value |-> v, size |-> 2] \in Entry
    BY <1>4, <1>8 DEF Entry
  <2> QED BY <1>7, <2>1
<1>10. Hit(b, e.value)
  BY <1>2, <1>5, <1>6, <1>9, AlignedHit
<1>11. CASE r = 0
  <2>1. b \in BlocksIn(lb, hb)
    BY <1>2, <1>3, <1>5, <1>6, <1>9, <1>11 DEF BlocksIn
  <2> QED BY <1>3, <1>9, <1>10, <2>1 DEF LargestIn
<1>12. CASE r = 1
  <2>1. b \in BlocksIn(la, ha)
    BY <1>2, <1>3, <1>5, <1>6, <1>9, <1>12 DEF BlocksIn
  <2> QED BY <1>3, <1>9, <1>10, <2>1 DEF LargestIn
<1> QED BY <1>11, <1>12

LEMMA KeysFollow == NoEmptySlices /\ TablesIInv => KeysDistinct
<1> SUFFICES ASSUME NoEmptySlices, TablesIInv, guarded # Pending, Tiles(gcl),
                    NEW r \in table, NEW t \in table, r.entry = t.entry, r.queue = t.queue
             PROVE  r = t
  BY DEF KeysDistinct
<1>1. PICK a \in 1..Len(Slices) :
          /\ r.slice = a /\ r.entry \in LargestIn(Slices[a].low, Slices[a].high)
          /\ r.state = Slices[a].queue_states[r.queue]
          /\ r = [entry |-> r.entry, slice |-> r.slice, queue |-> r.queue, state |-> r.state]
  BY RowIs
<1>2. PICK b \in 1..Len(Slices) :
          /\ t.slice = b /\ t.entry \in LargestIn(Slices[b].low, Slices[b].high)
          /\ t.state = Slices[b].queue_states[t.queue]
          /\ t = [entry |-> t.entry, slice |-> t.slice, queue |-> t.queue, state |-> t.state]
  BY RowIs
<1>3. CASE a = b
  BY <1>1, <1>2, <1>3
<1>4. PICK n \in Nat : n = Len(Slices)
  BY GuardedFits DEF TablesIInv
<1>5. CASE a # b
  <2>1. n > 1
    BY <1>4, <1>5
  <2>2. /\ \A j \in 1..n : Slices[j].low \in Word /\ Slices[j].high \in Word
        /\ \A j \in 1..n : Slices[j].low < Slices[j].high
    BY <1>4, <2>1, GuardedFits, NotEmptyWithGuards DEF TablesIInv
  <2>3. \A j \in 1..(n-1) : Slices[j+1].low = Slices[j].high
    BY <1>4, CoverageFollows DEF TablesIInv, CoverageKept, Tiles, Slices
  <2>4. \A c, d \in 1..n : c < d => Slices[c].high <= Slices[d].low
    <3>1. \A j \in 1..n : Slices[j].low \in Nat /\ Slices[j].high \in Nat
      BY <2>2, BlocksPositive
    <3>2. \A j \in 1..n : Slices[j].low <= Slices[j].high
      BY <2>2, <3>1
    <3> HIDE DEF Slices
    <3> QED BY <2>3, <3>1, <3>2, TilesInOrder
  <2>5. CASE a < b
    BY <1>1, <1>2, <1>4, <2>2, <2>4, <2>5, SlicesApart
  <2>6. CASE b < a
    BY <1>1, <1>2, <1>4, <2>2, <2>4, <2>6, SlicesApart
  <2> QED BY <1>4, <1>5, <2>5, <2>6
<1> QED BY <1>3, <1>5
-----------------------------------------------------------------------------
\* Every slice says something of every queue.
NamesAll(g) == \A j \in DOMAIN g.time_slices : DOMAIN g.time_slices[j].queue_states = Queues

\* Slices do not end before they begin, and name the queues of the file's slices.
LEMMA GuardedSlices ==
    ASSUME GuardIInv, guarded # Pending, gcl.guard_band_width # 0, NEW p \in 1..Len(Slices)
    PROVE  /\ Slices[p].low <= Slices[p].high
           /\ \E j \in 1..Len(gcl.time_slices) :
                DOMAIN Slices[p].queue_states = DOMAIN gcl.time_slices[j].queue_states
<1>1. PICK w \in Nat, n \in Nat : w = gcl.guard_band_width /\ n = Len(gcl.time_slices)
  BY GuardedIs, InputParts
<1>2. Expansion(gcl, n, Slices)
  BY <1>1, GuardedIs DEF Slices
<1>3. PICK s : s = Slices /\ p \in 1..(2 * n)
  BY <1>2 DEF Expansion
<1>4. PICK j \in 1..n : p = 2 * j - 1 \/ p = 2 * j
  BY <1>3, EveryPlace
<1>5. s[p] = Moved(gcl, j) \/ s[p] = Band(gcl, j)
  BY <1>2, <1>3, <1>4 DEF Expansion
<1>6. gcl \in Inputs /\ j \in 1..Len(gcl.time_slices)
  BY <1>1, GuardedIs
<1>7. CASE s[p] = Moved(gcl, j)
  BY <1>1, <1>3, <1>6, <1>7, MovedIs
<1>8. CASE s[p] = Band(gcl, j)
  <2>1. PICK x \in Int, y \in Int : x = Ends(gcl)[j] - w /\ y = Ends(gcl)[j] /\ x <= y
    <3>1. j \in 0..Len(gcl.time_slices)
      BY <1>6
    <3>2. Ends(gcl)[j] \in Nat
      BY <1>6, <3>1, EndsGrow
    <3> QED BY <3>2
  <2>2. s[p].low = x /\ s[p].high = y
    BY <1>1, <1>6, <1>8, <2>1, MovedIs
  <2>3. DOMAIN s[p].queue_states = DOMAIN gcl.time_slices[j].queue_states
    BY <1>6, <1>8, MovedIs
  <2> QED BY <1>3, <1>6, <2>1, <2>2, <2>3
<1> QED BY <1>5, <1>7, <1>8

\* The first slice that does not end before a position contains it.
LEMMA AnsweredFollows ==
    ASSUME GuardIInv, guarded # Pending, Tiles(gcl), NamesAll(gcl)
    PROVE  Answered(guarded[1], Queues)
<1>1. PICK s \in Seq(TimeSlice), n \in Nat :
          s = guarded[1].time_slices /\ n = Len(s) /\ DOMAIN s = 1..n
  BY GuardedFits DEF Slices
<1>2. PICK c \in Nat : c = guarded[1].period
  BY GuardedFits, BlocksPositive
<1>3. /\ n \in 1..n /\ 1 \in 1..n /\ s[1].low = 0 /\ s[n].high = c
      /\ \A j \in 1..(n - 1) : s[j+1].low = s[j].high
  <2>1. Tiles(guarded[1])
    BY CoverageFollows DEF CoverageKept
  <2>2. n # 0
    BY <1>1, <2>1 DEF Tiles
  <2> QED BY <1>1, <1>2, <2>1, <2>2 DEF Tiles, LastOf
<1>4. \A j \in 1..n : DOMAIN s[j].queue_states = Queues
  <2>1. CASE gcl.guard_band_width = 0
    BY <1>1, <2>1, GuardedIs DEF NamesAll
  <2>2. CASE gcl.guard_band_width # 0
    <3>1. ASSUME NEW j \in 1..n PROVE DOMAIN s[j].queue_states = Queues
      <4>1. PICK h \in 1..Len(gcl.time_slices) :
                DOMAIN s[j].queue_states = DOMAIN gcl.time_slices[h].queue_states
        BY <1>1, <2>2, GuardedSlices DEF Slices
      <4>2. h \in DOMAIN gcl.time_slices
        BY GuardedIs, InputParts
      <4> QED BY <4>1, <4>2 DEF NamesAll
    <3> QED BY <3>1
  <2> QED BY <2>1, <2>2
<1>5. ASSUME NEW q \in Queues, NEW d \in 0..c
      PROVE  StatesAt(guarded[1], q, d) \in (SUBSET {0, 1}) \ {{}}
  <2>1. \A j \in 1..n : s[j].low \in Nat /\ s[j].high \in Nat /\ s[j].queue_states[q] \in {0, 1}
    <3>1. ASSUME NEW j \in 1..n
          PROVE  s[j].low \in Nat /\ s[j].high \in Nat /\ s[j].queue_states[q] \in {0, 1}
      <4>1. s[j] \in TimeSlice /\ q \in DOMAIN s[j].queue_states
        BY <1>1, <1>4
      <4> QED BY <4>1 DEF TimeSlice
    <3> QED BY <3>1
  <2> DEFINE S == {j \in 1..n : d <= s[j].high}
  <2>2. PICK m \in S : \A h \in S : m <= h
    <3>1. S \in SUBSET Nat /\ S # {}
      BY <1>3
    <3> HIDE DEF S
    <3> QED BY <3>1, LeastElement
  <2>3. m \in 1..n /\ d <= s[m].high
    OBVIOUS
  <2>4. s[m].low <= d
    <3>1. CASE m = 1
      BY <1>3, <3>1
    <3>2. CASE m # 1
      <4>1. PICK h \in 1..(n - 1) : m = h + 1
        <5>1. m - 1 \in 1..(n - 1) /\ m = (m - 1) + 1
          BY <2>3, <3>2
        <5> QED BY <5>1
      <4>2. h \in 1..n /\ ~(m <= h)
        BY <4>1
      <4>3. h \notin S
        <5> HIDE DEF S
        <5> QED BY <2>2, <4>2
      <4>4. s[h].high \in Nat /\ s[h].high < d
        BY <2>1, <4>2, <4>3
      <4> QED BY <1>3, <4>1, <4>4
    <3> QED BY <3>1, <3>2
  <2>5. s[m].queue_states[q] \in StatesAt(guarded[1], q, d)
    BY <1>1, <1>4, <2>3, <2>4 DEF StatesAt, Within
  <2>6. StatesAt(guarded[1], q, d) \subseteq {0, 1}
    BY <1>1, <2>1 DEF StatesAt
  <2> QED BY <2>5, <2>6
<1> QED BY <1>2, <1>5 DEF Answered

\* The times between two slices, a guard band of width w between them: from the first to
\* the second, and from the second to the first of the next period.
LEMMA LongEnoughBefore ==
    ASSUME NEW w \in Nat, NEW delay \in Nat, NEW early \in Nat, NEW c \in Nat,
           w > delay + early,
           NEW la \in Nat, NEW ha \in Nat, NEW lb \in Nat, NEW hb \in Nat,
           la <= ha, lb <= hb, lb - ha >= w, c - hb + la >= w
    PROVE  lb - ha > delay /\ (c - early - ha) + lb > delay
OBVIOUS

LEMMA LongEnoughBehind ==
    ASSUME NEW w \in Nat, NEW delay \in Nat, NEW early \in Nat, NEW c \in Nat,
           w > delay + early,
           NEW la \in Nat, NEW ha \in Nat, NEW lb \in Nat, NEW hb \in Nat,
           la - hb >= w, c - ha + lb >= w
    PROVE  hb < la /\ (c - early - ha) + lb > delay
OBVIOUS

\* A guard band is longer than delay, and than early besides.
LEMMA OpensLaterFollows ==
    ASSUME GuardIInv, guarded # Pending, Tiles(gcl), NEW delay \in Nat, NEW early \in Nat,
           gcl.guard_band_width > delay + early,
           NEW p \in Queues, NEW q \in Queues, ~OpenTogether(guarded[1], p, q)
    PROVE  OpensLater(guarded[1], p, q, delay, early)
<1>1. PICK w \in Nat : w = gcl.guard_band_width /\ w > delay + early /\ w # 0
  <2>1. gcl.guard_band_width \in Nat
    BY GuardedIs, InputParts
  <2> QED BY <2>1
<1>2. guarded[1].guard_band_width = w
  BY <1>1, GuardedIs
<1>3. PICK s \in Seq(TimeSlice) : s = guarded[1].time_slices /\ DOMAIN s = 1..Len(s)
  BY GuardedFits DEF Slices
<1>4. PICK c \in Nat : c = guarded[1].period
  BY GuardedFits, BlocksPositive
<1>5. SUFFICES ASSUME NEW a \in DOMAIN s, NEW b \in DOMAIN s, Opens(s[a], p), Opens(s[b], q)
               PROVE  /\ s[b].high < s[a].low \/ s[b].low - s[a].high > delay
                      /\ (c - early - s[a].high) + s[b].low > delay
  BY <1>3, <1>4 DEF OpensLater
<1>6. a # b
  BY <1>3, <1>5 DEF OpenTogether
<1>7. PICK la \in Nat, ha \in Nat, lb \in Nat, hb \in Nat :
        /\ la = s[a].low /\ ha = s[a].high /\ lb = s[b].low /\ hb = s[b].high
        /\ la <= ha /\ lb <= hb
  <2>1. s[a] \in TimeSlice /\ s[b] \in TimeSlice
    BY <1>3
  <2>2. s[a].low <= s[a].high /\ s[b].low <= s[b].high
    BY <1>1, <1>3, GuardedSlices DEF Slices
  <2> QED BY <2>1, <2>2 DEF TimeSlice
<1>8. /\ a < b => lb - ha >= w /\ c - hb + la >= w
      /\ ~(a < b) => la - hb >= w /\ c - ha + lb >= w
  <2>1. SlicesSeparated
    BY SeparationFollows
  <2>2. /\ IF a < b THEN lb - ha >= w ELSE c - ha + lb >= w
        /\ IF b < a THEN la - hb >= w ELSE c - hb + la >= w
    BY <1>1, <1>2, <1>3, <1>4, <1>5, <1>6, <1>7, <2>1 DEF SlicesSeparated
  <2>3. a \in Nat /\ b \in Nat
    BY <1>3
  <2> QED BY <1>6, <2>2, <2>3
<1>9. /\ hb < la \/ lb - ha > delay
      /\ (c - early - ha) + lb > delay
  <2>1. CASE a < b
    <3>1. lb - ha >= w /\ c - hb + la >= w
      BY <1>8, <2>1
    <3>2. lb - ha > delay /\ (c - early - ha) + lb > delay
      BY <1>1, <1>7, <3>1, LongEnoughBefore
    <3> QED BY <3>2
  <2>2. CASE ~(a < b)
    <3>1. la - hb >= w /\ c - ha + lb >= w
      BY <1>8, <2>2
    <3>2. hb < la /\ (c - early - ha) + lb > delay
      BY <1>1, <1>7, <3>1, LongEnoughBehind
    <3> QED BY <3>2
  <2> QED BY <2>1, <2>2
<1> QED BY <1>7, <1>9
-----------------------------------------------------------------------------
\* The block of an iteration is a largest one of the rest of the range, and the others
\* are those of what is left behind it.
LEMMA FirstLargest ==
    ASSUME NEW l \in Nat, NEW h \in Word, l <= h, NEW s, s = BlockSize(h - l + 1, l)
    PROVE  /\ s \in Blocks /\ s \in Nat \ {0} /\ l + s <= h + 1
           /\ [value |-> l, size |-> s] \notin LargestIn(l + s, h)
           /\ LargestIn(l, h) = {[value |-> l, size |-> s]} \union LargestIn(l + s, h)
<1> DEFINE b == [value |-> l, size |-> s]
<1>1. h \in Nat /\ l \in Word /\ h - l + 1 \in Nat \ {0}
  <2>1. h \in Nat
    BY BlocksPositive
  <2>2. l \in Word
    BY <2>1, WordsBelow
  <2> QED BY <2>1, <2>2
<1>2. s \in Blocks /\ s \in Nat \ {0} /\ s <= h - l + 1 /\ \E m \in Nat : l = s * m
  BY <1>1, BlockSizeFits, BlocksPositive
<1>3. (l % s) = 0
  <2>1. PICK m \in Nat : l = s * m
    BY <1>2
  <2>2. PICK t \in Nat \ {0} : t = s
    BY <1>2
  <2>3. 0 \in 0..(t - 1) /\ l = t * m + 0
    BY <2>1, <2>2
  <2> QED BY <2>2, <2>3, DivModUnique
<1>4. l + s - 1 <= h /\ l + s <= h + 1 /\ l + s \in Nat
  BY <1>1, <1>2
<1>5. b \in Entry /\ b.value = l /\ b.size = s /\ (b.value % b.size) = 0
      /\ b \in BlocksIn(l, h)
  BY <1>1, <1>2, <1>3, <1>4 DEF Entry, BlocksIn
<1> HIDE DEF b
<1>6. ASSUME NEW a \in BlocksIn(l, h), a.value = l PROVE a.size <= s
  <2>1. a.size \in Blocks /\ a.size \in Nat /\ (l % a.size) = 0 /\ l + a.size - 1 <= h
    BY <1>6, BlocksPositive DEF BlocksIn, Entry
  <2>2. a.size <= h - l + 1
    BY <1>1, <2>1
  <2> QED BY <1>1, <2>1, <2>2, BlockSizeLargest
<1>7. ASSUME NEW a \in BlocksIn(l, h)
      PROVE  /\ a \in Entry /\ a.value \in Nat /\ a.size \in Nat \ {0} /\ l <= a.value
             /\ (a.value % a.size) = 0 /\ a.value + a.size - 1 <= h
  BY EntryNumbers DEF BlocksIn
<1>8. b \in LargestIn(l, h)
  <2>1. ASSUME NEW a \in BlocksIn(l, h), a.size > b.size, Hit(a, b.value) PROVE FALSE
    <3>1. a.value = l
      BY <1>5, <1>7, <2>1, AlignedHit
    <3>2. a.size <= s
      BY <1>6, <3>1
    <3>3. a.size \in Nat /\ s \in Nat /\ a.size > s
      BY <1>2, <1>5, <1>7, <2>1
    <3> QED BY <3>2, <3>3
  <2> QED BY <1>5, <2>1 DEF LargestIn
\* A block that begins within the first one lies in it.
<1>9. ASSUME NEW a \in BlocksIn(l, h), a.value < l + s PROVE a.value + a.size <= l + s
  <2>1. Hit(b, a.value) /\ Hit(a, a.value)
    <3>1. l <= a.value /\ a.value < l + s /\ a.value < a.value + a.size
      BY <1>7, <1>9
    <3> QED BY <1>5, <1>7, <3>1, AlignedHit
  <2>2. CASE a.size <= s
    <3>1. a.value + a.size <= b.value + b.size
      BY <1>3, <1>5, <1>7, <2>1, <2>2, BlocksNest
    <3> QED BY <1>5, <3>1
  <2>3. CASE s <= a.size
    <3>1. a.value <= b.value
      BY <1>3, <1>5, <1>7, <2>1, <2>3, BlocksNest
    <3>2. a.value = l
      BY <1>5, <1>7, <3>1
    <3>3. a.size <= s
      BY <1>6, <3>2
    <3> QED BY <1>2, <1>7, <3>2, <3>3
  <2> QED BY <1>2, <1>7, <2>2, <2>3
<1>10. BlocksIn(l + s, h) = {a \in BlocksIn(l, h) : l + s <= a.value}
  <2>1. ASSUME NEW a \in Entry PROVE l + s <= a.value => l <= a.value
    BY <1>2, EntryNumbers
  <2> QED BY <2>1 DEF BlocksIn
<1>11. ASSUME NEW e \in LargestIn(l + s, h) PROVE e \in LargestIn(l, h)
  <2>1. e \in BlocksIn(l, h) /\ l + s <= e.value
    BY <1>10 DEF LargestIn
  <2>2. ASSUME NEW a \in BlocksIn(l, h), a.size > e.size, Hit(a, e.value) PROVE FALSE
    <3>1. CASE a.value < l + s
      <4>1. a.value + a.size <= l + s
        BY <1>9, <3>1
      <4>2. e.value < a.value + a.size
        BY <1>7, <2>1, <2>2, AlignedHit
      <4> QED BY <1>4, <1>7, <2>1, <4>1, <4>2
    <3>2. CASE ~(a.value < l + s)
      <4>1. a \in BlocksIn(l + s, h)
        BY <1>4, <1>7, <1>10, <3>2
      <4> QED BY <2>2, <4>1 DEF LargestIn
    <3> QED BY <3>1, <3>2
  <2> QED BY <2>1, <2>2 DEF LargestIn
<1>12. ASSUME NEW e \in LargestIn(l, h), e # b PROVE e \in LargestIn(l + s, h)
  <2>1. e \in BlocksIn(l, h)
    BY DEF LargestIn
  <2>2. l + s <= e.value
    <3>1. SUFFICES ASSUME e.value < l + s PROVE FALSE
      BY <1>4, <1>7, <2>1
    <3>2. Hit(b, e.value) /\ Hit(e, e.value)
      BY <1>3, <1>5, <1>7, <2>1, <3>1, AlignedHit
    <3> QED BY <1>7, <1>8, <1>12, <2>1, <3>2, LargestApart
  <2>3. e \in BlocksIn(l + s, h) /\ BlocksIn(l + s, h) \subseteq BlocksIn(l, h)
    BY <1>10, <2>1, <2>2
  <2> QED BY <2>3 DEF LargestIn
<1>13. b \notin LargestIn(l + s, h)
  <2>1. ~(l + s <= b.value)
    BY <1>2, <1>5
  <2> QED BY <1>10, <2>1 DEF LargestIn
<1> QED BY <1>2, <1>4, <1>8, <1>11, <1>12, <1>13 DEF b

\* A range that ends before it begins has no blocks.
LEMMA NoneBehind ==
    ASSUME NEW l \in Nat, NEW h \in Nat, h < l
    PROVE  LargestIn(l, h) = {}
<1> SUFFICES ASSUME NEW b \in LargestIn(l, h) PROVE FALSE
  OBVIOUS
<1>1. b \in Entry /\ l <= b.value /\ b.value + b.size - 1 <= h
  BY DEF LargestIn, BlocksIn
<1> QED BY <1>1, EntryNumbers

\* The counting loop from c: what it counts, and that it does count.
Counts(optimized, s, e, f) ==
    f = [c \in s .. (e + 1) |->
           IF c > e THEN 0 ELSE IF c = e THEN 1 ELSE 1 + f[c + Block(optimized, c, e)]]

\* The block of an iteration leaves no value out and does not pass the end of the range.
LEMMA BlockFits ==
    ASSUME NEW optimized \in BOOLEAN, NEW c \in Nat, NEW e \in Nat, c < e
    PROVE  /\ Block(optimized, c, e) \in Nat \ {0}
           /\ c + Block(optimized, c, e) <= e + 1
           /\ Block(optimized, c, e) <= BlockSize(e - c + 1, c)
           /\ optimized => Block(optimized, c, e) = BlockSize(e - c + 1, c)
<1>1. e - c \in Nat \ {0} /\ e - c + 1 \in Nat \ {0}
  OBVIOUS
<1>2. OptimizedBlock(c, e) = BlockSize(e - c + 1, c)
  BY DEF OptimizedBlock, BlockSize
<1>3. BlockSize(e - c + 1, c) \in Nat \ {0} /\ BlockSize(e - c + 1, c) <= e - c + 1
  BY <1>1, BlockSizeFits, BlocksPositive
<1>4. MaxBlockSize(e - c) \in Blocks /\ MaxBlockSize(e - c) \in Nat \ {0}
      /\ MaxBlockSize(e - c) <= e - c
  BY <1>1, MaxBlockSizeFits, BlocksPositive
<1>5. AlignSize(c) \in Blocks /\ AlignSize(c) \in Nat \ {0} /\ (c % AlignSize(c)) = 0
  BY AlignSizeDivides, BlocksPositive
<1>6. OriginalBlock(c, e) \in Blocks /\ OriginalBlock(c, e) <= e - c
      /\ (c % OriginalBlock(c, e)) = 0
  <2>1. CASE c = 0
    <3>1. OriginalBlock(c, e) = 1 \/ OriginalBlock(c, e) = MaxBlockSize(e - c)
      BY <2>1 DEF OriginalBlock
    <3>2. OriginalBlock(c, e) \in Blocks /\ OriginalBlock(c, e) \in Nat \ {0}
          /\ OriginalBlock(c, e) <= e - c
      BY <1>1, <1>4, <3>1, BlocksPositive
    <3>3. \A n \in Nat \ {0} : (0 % n) = 0
      OBVIOUS
    <3> QED BY <2>1, <3>2, <3>3
  <2>2. CASE c # 0 /\ MaxBlockSize(e - c) <= AlignSize(c)
    <3>1. OriginalBlock(c, e) = MaxBlockSize(e - c)
      BY <2>2 DEF OriginalBlock
    <3>2. PICK s \in Nat \ {0}, m \in Nat : s = MaxBlockSize(e - c) /\ AlignSize(c) = s * m
      BY <1>4, <1>5, <2>2, SmallerBlockDivides
    <3>3. PICK q \in Nat, r \in 0 .. (AlignSize(c) - 1) :
              c = AlignSize(c) * q + r /\ (c % AlignSize(c)) = r
      BY <1>5, Quotient
    <3>4. c = s * (m * q) + 0 /\ m * q \in Nat /\ 0 \in 0 .. (s - 1)
      <4>1. c = (s * m) * q
        <5>1. PICK d \in Nat : d = (s * m) * q
          OBVIOUS
        <5> QED BY <1>5, <3>2, <3>3, <5>1
      <4> QED BY <4>1
    <3>5. (c % s) = 0
      BY <3>4, DivModUnique
    <3> QED BY <1>4, <3>1, <3>2, <3>5
  <2>3. CASE c # 0 /\ ~(MaxBlockSize(e - c) <= AlignSize(c))
    <3>1. OriginalBlock(c, e) = AlignSize(c)
      BY <2>3 DEF OriginalBlock
    <3> QED BY <1>1, <1>4, <1>5, <2>3, <3>1
  <2> QED BY <2>1, <2>2, <2>3
<1>7. OriginalBlock(c, e) \in Nat \ {0} /\ OriginalBlock(c, e) <= BlockSize(e - c + 1, c)
  <2>1. OriginalBlock(c, e) \in Nat \ {0}
    BY <1>6, BlocksPositive
  <2>2. OriginalBlock(c, e) <= e - c + 1
    BY <1>1, <1>6, <2>1
  <2> QED BY <1>1, <1>6, <2>1, <2>2, BlockSizeLargest
<1>8. CASE optimized
  BY <1>2, <1>3, <1>8 DEF Block
<1>9. CASE ~optimized
  BY <1>1, <1>6, <1>7, <1>9 DEF Block
<1> QED BY <1>8, <1>9

\* There is such a count: it is extended from e + 1 downwards, a value at a time.
LEMMA CountsThere ==
    ASSUME NEW optimized \in BOOLEAN, NEW s \in Nat, NEW e \in Nat, s <= e
    PROVE  \E f : Counts(optimized, s, e, f)
<1> DEFINE S == {m \in s .. (e + 1) : \E f : Counts(optimized, m, e, f)}
<1>1. e + 1 \in S
  <2> DEFINE f == [c \in (e + 1) .. (e + 1) |-> 0]
  <2>1. \A c \in (e + 1) .. (e + 1) : c > e
    OBVIOUS
  <2>2. Counts(optimized, e + 1, e, f)
    BY <2>1 DEF Counts
  <2> QED BY <2>2
<1>2. PICK m \in S : \A h \in S : m <= h
  <2>1. S \in SUBSET Nat
    OBVIOUS
  <2> HIDE DEF S
  <2> QED BY <1>1, <2>1, LeastElement
<1>3. m \in s .. (e + 1)
  OBVIOUS
<1>4. CASE m = s
  BY <1>4
<1>5. CASE m # s
  <2>1. PICK l \in s .. e : m = l + 1 /\ l \in Nat
    <3>1. m - 1 \in s .. e /\ m = (m - 1) + 1 /\ m - 1 \in Nat
      BY <1>3, <1>5
    <3> QED BY <3>1
  <2>2. PICK f : Counts(optimized, l + 1, e, f)
    BY <2>1
  <2> DEFINE first == IF l = e THEN 1 ELSE 1 + f[l + Block(optimized, l, e)]
             g == [c \in l .. (e + 1) |-> IF c = l THEN first ELSE f[c]]
  <2>3. ASSUME NEW c \in l .. (e + 1)
        PROVE  g[c] = IF c > e THEN 0 ELSE IF c = e THEN 1 ELSE 1 + g[c + Block(optimized, c, e)]
    <3>1. ASSUME c < e
          PROVE  /\ c + Block(optimized, c, e) \in l .. (e + 1)
                 /\ c + Block(optimized, c, e) # l
      <4>1. c \in Nat
        BY <2>1
      <4>2. PICK b \in Nat \ {0} : b = Block(optimized, c, e) /\ c + b <= e + 1
        BY <3>1, <4>1, BlockFits
      <4>3. c + b \in l .. (e + 1) /\ c + b # l
        BY <2>1, <4>1, <4>2
      <4> QED BY <4>2, <4>3
    <3>2. CASE c = l
      <4>1. ~(l > e)
        BY <2>1
      <4>2. l # e => l < e
        BY <2>1
      <4> HIDE DEF first
      <4>3. g[c] = first
        BY <3>2
      <4>4. l # e => g[l + Block(optimized, l, e)] = f[l + Block(optimized, l, e)]
        BY <3>1, <3>2, <4>2
      <4> HIDE DEF g
      <4> QED BY <3>2, <4>1, <4>3, <4>4 DEF first
    <3>3. CASE c # l
      <4>1. c \in (l + 1) .. (e + 1)
        BY <2>1, <3>3
      <4>2. f[c] = IF c > e THEN 0 ELSE IF c = e THEN 1 ELSE 1 + f[c + Block(optimized, c, e)]
        BY <2>2, <4>1 DEF Counts
      <4>3. ~(c > e) /\ c # e => c < e
        BY <2>1
      <4>4. c < e => g[c + Block(optimized, c, e)] = f[c + Block(optimized, c, e)]
        BY <3>1
      <4>5. g[c] = f[c]
        BY <3>3
      <4> HIDE DEF g
      <4> QED BY <4>2, <4>3, <4>4, <4>5
    <3> QED BY <3>2, <3>3
  <2>4. g = [c \in l .. (e + 1) |-> g[c]]
    OBVIOUS
  <2> HIDE DEF g
  <2>5. Counts(optimized, l, e, g)
    BY <2>3, <2>4 DEF Counts
  <2>6. l \in S
    <3>1. l \in s .. (e + 1)
      BY <2>1
    <3> QED BY <2>5, <3>1
  <2>7. m <= l
    <3> HIDE DEF S
    <3> QED BY <1>2, <2>6
  <2> QED BY <2>1, <2>7
<1> QED BY <1>4, <1>5

\* A largest block stays one when the range gets smaller, as long as it is in it.
LEMMA LargestStays ==
    ASSUME NEW l \in Nat, NEW m \in Nat, NEW n \in Nat, NEW h \in Nat, l <= m, m <= n,
           LargestIn(n, h) \subseteq LargestIn(l, h)
    PROVE  LargestIn(n, h) \subseteq LargestIn(m, h)
<1>1. BlocksIn(n, h) \subseteq BlocksIn(m, h) /\ BlocksIn(m, h) \subseteq BlocksIn(l, h)
  BY EntryNumbers DEF BlocksIn
<1> QED BY <1>1 DEF LargestIn

\* The count from c is at least that of the largest blocks of the rest of the range, and
\* the optimized one is just that.
LargestCounted(optimized, e, f, c) ==
    /\ IsFiniteSet(LargestIn(c, e))
    /\ f[c] \in Nat
    /\ Cardinality(LargestIn(c, e)) <= f[c]
    /\ optimized => f[c] = Cardinality(LargestIn(c, e))

\* The count from c is right if that from every larger value is.
LEMMA CountsStep ==
    ASSUME NEW optimized \in BOOLEAN, NEW s \in Nat, NEW e \in Word,
           NEW f, Counts(optimized, s, e, f), NEW c \in s .. (e + 1), c \in Nat,
           \A d \in s .. (e + 1) : c < d => LargestCounted(optimized, e, f, d)
    PROVE  LargestCounted(optimized, e, f, c)
<1>1. e \in Nat
  BY BlocksPositive
<1>2. f[c] = IF c > e THEN 0 ELSE IF c = e THEN 1 ELSE 1 + f[c + Block(optimized, c, e)]
  BY DEF Counts
<1>3. CASE c > e
  <2>1. LargestIn(c, e) = {}
    BY <1>1, <1>3, NoneBehind
  <2>2. IsFiniteSet(LargestIn(c, e)) /\ Cardinality(LargestIn(c, e)) = 0 /\ f[c] = 0
    BY <1>2, <1>3, <2>1, FS_EmptySet
  <2> QED BY <2>2 DEF LargestCounted
<1>4. CASE c <= e
  <2>1. PICK b : b = BlockSize(e - c + 1, c)
    OBVIOUS
  <2>2. /\ b \in Nat \ {0} /\ c + b <= e + 1
        /\ [value |-> c, size |-> b] \notin LargestIn(c + b, e)
        /\ LargestIn(c, e) = {[value |-> c, size |-> b]} \union LargestIn(c + b, e)
    BY <1>4, <2>1, FirstLargest
  <2>3. CASE c = e
    <3>1. e < c + b /\ c + b \in Nat
      BY <1>1, <2>2, <2>3
    <3>2. LargestIn(c + b, e) = {}
      BY <1>1, <3>1, NoneBehind
    <3>3. LargestIn(c, e) = {[value |-> c, size |-> b]}
      BY <2>2, <3>2
    <3>4. IsFiniteSet(LargestIn(c, e)) /\ Cardinality(LargestIn(c, e)) = 1
      BY <3>3, FS_Singleton
    <3>5. f[c] = 1
      BY <1>1, <1>2, <2>3
    <3> QED BY <3>4, <3>5 DEF LargestCounted
  <2>4. CASE c < e
    <3>1. PICK a \in Nat \ {0} : /\ a = Block(optimized, c, e) /\ a <= b
                                 /\ optimized => a = b
      BY <1>1, <2>1, <2>4, BlockFits
    <3>2. /\ c + a \in s .. (e + 1) /\ c < c + a
          /\ c + b \in s .. (e + 1) /\ c < c + b
      BY <1>1, <2>2, <3>1
    <3>3. LargestCounted(optimized, e, f, c + a) /\ LargestCounted(optimized, e, f, c + b)
      BY <3>2
    <3>4. f[c] = 1 + f[c + a]
      BY <1>1, <1>2, <2>4, <3>1
    <3>5. /\ IsFiniteSet(LargestIn(c, e))
          /\ Cardinality(LargestIn(c, e)) = Cardinality(LargestIn(c + b, e)) + 1
      <4>1. IsFiniteSet(LargestIn(c + b, e))
        BY <3>3 DEF LargestCounted
      <4>2. LargestIn(c, e) = LargestIn(c + b, e) \union {[value |-> c, size |-> b]}
        BY <2>2
      <4> QED BY <2>2, <4>1, <4>2, FS_AddElement
    <3>6. Cardinality(LargestIn(c + b, e)) <= Cardinality(LargestIn(c + a, e))
      <4>1. c + a \in Nat /\ c + b \in Nat /\ c <= c + a /\ c + a <= c + b
        BY <2>2, <3>1
      <4>2. LargestIn(c + b, e) \subseteq LargestIn(c, e)
        BY <2>2
      <4>3. LargestIn(c + b, e) \subseteq LargestIn(c + a, e)
        BY <1>1, <4>1, <4>2, LargestStays
      <4>4. IsFiniteSet(LargestIn(c + a, e))
        BY <3>3 DEF LargestCounted
      <4> QED BY <4>3, <4>4, FS_Subset
    <3>7. PICK x \in Nat, y \in Nat, z \in Nat :
              /\ x = Cardinality(LargestIn(c + b, e)) /\ y = Cardinality(LargestIn(c + a, e))
              /\ z = f[c + a] /\ x <= y /\ y <= z /\ (optimized => z = y)
      <4>1. Cardinality(LargestIn(c + b, e)) \in Nat /\ Cardinality(LargestIn(c + a, e)) \in Nat
        BY <3>3, FS_CardinalityType DEF LargestCounted
      <4> QED BY <3>3, <3>6, <4>1 DEF LargestCounted
    <3>8. f[c] = 1 + z /\ Cardinality(LargestIn(c, e)) = x + 1
      BY <3>4, <3>5, <3>7
    <3>9. optimized => x = y
      BY <3>1, <3>7
    <3> QED BY <3>5, <3>7, <3>8, <3>9 DEF LargestCounted
  <2> QED BY <1>1, <1>4, <2>3, <2>4
<1> QED BY <1>1, <1>3, <1>4

\* The optimized loop counts the largest blocks, and the other one at least as many.
LEMMA CountsLargest ==
    ASSUME NEW optimized \in BOOLEAN, NEW s \in Nat, NEW e \in Word,
           NEW f, Counts(optimized, s, e, f)
    PROVE  \A c \in s .. (e + 1) : LargestCounted(optimized, e, f, c)
<1> DEFINE T == {c \in s .. (e + 1) : ~LargestCounted(optimized, e, f, c)}
<1>1. e \in Nat
  BY BlocksPositive
<1>2. T \in SUBSET Nat /\ e + 1 \in Nat /\ \A h \in T : h <= e + 1
  BY <1>1
<1>3. SUFFICES ASSUME T # {} PROVE FALSE
  OBVIOUS
<1> HIDE DEF T
<1>4. PICK c \in T : \A h \in T : h <= c
  BY <1>2, <1>3, GreatestElement
<1>5. c \in s .. (e + 1) /\ c \in Nat /\ ~LargestCounted(optimized, e, f, c)
  BY <1>2 DEF T
<1>6. ASSUME NEW d \in s .. (e + 1), c < d PROVE LargestCounted(optimized, e, f, d)
  <2>1. d \notin T
    BY <1>4, <1>5, <1>6
  <2> QED BY <2>1 DEF T
<1>7. LargestCounted(optimized, e, f, c)
  BY <1>5, <1>6, CountsStep
<1> QED BY <1>5, <1>7

\* What is counted for a range that has any values, and for one that has none.
LEMMA CountIs ==
    ASSUME NEW optimized \in BOOLEAN, NEW s \in Nat, NEW e \in Word
    PROVE  /\ IsFiniteSet(LargestIn(s, e))
           /\ CountTernaryEntries(optimized, s, e) \in Nat
           /\ Cardinality(LargestIn(s, e)) <= CountTernaryEntries(optimized, s, e)
           /\ optimized => CountTernaryEntries(optimized, s, e) = Cardinality(LargestIn(s, e))
<1>1. e \in Nat
  BY BlocksPositive
<1>2. CASE s > e
  <2>1. LargestIn(s, e) = {}
    BY <1>1, <1>2, NoneBehind
  <2>2. CountTernaryEntries(optimized, s, e) = 0
    BY <1>2 DEF CountTernaryEntries
  <2>3. IsFiniteSet(LargestIn(s, e)) /\ Cardinality(LargestIn(s, e)) = 0
    BY <2>1, FS_EmptySet
  <2> QED BY <2>2, <2>3
<1>3. CASE s <= e
  <2> DEFINE count == CHOOSE f : Counts(optimized, s, e, f)
  <2>1. Counts(optimized, s, e, count)
    BY <1>1, <1>3, CountsThere
  <2>2. CountTernaryEntries(optimized, s, e) = count[s]
    <3>1. ~(s > e)
      BY <1>1, <1>3
    <3> QED BY <3>1 DEF CountTernaryEntries, Counts
  <2>3. s \in s .. (e + 1)
    BY <1>1, <1>3
  <2> HIDE DEF count
  <2>4. LargestCounted(optimized, e, count, s)
    BY <2>1, <2>3, CountsLargest
  <2> QED BY <2>2, <2>4 DEF LargestCounted
<1>4. s > e \/ s <= e
  BY <1>1
<1> QED BY <1>2, <1>3, <1>4

\* The rows of a slice: each of its entries once for every queue it names.
LEMMA RowsCounted ==
    ASSUME NEW es, IsFiniteSet(es), NEW j, NEW D, D = DOMAIN Slices[j].queue_states,
           IsFiniteSet(D)
    PROVE  /\ IsFiniteSet(Rows(es, j))
           /\ Cardinality(Rows(es, j)) = Cardinality(es) * Cardinality(D)
<1> DEFINE row(e, q) == [entry |-> e, slice |-> j, queue |-> q,
                         state |-> Slices[j].queue_states[q]]
           f == [p \in es \X D |-> row(p[1], p[2])]
<1>1. Rows(es, j) = {row(e, q) : e \in es, q \in D}
  BY DEF Rows
<1>2. \A e1, e2, q1, q2 : row(e1, q1) = row(e2, q2) => e1 = e2 /\ q1 = q2
  <2> TAKE e1, e2, q1, q2
  <2>1. row(e1, q1).entry = e1 /\ row(e2, q2).entry = e2
        /\ row(e1, q1).queue = q1 /\ row(e2, q2).queue = q2
    OBVIOUS
  <2> HIDE DEF row
  <2> QED BY <2>1
<1> HIDE DEF row
<1>3. ASSUME NEW e \in es, NEW q \in D
      PROVE  <<e, q>> \in es \X D /\ f[<<e, q>>] = row(e, q)
  OBVIOUS
<1>4. f \in [es \X D -> Rows(es, j)]
  <2>1. ASSUME NEW p \in es \X D PROVE row(p[1], p[2]) \in Rows(es, j)
    <3>1. p[1] \in es /\ p[2] \in D
      OBVIOUS
    <3> QED BY <1>1, <3>1
  <2> QED BY <2>1
<1>5. ASSUME NEW a \in es \X D, NEW b \in es \X D, f[a] = f[b] PROVE a = b
  <2>1. PICK e1 \in es, q1 \in D, e2 \in es, q2 \in D : a = <<e1, q1>> /\ b = <<e2, q2>>
    OBVIOUS
  <2> HIDE DEF f
  <2>2. row(e1, q1) = row(e2, q2)
    BY <1>3, <1>5, <2>1
  <2>3. e1 = e2 /\ q1 = q2
    BY <1>2, <2>2
  <2> QED BY <2>1, <2>3
<1>6. ASSUME NEW t \in Rows(es, j) PROVE \E p \in es \X D : f[p] = t
  <2>1. PICK e \in es, q \in D : t = row(e, q)
    BY <1>1
  <2>2. <<e, q>> \in es \X D /\ f[<<e, q>>] = t
    BY <1>3, <2>1
  <2> HIDE DEF f
  <2> QED BY <2>2
<1> HIDE DEF f
<1>7. f \in Bijection(es \X D, Rows(es, j))
  BY <1>4, <1>5, <1>6, Fun_IsBij
<1>8. IsFiniteSet(es \X D) /\ Cardinality(es \X D) = Cardinality(es) * Cardinality(D)
  BY FS_Product
<1>9. ExistsBijection(es \X D, Rows(es, j))
  BY <1>7 DEF ExistsBijection
<1> QED BY <1>8, <1>9, FS_Bijection

LEMMA AddLarger ==
    ASSUME NEW x \in Int, NEW y \in Int, NEW u \in Int, NEW v \in Int, x <= y, u <= v
    PROVE  x + u <= y + v
OBVIOUS

\* Sums of larger numbers are larger.
LEMMA SumsGrow ==
    ASSUME NEW n \in Nat, NEW a \in [1..n -> Int], NEW b \in [1..n -> Int],
           \A j \in 1..n : a[j] <= b[j]
    PROVE  Sums(a)[n] <= Sums(b)[n]
<1> DEFINE T == {m \in 0..n : ~(Sums(a)[m] <= Sums(b)[m])}
<1>1. /\ Sums(a)[0] = 0 /\ Sums(b)[0] = 0
      /\ \A j \in 1..n : Sums(a)[j] = Sums(a)[j-1] + a[j] /\ Sums(b)[j] = Sums(b)[j-1] + b[j]
      /\ \A j \in 0..n : Sums(a)[j] \in Int /\ Sums(b)[j] \in Int
  BY SumsAre
<1>2. T = {}
  <2> SUFFICES ASSUME T # {} PROVE FALSE
    OBVIOUS
  <2>1. T \in SUBSET Nat
    OBVIOUS
  <2> HIDE DEF T
  <2>2. PICK m \in T : \A h \in T : m <= h
    BY <2>1, LeastElement
  <2>3. m \in 0..n /\ ~(Sums(a)[m] <= Sums(b)[m])
    BY DEF T
  <2>4. m # 0
    BY <1>1, <2>3
  <2>5. PICK l \in 0..n : m = l + 1 /\ l = m - 1 /\ m \in 1..n
    <3>1. m - 1 \in 0..n /\ m = (m - 1) + 1 /\ m \in 1..n
      BY <2>3, <2>4
    <3> QED BY <3>1
  <2>6. l \notin T
    BY <2>2, <2>5
  <2>7. PICK x \in Int, y \in Int, u \in Int, v \in Int :
            /\ x = Sums(a)[l] /\ y = Sums(b)[l] /\ u = a[m] /\ v = b[m]
            /\ x <= y /\ u <= v
    BY <1>1, <2>5, <2>6 DEF T
  <2>8. Sums(a)[m] = x + u /\ Sums(b)[m] = y + v
    <3>1. Sums(a)[m] = Sums(a)[m-1] + a[m] /\ Sums(b)[m] = Sums(b)[m-1] + b[m]
      BY <1>1, <2>5
    <3> QED BY <2>5, <2>7, <3>1
  <2>9. x + u <= y + v
    BY <2>7, AddLarger
  <2> QED BY <2>3, <2>8, <2>9
<1>3. n \in 0..n /\ n \notin T
  <2> HIDE DEF T
  <2> QED BY <1>2
<1> QED BY <1>3

\* How many rows the first m slices have.
LEMMA TableCounted ==
    ASSUME NEW n \in Nat, NEW c \in [1..n -> Int],
           \A j \in 1..n : IsFiniteSet(RowsOf(j)) /\ Cardinality(RowsOf(j)) = c[j]
    PROVE  /\ IsFiniteSet(UNION {RowsOf(j) : j \in 1..n})
           /\ Cardinality(UNION {RowsOf(j) : j \in 1..n}) = Sums(c)[n]
<1> DEFINE U(m) == UNION {RowsOf(j) : j \in 1..m}
           Good(m) == IsFiniteSet(U(m)) /\ Cardinality(U(m)) = Sums(c)[m]
           T == {m \in 0..n : ~Good(m)}
<1>1. /\ Sums(c)[0] = 0
      /\ \A j \in 1..n : Sums(c)[j] = Sums(c)[j-1] + c[j]
      /\ \A j \in 0..n : Sums(c)[j] \in Int
  BY SumsAre
<1>2. Good(0)
  <2>1. U(0) = {}
    OBVIOUS
  <2> HIDE DEF U
  <2> QED BY <1>1, <2>1, FS_EmptySet
<1>3. ASSUME NEW l \in 0..n, l + 1 \in 1..n, Good(l) PROVE Good(l + 1)
  <2>1. U(l + 1) = U(l) \union RowsOf(l + 1)
    <3>1. 1..(l + 1) = (1..l) \union {l + 1}
      OBVIOUS
    <3> QED BY <3>1
  <2>2. U(l) \intersect RowsOf(l + 1) = {}
    <3>1. ASSUME NEW j \in Int, NEW r \in RowsOf(j) PROVE r.slice = j
      BY <3>1 DEF RowsOf, Rows
    <3>2. SUFFICES ASSUME NEW r \in U(l), r \in RowsOf(l + 1) PROVE FALSE
      OBVIOUS
    <3>3. PICK j \in 1..l : r \in RowsOf(j)
      OBVIOUS
    <3>4. j # l + 1 /\ j \in Int /\ l + 1 \in Int
      OBVIOUS
    <3> HIDE DEF U
    <3> QED BY <3>1, <3>2, <3>3, <3>4
  <2>3. IsFiniteSet(U(l)) /\ Cardinality(U(l)) = Sums(c)[l]
    BY <1>3
  <2>4. IsFiniteSet(RowsOf(l + 1)) /\ Cardinality(RowsOf(l + 1)) = c[l + 1]
    BY <1>3
  <2> HIDE DEF U
  <2>5. /\ IsFiniteSet(U(l + 1))
        /\ Cardinality(U(l + 1)) = Cardinality(U(l)) + Cardinality(RowsOf(l + 1))
                                     - Cardinality(U(l) \intersect RowsOf(l + 1))
    BY <2>1, <2>3, <2>4, FS_Union
  <2>6. Cardinality(U(l) \intersect RowsOf(l + 1)) = 0
    BY <2>2, FS_EmptySet
  <2>7. Sums(c)[l + 1] = Sums(c)[l] + c[l + 1]
    <3>1. (l + 1) - 1 = l
      OBVIOUS
    <3> QED BY <1>1, <1>3, <3>1
  <2>8. PICK x \in Int, y \in Int : x = Sums(c)[l] /\ y = c[l + 1]
    BY <1>1, <1>3
  <2>9. Cardinality(U(l + 1)) = x + y - 0 /\ Sums(c)[l + 1] = x + y
    BY <2>3, <2>4, <2>5, <2>6, <2>7, <2>8
  <2> QED BY <2>5, <2>8, <2>9
<1> HIDE DEF Good
<1>4. T = {}
  <2> SUFFICES ASSUME T # {} PROVE FALSE
    OBVIOUS
  <2>1. T \in SUBSET Nat
    OBVIOUS
  <2> HIDE DEF T
  <2>2. PICK m \in T : \A h \in T : m <= h
    BY <2>1, LeastElement
  <2>3. m \in 0..n /\ ~Good(m)
    BY DEF T
  <2>4. m # 0
    BY <1>2, <2>3
  <2>5. PICK l \in 0..n : m = l + 1 /\ m \in 1..n
    <3>1. m - 1 \in 0..n /\ m = (m - 1) + 1 /\ m \in 1..n
      BY <2>3, <2>4
    <3> QED BY <3>1
  <2>6. l \notin T
    BY <2>2, <2>5
  <2>7. Good(l)
    BY <2>6 DEF T
  <2> QED BY <1>3, <2>3, <2>5, <2>7
<1>5. n \in 0..n /\ n \notin T
  <2> HIDE DEF T
  <2> QED BY <1>4
<1>6. Good(n)
  BY <1>5
<1> QED BY <1>6 DEF Good

\* Where the j-th of some slices begins that come one every s.
BeginsAt(j, s) == (j - 1) * s

LEMMA BeginNext ==
    ASSUME NEW j \in Int, NEW s \in Int
    PROVE  BeginsAt(j, s) \in Int /\ BeginsAt(j + 1, s) = BeginsAt(j, s) + s
BY DEF BeginsAt

\* The guard bands of g end one every s.
EndsEvery(g, n, s) ==
    \A j \in 1..n : Ends(g)[j - 1] = BeginsAt(j, s) /\ Ends(g)[j] = BeginsAt(j, s) + s

\* Equal slices with their guard bands are as far apart as a slice and a band are long.
LEMMA EqualEnds ==
    ASSUME NEW g \in Inputs, NEW n \in Nat, n = Len(g.time_slices),
           NEW width \in Int, NEW s \in Int, s = width + g.guard_band_width,
           g.guard_band_width # 0,
           \A j \in 1..n : Width(g.time_slices[j]) = width
    PROVE  EndsEvery(g, n, s)
<1> DEFINE T == {m \in 0..n : Ends(g)[m] # BeginsAt(m + 1, s)}
<1>1. Ends(g)[0] = BeginsAt(1, s)
  <2>1. BeginsAt(1, s) = 0
    BY DEF BeginsAt
  <2> QED BY <2>1, EndsAre
<1>2. ASSUME NEW l \in 0..n, l + 1 \in 1..n
      PROVE  Ends(g)[l + 1] = Ends(g)[l] + s
  <2>1. l + 1 - 1 = l
    OBVIOUS
  <2> QED BY <1>2, <2>1, EndsAre
<1>3. ASSUME NEW l \in 0..n
      PROVE  /\ BeginsAt(l + 1, s) \in Int
             /\ BeginsAt(l + 1 + 1, s) = BeginsAt(l + 1, s) + s
  <2>1. l + 1 \in Int
    OBVIOUS
  <2> QED BY <2>1, BeginNext
<1>4. T = {}
  <2> SUFFICES ASSUME T # {} PROVE FALSE
    OBVIOUS
  <2>1. T \in SUBSET Nat
    OBVIOUS
  <2> HIDE DEF T
  <2>2. PICK m \in T : \A h \in T : m <= h
    BY <2>1, LeastElement
  <2>3. m \in 0..n /\ Ends(g)[m] # BeginsAt(m + 1, s)
    BY DEF T
  <2>4. m # 0
    BY <1>1, <2>3
  <2>5. PICK l \in 0..n : m = l + 1 /\ m \in 1..n
    <3>1. m - 1 \in 0..n /\ m = (m - 1) + 1 /\ m \in 1..n
      BY <2>3, <2>4
    <3> QED BY <3>1
  <2>6. l \notin T
    BY <2>2, <2>5
  <2>7. Ends(g)[l] = BeginsAt(l + 1, s)
    BY <2>6 DEF T
  <2> QED BY <1>2, <1>3, <2>3, <2>5, <2>7
<1>5. ASSUME NEW j \in 1..n
      PROVE  /\ Ends(g)[j - 1] = BeginsAt(j, s)
             /\ Ends(g)[j] = BeginsAt(j, s) + s
  <2>1. PICK l \in 0..n : j = l + 1 /\ l = j - 1
    <3>1. j - 1 \in 0..n /\ j = j - 1 + 1
      OBVIOUS
    <3> QED BY <3>1
  <2>2. l \notin T /\ l + 1 \in 1..n
    <3> HIDE DEF T
    <3> QED BY <1>4, <2>1
  <2>3. Ends(g)[l] = BeginsAt(l + 1, s)
    BY <2>2
  <2> QED BY <1>2, <2>1, <2>2, <2>3
<1> QED BY <1>5 DEF EndsEvery

\* The slices of the program, without guard bands and with them.
LEMMA PlainSlices ==
    ASSUME NEW period \in Nat, NEW n \in Nat, NEW width \in Int, width = SliceWidth(period, n),
           NEW slices, slices = MakeEqualTasSlices(period, n, 0)
    PROVE  /\ DOMAIN slices = 1..n /\ Len(slices) = n
           /\ \A j \in 1..n : /\ slices[j].low = BeginsAt(j, width)
                              /\ slices[j].high = BeginsAt(j, width) + width
<1>1. slices = [p \in 1..n |-> [low |-> (p - 1) * width, high |-> (p - 1) * width + width]]
  <2>1. width + 0 = width
    OBVIOUS
  <2> QED BY <2>1 DEF MakeEqualTasSlices
<1>2. DOMAIN slices = 1..n /\ Len(slices) = n
  BY <1>1
<1>3. ASSUME NEW j \in 1..n
      PROVE  slices[j].low = (j - 1) * width /\ slices[j].high = (j - 1) * width + width
  BY <1>1
<1> QED BY <1>2, <1>3 DEF BeginsAt

Banded(slices, n, width, band, s) ==
    /\ DOMAIN slices = 1..(2 * n) /\ Len(slices) = 2 * n
    /\ \A j \in 1..n : /\ slices[2*j - 1].low = BeginsAt(j, s)
                       /\ slices[2*j - 1].high = BeginsAt(j, s) + width
                       /\ slices[2*j].low = BeginsAt(j, s) + width
                       /\ slices[2*j].high = BeginsAt(j, s) + width + band

LEMMA BandedSlices ==
    ASSUME NEW period \in Nat, NEW n \in Nat, NEW width \in Int, width = SliceWidth(period, n),
           NEW band \in Nat, band # 0, NEW s \in Int, s = width + band,
           NEW slices, slices = MakeEqualTasSlices(period, n, band)
    PROVE  Banded(slices, n, width, band, s)
<1> DEFINE Content(c) == [low |-> c * s, high |-> c * s + width]
           Guard(c) == [low |-> c * s + width,
                        high |-> c * s + width + band]
<1>1. slices = [p \in 1..(2 * n) |->
                  IF p % 2 = 1 THEN Content(p \div 2) ELSE Guard(p \div 2 - 1)]
  BY DEF MakeEqualTasSlices
<1>2. DOMAIN slices = 1..(2 * n) /\ Len(slices) = 2 * n
  <2> HIDE DEF Content, Guard
  <2>1. 2 * n \in Nat
    OBVIOUS
  <2> QED BY <1>1, <2>1
<1>3. ASSUME NEW j \in 1..n
      PROVE  slices[2*j - 1] = Content(j - 1) /\ slices[2*j] = Guard(j - 1)
  <2>1. ((2*j - 1) % 2) = 1 /\ ((2*j - 1) \div 2) = j - 1
    <3>1. 2 \in Nat \ {0} /\ j - 1 \in Int /\ 1 \in 0..(2 - 1) /\ 2*j - 1 \in Int
          /\ 2*j - 1 = 2 * (j - 1) + 1
      OBVIOUS
    <3> QED BY <3>1, DivModUnique
  <2>2. ((2*j) % 2) = 0 /\ ((2*j) \div 2) = j
    <3>1. 2 \in Nat \ {0} /\ j \in Int /\ 0 \in 0..(2 - 1) /\ 2*j \in Int /\ 2*j = 2 * j + 0
      OBVIOUS
    <3> QED BY <3>1, DivModUnique
  <2>3. 2*j - 1 \in 1..(2 * n) /\ 2*j \in 1..(2 * n)
    OBVIOUS
  <2> HIDE DEF Content, Guard
  <2>4. slices[2*j - 1] = Content(j - 1)
    BY <1>1, <2>1, <2>3
  <2>5. slices[2*j] = Guard(j - 1)
    BY <1>1, <2>2, <2>3
  <2> QED BY <2>4, <2>5
<1>4. ASSUME NEW j \in 1..n
      PROVE  /\ slices[2*j - 1].low = BeginsAt(j, s)
             /\ slices[2*j - 1].high = BeginsAt(j, s) + width
             /\ slices[2*j].low = BeginsAt(j, s) + width
             /\ slices[2*j].high = BeginsAt(j, s) + width + band
  <2>1. PICK b : b = BeginsAt(j, s) /\ b = (j - 1) * s
    BY DEF BeginsAt
  <2>2. /\ Content(j - 1) = [low |-> b, high |-> b + width]
        /\ Guard(j - 1) = [low |-> b + width, high |-> b + width + band]
    BY <2>1
  <2> HIDE DEF Content, Guard
  <2> QED BY <1>3, <2>1, <2>2
<1> HIDE DEF Content, Guard
<1> QED BY <1>2, <1>4 DEF Banded

\* They are those of the guarded tGCL, and all name the queues of the first one.
LEMMA EvaluatedSlices ==
    ASSUME TablesIInv, guarded # Pending, Evaluated(gcl), NEW slices,
           slices = MakeEqualTasSlices(gcl.period, Len(gcl.time_slices), gcl.guard_band_width)
    PROVE  /\ DOMAIN slices = 1..Len(Slices) /\ Len(slices) = Len(Slices)
           /\ \A p \in 1..Len(Slices) :
                /\ slices[p].low = Slices[p].low /\ slices[p].high = Slices[p].high
                /\ DOMAIN Slices[p].queue_states = DOMAIN gcl.time_slices[1].queue_states
<1>1. GuardIInv /\ gcl \in Inputs
  BY GuardedIs DEF TablesIInv
<1>2. PICK n \in Nat, band \in Nat :
          n = Len(gcl.time_slices) /\ band = gcl.guard_band_width /\ n # 0
  BY <1>1, InputParts DEF Evaluated
<1>3. PICK period \in Nat, width \in Int : period = gcl.period /\ width = SliceWidth(period, n)
  <2>1. PICK period \in Nat : period = gcl.period
    BY <1>1, InputParts
  <2>2. period \in Int /\ n \in Nat \ {0}
    BY <1>2
  <2>3. SliceWidth(period, n) \in Int
    BY <2>2, DivMod DEF SliceWidth
  <2> QED BY <2>1, <2>3
<1>4. slices = MakeEqualTasSlices(period, n, band)
  BY <1>2, <1>3
<1>8. PICK s \in Int : s = width + band
  BY <1>2, <1>3
<1>5. ASSUME NEW j \in 1..n
      PROVE  /\ gcl.time_slices[j].low = BeginsAt(j, width)
             /\ gcl.time_slices[j].high = BeginsAt(j, width) + width
             /\ Width(gcl.time_slices[j]) = width
             /\ DOMAIN gcl.time_slices[j].queue_states
                  = DOMAIN gcl.time_slices[1].queue_states
  <2>1. /\ gcl.time_slices[j].low = BeginsAt(j, width)
        /\ gcl.time_slices[j].high = BeginsAt(j + 1, width)
        /\ DOMAIN gcl.time_slices[j].queue_states = DOMAIN gcl.time_slices[1].queue_states
    <3>1. /\ gcl.time_slices[j].low = (j - 1) * width /\ gcl.time_slices[j].high = j * width
          /\ DOMAIN gcl.time_slices[j].queue_states = DOMAIN gcl.time_slices[1].queue_states
      BY <1>2, <1>3 DEF Evaluated
    <3>2. j + 1 - 1 = j
      OBVIOUS
    <3> QED BY <3>1, <3>2 DEF BeginsAt
  <2>2. PICK b \in Int : b = BeginsAt(j, width) /\ BeginsAt(j + 1, width) = b + width
    <3>1. j \in Int /\ width \in Int
      BY <1>2, <1>3
    <3> QED BY <3>1, BeginNext
  <2>3. Width(gcl.time_slices[j]) = (b + width) - b
    BY <2>1, <2>2 DEF Width
  <2>4. (b + width) - b = width
    OBVIOUS
  <2> QED BY <2>1, <2>2, <2>3, <2>4
<1>6. CASE band = 0
  <2>1. Slices = gcl.time_slices
    BY <1>1, <1>2, <1>6, GuardedIs DEF Slices
  <2>2. slices = MakeEqualTasSlices(period, n, 0)
    BY <1>4, <1>6
  <2>3. /\ DOMAIN slices = 1..n /\ Len(slices) = n
        /\ \A j \in 1..n : /\ slices[j].low = BeginsAt(j, width)
                           /\ slices[j].high = BeginsAt(j, width) + width
    BY <1>2, <1>3, <2>2, PlainSlices
  <2> QED BY <1>2, <1>5, <2>1, <2>3
<1>7. CASE band # 0
  <2>1. Banded(slices, n, width, band, s)
    BY <1>2, <1>3, <1>4, <1>7, <1>8, BandedSlices
  <2>2. Expansion(gcl, n, Slices)
    BY <1>1, <1>2, <1>7, GuardedIs DEF Slices
  <2>3. Len(Slices) = 2 * n
    BY <2>2 DEF Expansion
  <2>4. ASSUME NEW p \in 1..(2 * n)
        PROVE  /\ slices[p].low = Slices[p].low /\ slices[p].high = Slices[p].high
               /\ DOMAIN Slices[p].queue_states = DOMAIN gcl.time_slices[1].queue_states
    <3>1. PICK j \in 1..n : p = 2 * j - 1 \/ p = 2 * j
      BY EveryPlace
    <3>2. PICK low \in Int : low = BeginsAt(j, s)
      <4>1. j \in Int /\ s \in Int
        BY <1>8
      <4> QED BY <4>1, BeginNext
    <3>3. Slices[2*j - 1] = Moved(gcl, j) /\ Slices[2*j] = Band(gcl, j)
      BY <2>2 DEF Expansion
    <3>4. Ends(gcl)[j - 1] = low /\ Ends(gcl)[j] = low + s
      <4>1. \A h \in 1..n : Width(gcl.time_slices[h]) = width
        BY <1>5
      <4>2. s = width + gcl.guard_band_width /\ gcl.guard_band_width # 0
        BY <1>2, <1>7, <1>8
      <4>3. n = Len(gcl.time_slices)
        BY <1>2
      <4>4. EndsEvery(gcl, n, s)
        BY <1>1, <4>1, <4>2, <4>3, EqualEnds
      <4> QED BY <3>2, <4>4 DEF EndsEvery
    <3>5. PICK x \in Int : x = low + s /\ x - band = low + width
                           /\ x = low + width + band
      <4>1. s = width + band /\ s \in Int /\ width \in Int /\ band \in Int
        BY <1>2, <1>3, <1>8
      <4>2. low + s - band = low + width /\ low + s = low + width + band
        BY <4>1
      <4> QED BY <4>1, <4>2
    <3>6. /\ Moved(gcl, j).low = low /\ Moved(gcl, j).high = x - band
          /\ Band(gcl, j).low = x - band /\ Band(gcl, j).high = x
          /\ Moved(gcl, j).queue_states = gcl.time_slices[j].queue_states
          /\ DOMAIN Band(gcl, j).queue_states = DOMAIN gcl.time_slices[j].queue_states
      <4>1. j \in 1..Len(gcl.time_slices) /\ gcl.guard_band_width # 0
        BY <1>2, <1>7
      <4>2. /\ Moved(gcl, j).low = Ends(gcl)[j - 1]
            /\ Moved(gcl, j).high = Ends(gcl)[j] - gcl.guard_band_width
            /\ Band(gcl, j).low = Moved(gcl, j).high
            /\ Band(gcl, j).high = Ends(gcl)[j]
            /\ Moved(gcl, j).queue_states = gcl.time_slices[j].queue_states
            /\ DOMAIN Band(gcl, j).queue_states = DOMAIN gcl.time_slices[j].queue_states
        BY <1>1, <4>1, MovedIs
      <4>3. Ends(gcl)[j] = x /\ gcl.guard_band_width = band
        BY <1>2, <3>4, <3>5
      <4> QED BY <3>4, <4>2, <4>3
    <3>7. /\ slices[2*j - 1].low = low /\ slices[2*j - 1].high = low + width
          /\ slices[2*j].low = low + width /\ slices[2*j].high = low + width + band
      BY <2>1, <3>2 DEF Banded
    <3> QED BY <1>5, <3>1, <3>3, <3>5, <3>6, <3>7
  <2> QED BY <2>1, <2>3, <2>4 DEF Banded
<1> QED BY <1>6, <1>7

\* What is counted for each slice, for every queue.
LEMMA EvaluationFollows ==
    ASSUME TablesIInv, Finished, Evaluated(gcl), NEW optimized \in BOOLEAN
    PROVE  /\ EvaluationOf(gcl, optimized) \in Int
           /\ Cardinality(table) <= EvaluationOf(gcl, optimized)
           /\ optimized => EvaluationOf(gcl, optimized) = Cardinality(table)
<1>1. guarded # Pending /\ gcl \in Inputs /\ GuardIInv
  BY GuardedIs DEF TablesIInv, Finished
<1>2. PICK n \in Nat : n = Len(Slices)
  BY <1>1, GuardedFits
<1>3. PICK D : D = DOMAIN gcl.time_slices[1].queue_states
  OBVIOUS
<1>4. IsFiniteSet(D) /\ Cardinality(D) \in Nat
  <2>1. gcl.time_slices[1] \in TimeSlice
    <3>1. 1 \in 1..Len(gcl.time_slices)
      BY <1>1, InputParts DEF Evaluated
    <3> QED BY <1>1, <3>1, InputParts
  <2>2. PICK qs \in SUBSET Queues : gcl.time_slices[1].queue_states \in [qs -> {0, 1}]
    BY <2>1 DEF TimeSlice
  <2>3. D \in SUBSET Queues
    BY <1>3, <2>2
  <2> QED BY <2>3, InputAssumption, FS_Subset, FS_CardinalityType
<1>5. PICK d \in Nat : d = Cardinality(D)
  BY <1>4
<1> DEFINE largest(p) == Cardinality(LargestIn(Slices[p].low, Slices[p].high))
           count(p) == CountTernaryEntries(optimized, Slices[p].low, Slices[p].high)
           a == [p \in 1..n |-> largest(p) * d]
           b == [p \in 1..n |-> d * count(p)]
<1>6. ASSUME NEW p \in 1..n
      PROVE  /\ IsFiniteSet(LargestIn(Slices[p].low, Slices[p].high))
             /\ largest(p) \in Nat /\ count(p) \in Nat
             /\ largest(p) <= count(p) /\ (optimized => count(p) = largest(p))
  <2>1. Slices[p].low \in Nat /\ Slices[p].high \in Word
    BY <1>1, <1>2, GuardedFits, BlocksPositive
  <2> QED BY <2>1, CountIs, FS_CardinalityType
<1> HIDE DEF largest, count
<1>7. a \in [1..n -> Int] /\ b \in [1..n -> Int]
  BY <1>6
<1>8. ASSUME NEW p \in 1..n PROVE a[p] <= b[p] /\ (optimized => a[p] = b[p])
  <2>1. PICK x \in Nat, y \in Nat : x = largest(p) /\ y = count(p) /\ x <= y
                                    /\ (optimized => y = x)
    BY <1>6
  <2>2. x * d <= d * y /\ x * d = d * x
    <3>1. PICK z \in Nat : y = x + z
      <4>1. y - x \in Nat /\ y = x + (y - x)
        BY <2>1
      <4> QED BY <4>1
    <3>2. d * (x + z) = x * d + d * z /\ d * z \in Nat /\ x * d \in Nat /\ x * d = d * x
      OBVIOUS
    <3>3. PICK u \in Nat, v \in Nat : u = x * d /\ v = d * z /\ d * y = u + v
      BY <3>1, <3>2
    <3> QED BY <3>2, <3>3
  <2> QED BY <2>1, <2>2
<1>9. ASSUME NEW p \in 1..n PROVE IsFiniteSet(RowsOf(p)) /\ Cardinality(RowsOf(p)) = a[p]
  <2>1. PICK es : es = LargestIn(Slices[p].low, Slices[p].high)
                  /\ IsFiniteSet(es) /\ Cardinality(es) = largest(p)
    BY <1>6 DEF largest
  <2>2. D = DOMAIN Slices[p].queue_states
    BY <1>1, <1>2, <1>3, EvaluatedSlices
  <2>3. IsFiniteSet(Rows(es, p)) /\ Cardinality(Rows(es, p)) = Cardinality(es) * Cardinality(D)
    BY <1>4, <2>1, <2>2, RowsCounted
  <2>4. RowsOf(p) = Rows(es, p)
    BY <2>1 DEF RowsOf
  <2> QED BY <1>5, <2>1, <2>3, <2>4
<1>10. Cardinality(table) = Sums(a)[n]
  <2>1. Converted = n
    BY <1>2 DEF Converted, Finished
  <2>2. table = UNION {RowsOf(j) : j \in 1..n}
    BY <2>1 DEF TablesIInv
  <2> HIDE DEF a
  <2> QED BY <1>7, <1>9, <2>2, TableCounted
<1>11. EvaluationOf(gcl, optimized) = Sums(b)[n]
  <2>1. PICK slices :
          slices = MakeEqualTasSlices(gcl.period, Len(gcl.time_slices), gcl.guard_band_width)
    OBVIOUS
  <2>2. /\ DOMAIN slices = 1..n /\ Len(slices) = n
        /\ \A p \in 1..n : slices[p].low = Slices[p].low /\ slices[p].high = Slices[p].high
    BY <1>1, <1>2, <2>1, EvaluatedSlices
  <2>3. EvaluationOf(gcl, optimized) = CountTasEntries(optimized, slices, d)
    BY <1>3, <1>5, <2>1 DEF EvaluationOf
  <2>4. [p \in DOMAIN slices |->
            d * CountTernaryEntries(optimized, slices[p].low, slices[p].high)] = b
    BY <2>2 DEF count
  <2> HIDE DEF b
  <2> QED BY <2>2, <2>3, <2>4 DEF CountTasEntries
<1>12. optimized => a = b
  BY <1>8
<1>13. Sums(a)[n] <= Sums(b)[n] /\ Sums(b)[n] \in Int
  <2> HIDE DEF a, b
  <2>1. n \in 0..n
    OBVIOUS
  <2> QED BY <1>7, <1>8, <2>1, SumsGrow, SumsAre
<1> HIDE DEF a, b
<1> QED BY <1>10, <1>11, <1>12, <1>13
-----------------------------------------------------------------------------
\* The tables of a tGCL, on the way from the configuration file to the switch, are
\* what the switch takes: entries, queues and states of their widths.
THEOREM TypeCorrect == Spec => []TypeOK
BY TablesInductive, TypeFollows, PTL

\* The two tables together answer for every difference of time stamps what the
\* tGCL with its guard bands says of that position, and of the end of its period for
\* differences behind it.
THEOREM TablesAnswerTheSchedule == Spec => []TablesAnswer
BY TablesInductive, AnswersFollow, PTL

\* No entry of a tGCL that covers its period is written twice for a queue, if
\* none of its slices is empty.
THEOREM KeysAreDistinct ==
    ASSUME NoEmptySlices PROVE Spec => []KeysDistinct
<1>1. TablesIInv => KeysDistinct
  BY KeysFollow
<1> QED BY <1>1, TablesInductive, PTL

\* A tGCL that covers its period does so with its guard bands.
THEOREM CoverageIsKept == Spec => []CoverageKept
<1>1. TablesIInv => CoverageKept
  BY CoverageFollows DEF TablesIInv
<1> QED BY <1>1, TablesInductive, PTL

\* The insertion of guard bands changes no queue's sending time in a period.
THEOREM SendingTimeIsKept == Spec => []OpenTimeKept
<1>1. TablesIInv => OpenTimeKept
  BY OpenTimeFollows DEF TablesIInv
<1> QED BY <1>1, TablesInductive, PTL

\* A guard band lies between any two slices that open a queue each, around the
\* end of the period as well.
THEOREM SlicesAreSeparated == Spec => []SlicesSeparated
<1>1. TablesIInv => SlicesSeparated
  BY SeparationFollows DEF TablesIInv
<1> QED BY <1>1, TablesInductive, PTL

\* The shaper finds a state at every position (its GclAssumption), if the slices of the
\* file follow each other through the period and name every queue.
THEOREM EveryPositionAnswered ==
    Spec => [](guarded # Pending /\ Tiles(gcl) /\ NamesAll(gcl) => Answered(guarded[1], Queues))
<1>1. TablesIInv => (guarded # Pending /\ Tiles(gcl) /\ NamesAll(gcl)
                       => Answered(guarded[1], Queues))
  BY AnsweredFollows DEF TablesIInv
<1> QED BY <1>1, TablesInductive, PTL

\* Guard bands keep exclusive queues apart as the shaper needs it (its GuardBandsWide), if
\* they are longer than the delay of a control packet and the jitter of a period together.
THEOREM GuardBandsSuffice ==
    ASSUME NEW CONSTANT delay \in Nat, NEW CONSTANT early \in Nat
    PROVE  Spec => [](guarded # Pending /\ Tiles(gcl) /\ gcl.guard_band_width > delay + early =>
                        \A p, q \in Queues : ~OpenTogether(guarded[1], p, q) =>
                          OpensLater(guarded[1], p, q, delay, early))
<1>1. TablesIInv =>
        (guarded # Pending /\ Tiles(gcl) /\ gcl.guard_band_width > delay + early =>
           \A p, q \in Queues : ~OpenTogether(guarded[1], p, q) =>
             OpensLater(guarded[1], p, q, delay, early))
  BY OpensLaterFollows DEF TablesIInv
<1> QED BY <1>1, TablesInductive, PTL

\* For any equal slices of any width, with guard bands or without, the optimized count of
\* the evaluation program is the number of rows the controller writes, and the count of its
\* other copy of the loop is not smaller.
THEOREM OptimizedCountIsTheTable == Spec => []OptimizedCounts
<1>1. TablesIInv => OptimizedCounts
  <2> SUFFICES ASSUME TablesIInv, Finished, Evaluated(gcl)
               PROVE  /\ EvaluationOf(gcl, TRUE) = Cardinality(table)
                      /\ EvaluationOf(gcl, TRUE) <= EvaluationOf(gcl, FALSE)
    BY DEF OptimizedCounts
  <2>1. EvaluationOf(gcl, TRUE) = Cardinality(table)
    BY EvaluationFollows, Zenon
  <2>2. Cardinality(table) <= EvaluationOf(gcl, FALSE)
    BY EvaluationFollows, Zenon
  <2> QED BY <2>1, <2>2, Zenon
<1> QED BY <1>1, TablesInductive, PTL

\* What holds of the loops on their own holds of every slice and of the period
\* of a tGCL: exact cover by the fewest entries, none of which share a value, a panic only at
\* the largest word, and a table that compares.
THEOREM LoopsAreSound ==
    Spec => [](/\ ExactCover /\ Disjoint /\ FewestEntries /\ PanicOnlyAtLargestWord
               /\ ExactlyExceeded /\ PriorityIrrelevant)
<1>1. TablesIInv => /\ ExactCover /\ Disjoint /\ FewestEntries /\ PanicOnlyAtLargestWord
                    /\ ExactlyExceeded /\ PriorityIrrelevant
  BY FewestFollows, ComparisonFollows DEF TablesIInv, RangeIInv, ExceededIInv
<1> QED BY <1>1, TablesInductive, PTL
=============================================================================
