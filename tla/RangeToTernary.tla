--------------------------- MODULE RangeToTernary ---------------------------
(***************************************************************************)
(* The controller writes every time slice of a gate control list as a set  *)
(* of ternary (value, mask) entries.  This module is the loop that splits  *)
(* the closed range start..end of u32 nanoseconds into such entries        *)
(* (libs/tas.rs; libs/stream_gate_schedule.rs has the same loop).          *)
(*                                                                         *)
(* A mask !(size - 1) keeps the bits above a block of `size' values, so an *)
(* entry is modelled by its value and the size of its block.               *)
(***************************************************************************)
EXTENDS Integers, FiniteSets

CONSTANTS W,      \* width of the unsigned integers (32 in the code)
          Pow2    \* Pow2[i] is 2^i, for i in 0..W

ASSUME WordAssumption ==
    /\ W \in Nat \ {0}
    /\ Pow2 \in [0..W -> Nat]
    /\ Pow2[0] = 1
    /\ \A i \in 0..(W-1) : Pow2[i+1] = 2 * Pow2[i]

Word == 0 .. (Pow2[W] - 1)

VARIABLES start, end,   \* the parameters of the call
          cur,          \* next value of the range that has no entry yet
          entries,      \* the entries pushed so far
          pc            \* "loop", "done", or "panic": overflow check failed

rangeVars == <<start, end, cur, entries, pc>>

Blocks == {Pow2[k] : k \in 0..(W-1)}

Entry == [value : Word, size : Blocks]

\* The match the switch evaluates: the bits under the mask are equal.
Hit(e, v) == v \div e.size = e.value \div e.size

Largest(S) == CHOOSE p \in S : \A q \in S : q <= p

\* Mutant: the smallest power of two not below n.
MutMaxBlockRoundsUp(n) ==
    CHOOSE p \in Blocks \union {Pow2[W]} :
        p >= n /\ \A q \in Blocks : q >= n => p <= q

\* 1 << (31 - leading_zeros(n)): the largest power of two not above n.
MaxBlockSize(n) == Largest({p \in Blocks : p <= n})

\* 1 << trailing_zeros(c), and 1 << 31 when c is 0.
AlignSize(c) ==
    IF c = 0 THEN Pow2[W-1] ELSE Largest({p \in Blocks : c % p = 0})

\* Mutant: the distance to the end instead of the number of values left, as
\* count_ternary_entries of the evaluation has it.
MutBlockByDistance(n, c) ==
    IF MaxBlockSize(n - 1) <= AlignSize(c) THEN MaxBlockSize(n - 1) ELSE AlignSize(c)

BlockSize(n, c) ==
    IF MaxBlockSize(n) <= AlignSize(c) THEN MaxBlockSize(n) ELSE AlignSize(c)
-----------------------------------------------------------------------------
RangeInit ==
    /\ start \in Word
    /\ end \in Word
    /\ cur = start
    /\ entries = {}
    /\ pc = "loop"

\* The last value alone: an entry that matches exactly, and the loop breaks.
AddSingle ==
    /\ pc = "loop"
    /\ cur = end
    /\ entries' = entries \union {[value |-> cur, size |-> 1]}
    /\ pc' = "done"
    /\ UNCHANGED <<start, end, cur>>

\* end - cur + 1 does not fit the word: only for the whole range of u32.
CountOverflows == end - cur + 1 = Pow2[W]

\* Mutant: cur is not advanced.
MutAddBlockStays ==
    /\ pc = "loop"
    /\ cur < end
    /\ LET size == BlockSize(end - cur + 1, cur) IN
         entries' = entries \union {[value |-> cur, size |-> size]}
    /\ UNCHANGED <<start, end, cur, pc>>

\* Mutant: blocks share an endpoint, as the time slices of a schedule do.
MutAddBlockSharedEndpoint ==
    /\ pc = "loop"
    /\ cur < end
    /\ ~CountOverflows
    /\ LET size == BlockSize(end - cur + 1, cur) IN
         /\ entries' = entries \union {[value |-> cur, size |-> size]}
         /\ cur' = IF size > 1 THEN cur + size - 1 ELSE cur + 1
    /\ UNCHANGED <<start, end, pc>>

\* Mutant: the sum is not checked against the width of the word.
MutAddBlockUnchecked ==
    /\ pc = "loop"
    /\ cur < end
    /\ ~CountOverflows
    /\ LET size == BlockSize(end - cur + 1, cur) IN
         /\ entries' = entries \union {[value |-> cur, size |-> size]}
         /\ cur' = cur + size
    /\ UNCHANGED <<start, end, pc>>

\* The largest aligned block that fits, then cur moves behind it.
AddBlock ==
    /\ pc = "loop"
    /\ cur < end
    /\ ~CountOverflows
    /\ LET size == BlockSize(end - cur + 1, cur) IN
         /\ entries' = entries \union {[value |-> cur, size |-> size]}
         /\ IF cur + size < Pow2[W]
            THEN cur' = cur + size /\ pc' = pc
            ELSE cur' = cur /\ pc' = "panic"
    /\ UNCHANGED <<start, end>>

PanicOnCount ==
    /\ pc = "loop"
    /\ cur < end
    /\ CountOverflows
    /\ pc' = "panic"
    /\ UNCHANGED <<start, end, cur, entries>>

LeaveLoop ==
    /\ pc = "loop"
    /\ cur > end
    /\ pc' = "done"
    /\ UNCHANGED <<start, end, cur, entries>>

RangeNext == AddSingle \/ AddBlock \/ PanicOnCount \/ LeaveLoop

RangeSpec == RangeInit /\ [][RangeNext]_rangeVars /\ WF_rangeVars(RangeNext)
-----------------------------------------------------------------------------
RangeTypeOK ==
    /\ start \in Word /\ end \in Word /\ cur \in Word
    /\ entries \in SUBSET Entry
    /\ pc \in {"loop", "done", "panic"}

\* The entries pushed so far match the values below cur and no other.
CoverSoFar ==
    pc = "loop" =>
      /\ start <= cur
      /\ \A v \in Word :
           (\E e \in entries : Hit(e, v)) <=> (start <= v /\ v < cur)

\* A finished call leaves entries that match exactly the values of the slice:
\* a gap would be a missed time slot, an excess value a second verdict for it
\* (range_to_ternary_entries, tas.rs).
ExactCover ==
    pc = "done" =>
      \A v \in Word : (\E e \in entries : Hit(e, v)) <=> (start <= v /\ v <= end)

\* No two entries match one value: the entries of a call carry no priority,
\* so the switch may not be left to choose.
Disjoint ==
    \A e, f \in entries : (\E v \in Word : Hit(e, v) /\ Hit(f, v)) => e = f

\* The blocks of the range that no larger block of it contains: any cover of
\* the range by blocks has at least as many.
LargestBlocks ==
    LET inside == {b \in Entry : /\ b.value % b.size = 0
                                 /\ start <= b.value /\ b.value + b.size - 1 <= end}
    IN {b \in inside : ~\E a \in inside : a.size > b.size /\ Hit(a, b.value)}

\* No slice takes more entries than it must: 39000 of them (TAS.p4) are shared
\* by all slices of all ports, and each counts once for every queue.
FewestEntries == pc = "done" => entries = LargestBlocks

\* The overflow checks of a debug build stop the controller only for a range
\* that ends at the largest word: every other slice gets its entries.
PanicOnlyAtLargestWord == pc = "panic" => end = Pow2[W] - 1 /\ start < end
=============================================================================
