-------------------------- MODULE TernaryEvaluation --------------------------
(***************************************************************************)
(* The evaluation program (bin/evaluate_ternary_entries.rs): how many      *)
(* entries a tGCL of equal slices takes, by the program's copy of the      *)
(* conversion and by its optimized one, next to the controller's tables.   *)
(***************************************************************************)
EXTENDS GateTables

\* The two conversions differ in the block of an iteration, which starts at c
\* when the values up to e are left.
OriginalBlock(c, e) ==
    LET align == IF c = 0 THEN 1 ELSE AlignSize(c)
    IN IF MaxBlockSize(e - c) <= align THEN MaxBlockSize(e - c) ELSE align

OptimizedBlock(c, e) ==
    IF MaxBlockSize(e - c + 1) <= AlignSize(c) THEN MaxBlockSize(e - c + 1)
    ELSE AlignSize(c)

Block(optimized, c, e) ==
    IF optimized THEN OptimizedBlock(c, e) ELSE OriginalBlock(c, e)

\* count_ternary_entries and count_ternary_entries_optimized: a block for each
\* iteration, and one for a last value.
CountTernaryEntries(optimized, s, e) ==
    LET count[c \in s .. (e + 1)] ==
          IF c > e THEN 0 ELSE IF c = e THEN 1 ELSE 1 + count[c + Block(optimized, c, e)]
    IN IF s > e THEN 0 ELSE count[s]

\* The width of n equal slices: what is left of the period behind them has none.
SliceWidth(period, n) == period \div n

\* make_equal_tas_slices: slices of equal width, each with a guard band behind
\* it unless its width is 0.
MakeEqualTasSlices(period, n, guard_band) ==
    LET width == SliceWidth(period, n)
        Content(c) == [low |-> c * (width + guard_band),
                       high |-> c * (width + guard_band) + width]
        Guard(c) == [low |-> Content(c).high, high |-> Content(c).high + guard_band]
    IN IF guard_band > 0
       THEN [p \in 1..(2 * n) |->
               IF p % 2 = 1 THEN Content(p \div 2) ELSE Guard(p \div 2 - 1)]
       ELSE [p \in 1..n |-> Content(p - 1)]

\* count_tas_entries and count_tas_entries_optimized.
CountTasEntries(optimized, slices, queues) ==
    Sums([p \in DOMAIN slices |->
            queues * CountTernaryEntries(optimized, slices[p].low, slices[p].high)])
      [Len(slices)]
-----------------------------------------------------------------------------
\* The tGCLs the program evaluates: equal slices that name the same queues.
Evaluated(g) ==
    LET n == Len(g.time_slices)
    IN /\ n # 0
       /\ \A j \in 1..n :
            /\ g.time_slices[j].low = (j - 1) * SliceWidth(g.period, n)
            /\ g.time_slices[j].high = j * SliceWidth(g.period, n)
            /\ DOMAIN g.time_slices[j].queue_states = DOMAIN g.time_slices[1].queue_states

EvaluationOf(g, optimized) ==
    CountTasEntries(optimized,
        MakeEqualTasSlices(g.period, Len(g.time_slices), g.guard_band_width),
        Cardinality(DOMAIN g.time_slices[1].queue_states))

\* The optimized count is the number of entries the controller writes: the
\* three copies of the conversion and the two of the insertion of guard bands
\* agree (evaluate_ternary_entries.rs:97-112 and 256-291).  The count that is not
\* optimized is never smaller, and is not that of the controller, which its
\* comment (20-22) says it is.
OptimizedCounts ==
    Finished /\ Evaluated(gcl) =>
      /\ EvaluationOf(gcl, TRUE) = Cardinality(table)
      /\ EvaluationOf(gcl, TRUE) <= EvaluationOf(gcl, FALSE)
=============================================================================
