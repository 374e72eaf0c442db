------------------------ MODULE HyperperiodExceeded -------------------------
(***************************************************************************)
(* The switch cannot compare a position in the hyperperiod with its        *)
(* duration, so the controller writes ternary entries that match exactly   *)
(* the larger positions (init_hyperperiod_exceeded_detection_table in      *)
(* libs/delta_adjustment.rs).  This module is the loop over the bits of    *)
(* the duration, from the most significant one.                            *)
(*                                                                         *)
(* Masks are modelled by what they keep: an entry for bit i keeps the bits *)
(* from i upwards, that is, the multiples of 2^i.                          *)
(***************************************************************************)
EXTENDS Integers

CONSTANTS N,      \* width of a time stamp (48 in the code)
          Bit     \* Bit[i] is 2^i, for i in 0..N

ASSUME BitAssumption ==
    /\ N \in Nat \ {0}
    /\ Bit \in [0..N -> Nat]
    /\ Bit[0] = 1
    /\ \A i \in 0..(N-1) : Bit[i+1] = 2 * Bit[i]

Position == 0 .. (Bit[N] - 1)

VARIABLES hyperperiod,  \* the duration the table is built for
          i,            \* the bits from i upwards have been handled
          exceeded      \* the entries written so far

exceededVars == <<hyperperiod, i, exceeded>>

\* v with the bits below i cleared.
Keep(v, j) == v - (v % Bit[j])

BitIsZero(v, j) == Keep(v, j) = Keep(v, j+1)

ExceededEntry == [value : Position, bit : 0..(N-1)]

ExceededHit(e, v) == Keep(v, e.bit) = e.value

\* Mutant: the prefix is taken from bit j upwards, so bit j is not forced.
MutBitEntryPrefix(t, j) == [value |-> Keep(t, j), bit |-> j]

\* The prefix of the duration above bit j, with bit j forced to 1.
BitEntry(t, j) == [value |-> Keep(t, j+1) + Bit[j], bit |-> j]
-----------------------------------------------------------------------------
ExceededInit ==
    /\ hyperperiod \in Position
    /\ i = N
    /\ exceeded = {}

\* One iteration: an entry only when the bit of the duration is 0.
NextBit ==
    /\ i > 0
    /\ i' = i - 1
    /\ exceeded' = exceeded \union
         (IF BitIsZero(hyperperiod, i-1) THEN {BitEntry(hyperperiod, i-1)} ELSE {})
    /\ UNCHANGED hyperperiod

ExceededSpec == ExceededInit /\ [][NextBit]_exceededVars /\ WF_exceededVars(NextBit)
-----------------------------------------------------------------------------
ExceededTypeOK ==
    /\ hyperperiod \in Position
    /\ i \in 0..N
    /\ exceeded \in SUBSET ExceededEntry

\* After the bits from i upwards, the entries match the positions that exceed
\* the duration already in those bits, and no others.  With i = 0 this is the
\* comparison the table stands for (delta_adjustment.rs:44-71).
ExceededSoFar ==
    \A v \in Position :
        (\E e \in exceeded : ExceededHit(e, v)) <=> Keep(v, i) > Keep(hyperperiod, i)

\* The finished table matches exactly the positions behind the hyperperiod: one
\* too few and a control packet would miss the gate control list, one too many
\* and the end of the last time slice would be pulled forward.
ExactlyExceeded ==
    i = 0 => \A v \in Position :
               (\E e \in exceeded : ExceededHit(e, v)) <=> v > hyperperiod

\* At most one entry matches a position, whatever the order of priorities,
\* which the comment at delta_adjustment.rs:64 leaves to the target.
PriorityIrrelevant ==
    \A v \in Position : \A e, f \in exceeded :
        ExceededHit(e, v) /\ ExceededHit(f, v) => e = f
=============================================================================
