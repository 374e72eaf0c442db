---------------------------- MODULE MCGateTables ----------------------------
(***************************************************************************)
(* Time slices of 5-bit words and positions of 6 bits, two queues: every   *)
(* range as the only slice of an unguarded tGCL, and all tGCLs of one or   *)
(* two slices with end points from 0..4, gaps and overlaps included, and   *)
(* guard bands of width 0 to 2.                                            *)
(***************************************************************************)
EXTENDS TernaryEvaluation

MCPow2 == [j \in 0..W |-> 2^j]
MCBit == [j \in 0..N |-> 2^j]

MCQueues == {0, 1}

SmallSlices ==
    {[low |-> l, high |-> h, queue_states |-> s] :
        l \in 0..3, h \in 1..4, s \in {(0 :> 0 @@ 1 :> 1), (0 :> 1 @@ 1 :> 0), (0 :> 1)}}

Ordered(ss) ==
    /\ \A j \in DOMAIN ss : ss[j].low < ss[j].high
    /\ \A j \in 1..(Len(ss) - 1) : ss[j].low < ss[j+1].low

Guarded ==
    {[period |-> p, guard_band_width |-> w, time_slices |-> ss] :
        p \in {4, 5}, w \in 0..2,
        ss \in {t \in UNION {[1..n -> SmallSlices] : n \in 1..2} : Ordered(t)}}

Unguarded(p, l, h) ==
    [period |-> p, guard_band_width |-> 0,
     time_slices |-> <<[low |-> l, high |-> h, queue_states |-> (0 :> 0 @@ 1 :> 1)]>>]

Ranges ==
    {Unguarded(p, l, h) : p \in {21, 31}, l \in Word, h \in Word}
      \union {Unguarded(p, 0, p) : p \in Word}

MCInputs == Guarded \union Ranges

\* The hypothesis of the theorem about KeysDistinct.
ASSUME SlicesAreNotEmpty == NoEmptySlices
=============================================================================
