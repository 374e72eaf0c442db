-------------------------- MODULE GateControlLists --------------------------
(***************************************************************************)
(* Gate control lists (tGCLs) as the controller configures them, and what  *)
(* the table built from one answers to a control packet.                   *)
(*                                                                         *)
(* A tGCL is [period, guard_band_width, time_slices]; a time slice is      *)
(* [low, high, queue_states], and queue_states maps the queues it names to *)
(* 0 (open) or 1 (closed), as configuration.json does.                     *)
(***************************************************************************)
EXTENDS Integers, Sequences, SequencesExt

\* The guard band behind a time slice: the queues of the slice, all closed.
GuardSlice(ts, low, width) ==
    [low |-> low, high |-> low + width,
     queue_states |-> [q \in DOMAIN ts.queue_states |-> 1]]

\* Mutant: the guard band ends the slice early instead of being inserted.
MutAppendGuardedStolen(acc, ts, width) ==
    LET low  == acc.last_high
        high == low + (ts.high - ts.low) - width
    IN [last_high |-> high + width,
        time_slices |-> acc.time_slices
                          \o <<[ts EXCEPT !.low = low, !.high = high],
                               GuardSlice(ts, high, width)>>]

\* Mutant: the guard band keeps the queue states of the slice it was cloned
\* from.
MutAppendGuardedOpen(acc, ts, width) ==
    LET low  == acc.last_high
        high == low + (ts.high - ts.low)
    IN [last_high |-> high + width,
        time_slices |-> acc.time_slices
                          \o <<[ts EXCEPT !.low = low, !.high = high],
                               [ts EXCEPT !.low = high, !.high = high + width]>>]

\* One iteration of the loop in insert_tas_gsi: the slice moved behind
\* everything emitted so far, then its guard band.
AppendGuarded(acc, ts, width) ==
    LET low  == acc.last_high
        high == low + (ts.high - ts.low)
    IN [last_high |-> high + width,
        time_slices |-> acc.time_slices
                          \o <<[ts EXCEPT !.low = low, !.high = high],
                               GuardSlice(ts, high, width)>>]

\* insert_tas_gsi for one tGCL: unchanged without a guard band.
InsertTasGsi(gcl) ==
    IF gcl.guard_band_width = 0 THEN gcl
    ELSE [gcl EXCEPT
            !.period = @ + gcl.guard_band_width * Len(gcl.time_slices),
            !.time_slices =
                FoldLeft(LAMBDA acc, ts :
                             AppendGuarded(acc, ts, gcl.guard_band_width),
                         [last_high |-> 0, time_slices |-> <<>>],
                         gcl.time_slices).time_slices]
-----------------------------------------------------------------------------
\* The positions a time slice is written for: both ends belong to it.
Within(ts, d) == ts.low <= d /\ d <= ts.high

\* The queue states the entries that match position d carry for queue q.  None:
\* the packet misses the table.  Two: slices that share an endpoint disagree,
\* and the switch picks either entry, since none has a priority.
StatesAt(gcl, q, d) ==
    {gcl.time_slices[k].queue_states[q] :
        k \in {j \in DOMAIN gcl.time_slices :
                  /\ Within(gcl.time_slices[j], d)
                  /\ q \in DOMAIN gcl.time_slices[j].queue_states}}
-----------------------------------------------------------------------------
\* What the shaper (module TasGates) needs of a tGCL with its guard bands.  First, every
\* queue has a state at every position of the period.
Answered(gcl, queues) ==
    \A q \in queues : \A d \in 0..gcl.period :
        StatesAt(gcl, q, d) \in (SUBSET {0, 1}) \ {{}}

Opens(ts, q) == q \in DOMAIN ts.queue_states /\ ts.queue_states[q] = 0

OpenTogether(gcl, p, q) ==
    \E j \in DOMAIN gcl.time_slices :
        Opens(gcl.time_slices[j], p) /\ Opens(gcl.time_slices[j], q)

\* Second, a slice that opens queue q comes more than delay later after one that opens
\* queue p, also from the end of a period that is cut short to the beginning of the next.
OpensLater(gcl, p, q, delay, early) ==
    \A j, k \in DOMAIN gcl.time_slices :
        LET first  == gcl.time_slices[j]
            second == gcl.time_slices[k]
        IN Opens(first, p) /\ Opens(second, q) =>
             /\ second.high < first.low \/ second.low - first.high > delay
             /\ (gcl.period - early - first.high) + second.low > delay
=============================================================================
