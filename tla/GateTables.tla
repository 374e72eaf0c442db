----------------------------- MODULE GateTables -----------------------------
(***************************************************************************)
(* From a tGCL of the configuration file to the two tables that answer to  *)
(* its control packets: guard bands are inserted (module GuardBands), each *)
(* time slice becomes ternary entries of gate_control_list                 *)
(* (RangeToTernary), and the period becomes the entries of                 *)
(* hyperperiod_exceeded_detection (HyperperiodExceeded).                   *)
(*                                                                         *)
(* A position has 48 bits in the ingress pipeline and 64 in the header it  *)
(* travels in, while time slices and masks have 32.                        *)
(***************************************************************************)
EXTENDS GuardBands, RangeToTernary, HyperperiodExceeded

\* Positions are wider than the u32 of a tGCL, which no tGCL outgrows.
ASSUME WidthAssumption ==
    /\ W <= N
    /\ \A g \in Inputs :
         /\ g.period + g.guard_band_width * Len(g.time_slices) \in Word
         /\ \A j \in DOMAIN g.time_slices :
              g.time_slices[j].low \in Word /\ g.time_slices[j].high \in Word
         /\ g.guard_band_width # 0 =>
              \A j \in DOMAIN g.time_slices : Ends(g)[j] \in Word

VARIABLES loaded,   \* the loop was entered for this many slices
          table     \* gate_control_list: entries, with slice, queue and state

tableVars == <<guardVars, rangeVars, exceededVars, loaded, table>>

Slices == guarded[1].time_slices
Row == [entry : Entry, slice : Nat, queue : Queues, state : {0, 1}]

Init ==
    /\ GuardInit
    /\ start = 1 /\ end = 0 /\ cur = 1 /\ entries = {} /\ pc = "done"
    /\ hyperperiod = 0 /\ i = N /\ exceeded = {}
    /\ loaded = 0
    /\ table = {}

\* insert_tas_gsi, when the configuration has been read.
InsertGuardBands == GuardNext /\ UNCHANGED <<rangeVars, exceededVars, loaded, table>>

\* configure_tas_queue_id takes the next slice; the loop gives the same entries
\* for each of its queues, so it runs once.
NextSlice ==
    /\ guarded # Pending
    /\ pc = "done"
    /\ loaded < Len(Slices)
    /\ loaded' = loaded + 1
    /\ start' = Slices[loaded'].low
    /\ cur' = start'
    /\ end' = Slices[loaded'].high
    /\ entries' = {}
    /\ pc' = "loop"
    /\ UNCHANGED <<guardVars, exceededVars, table>>

\* The entries of slice j, for every queue it names.
Rows(es, j) ==
    LET states == Slices[j].queue_states
    IN {[entry |-> e, slice |-> j, queue |-> q, state |-> states[q]] :
            e \in es, q \in DOMAIN states}

\* The loop; when it is over its entries join those of the table.
ConvertSlice ==
    /\ RangeNext
    /\ table' = IF pc' = "done" THEN table \union Rows(entries', loaded) ELSE table
    /\ UNCHANGED <<guardVars, exceededVars, loaded>>

\* Mutant: the period is read before the guard bands are inserted.
MutPeriodOfFile == gcl.period

\* configure_app_ids: the period with its guard bands.
PeriodOfPort == guarded[1].period

\* Once the table of gates is complete, the one of the period is built.
ConvertPeriod ==
    /\ guarded # Pending
    /\ pc = "done"
    /\ loaded = Len(Slices)
    /\ IF hyperperiod # PeriodOfPort
       THEN hyperperiod' = PeriodOfPort /\ UNCHANGED <<i, exceeded>>
       ELSE NextBit
    /\ UNCHANGED <<guardVars, rangeVars, loaded, table>>

Next == InsertGuardBands \/ NextSlice \/ ConvertSlice \/ ConvertPeriod

Spec == Init /\ [][Next]_tableVars /\ WF_tableVars(Next)
-----------------------------------------------------------------------------
TypeOK ==
    /\ GuardTypeOK
    /\ RangeTypeOK
    /\ ExceededTypeOK
    /\ loaded \in Nat
    /\ table \in SUBSET Row

Finished == guarded # Pending /\ loaded = Len(Slices) /\ pc = "done" /\ i = 0

\* The conversion ends for every tGCL, by a panic at the worst.
TablesFinish == <>(Finished \/ pc = "panic")

\* No two slices of a tGCL that covers its period produce the same entry for a
\* queue, although neighbours share an end point: writing an entry that exists
\* is an error (main.rs:53-54).  This rests on the size of the last block of a
\* slice and of the first block of the next, never both 1.
KeysDistinct ==
    guarded # Pending /\ Tiles(gcl) =>
      \A r, s \in table : r.entry = s.entry /\ r.queue = s.queue => r = s

\* What KeysDistinct takes of the configuration file, which the code does not check: an
\* empty slice at an odd value would have the key of the slice behind it.
NoEmptySlices ==
    \A g \in Inputs :
      Tiles(g) /\ (Len(g.time_slices) > 1 \/ g.guard_band_width # 0) =>
        \A j \in DOMAIN g.time_slices : g.time_slices[j].low < g.time_slices[j].high

\* What the pipeline makes of a position: the end of the period if an entry of
\* hyperperiod_exceeded_detection matches, then the entries of the table that
\* match its lower bits, all that a 32-bit mask can compare.
Answer(q, d) ==
    LET position == IF \E e \in exceeded : ExceededHit(e, d) THEN hyperperiod ELSE d
    IN {r.state : r \in {r \in table : r.queue = q /\ Hit(r.entry, position % Pow2[W])}}

\* For every difference of time stamps the two tables together answer what
\* the tGCL with its guard bands has at that position, and at positions behind
\* the period what it has at its end.  In particular no difference beyond 32
\* bits, which the gate table cannot tell from a small one, gets that far.
TablesAnswer ==
    Finished =>
      \A q \in Queues, d \in Position :
        Answer(q, d) =
          StatesAt(guarded[1], q,
                   IF d > guarded[1].period THEN guarded[1].period ELSE d)
=============================================================================
