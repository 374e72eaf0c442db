----------------------------- MODULE GuardBands -----------------------------
(***************************************************************************)
(* insert_tas_gsi (libs/configuration.rs) as the loop it is: behind every  *)
(* time slice of a tGCL a guard band is inserted, everything behind it is  *)
(* shifted, and the period grows by all the guard bands.                   *)
(***************************************************************************)
EXTENDS GateControlLists, FiniteSets

CONSTANTS Queues,   \* the queues of a port (0..7 in the code)
          Inputs    \* the tGCLs of the configuration file to be checked

TimeSlice ==
    [low : Nat, high : Nat, queue_states : UNION {[qs -> {0, 1}] : qs \in SUBSET Queues}]

\* The difference high - low of a guarded tGCL is one of unsigned integers.
ASSUME InputAssumption ==
    /\ IsFiniteSet(Queues)
    /\ \A g \in Inputs :
         /\ g \in [period : Nat, guard_band_width : Nat, time_slices : Seq(TimeSlice)]
         /\ g.guard_band_width # 0 =>
              \A j \in DOMAIN g.time_slices : g.time_slices[j].low <= g.time_slices[j].high

VARIABLES gcl,      \* the tGCL being expanded
          k,        \* the time slices up to k have been emitted
          new,      \* new_time_slices, and last_high
          guarded   \* the tGCL pushed to guarded_gcls, once the loop is over

guardVars == <<gcl, k, new, guarded>>

Pending == <<>>

GuardInit ==
    /\ gcl \in Inputs
    /\ k = 0
    /\ new = [last_high |-> 0, time_slices |-> <<>>]
    /\ guarded = Pending

\* No guard band: the tGCL is copied as it is.
CopyUnguarded ==
    /\ guarded = Pending
    /\ gcl.guard_band_width = 0
    /\ guarded' = <<gcl>>
    /\ UNCHANGED <<gcl, k, new>>

EmitSlice ==
    /\ guarded = Pending
    /\ gcl.guard_band_width # 0
    /\ k < Len(gcl.time_slices)
    /\ new' = AppendGuarded(new, gcl.time_slices[k+1], gcl.guard_band_width)
    /\ k' = k + 1
    /\ UNCHANGED <<gcl, guarded>>

\* Mutant: the period grows only by the guard bands between two slices.
MutPushExpandedShort ==
    /\ guarded = Pending
    /\ gcl.guard_band_width # 0
    /\ k = Len(gcl.time_slices)
    /\ guarded' =
         <<[gcl EXCEPT !.period = @ + gcl.guard_band_width * (k - 1),
                       !.time_slices = new.time_slices]>>
    /\ UNCHANGED <<gcl, k, new>>

PushExpanded ==
    /\ guarded = Pending
    /\ gcl.guard_band_width # 0
    /\ k = Len(gcl.time_slices)
    /\ guarded' =
         <<[gcl EXCEPT !.period = @ + gcl.guard_band_width * k,
                       !.time_slices = new.time_slices]>>
    /\ UNCHANGED <<gcl, k, new>>

GuardNext == CopyUnguarded \/ EmitSlice \/ PushExpanded

GuardSpec == GuardInit /\ [][GuardNext]_guardVars
-----------------------------------------------------------------------------
Width(ts) == ts.high - ts.low
LastOf(slices) == slices[Len(slices)]

\* The sums of the first j of some numbers.
Sums(numbers) ==
    LET sum[j \in {0} \union DOMAIN numbers] == IF j = 0 THEN 0 ELSE sum[j-1] + numbers[j]
    IN sum

\* Where the guard band behind each slice ends: last_high after as many iterations.
Ends(g) ==
    Sums([j \in DOMAIN g.time_slices |-> Width(g.time_slices[j]) + g.guard_band_width])

\* A tGCL whose slices follow each other from 0 to the end of the period.
Tiles(g) ==
    /\ g.time_slices # <<>>
    /\ g.time_slices[1].low = 0
    /\ \A j \in 1..(Len(g.time_slices) - 1) :
         g.time_slices[j+1].low = g.time_slices[j].high
    /\ LastOf(g.time_slices).high = g.period

\* How long queue q is open in one period, summed over the slices.
OpenTime(g, q) ==
    Sums([j \in DOMAIN g.time_slices |->
            IF Opens(g.time_slices[j], q) THEN Width(g.time_slices[j]) ELSE 0])
      [Len(g.time_slices)]

GuardTypeOK ==
    /\ gcl \in Inputs
    /\ k \in 0..Len(gcl.time_slices)
    /\ Len(new.time_slices) = 2 * k
    /\ \A j \in DOMAIN new.time_slices :
         LET ts == new.time_slices[j]
         IN ts.low \in Nat /\ ts.low <= ts.high /\ ts.high <= new.last_high
    /\ guarded = Pending \/ DOMAIN guarded = {1}

\* A schedule that covers its period still covers it after the insertion: a
\* position without a slice is a control packet that changes nothing.  A gap of
\* the input is closed by the shift, which then has to show at the end of the
\* period (insert_tas_gsi).
CoverageKept ==
    guarded # Pending /\ Tiles(gcl) => Tiles(guarded[1])

\* No queue gains or loses sending time by the insertion.
OpenTimeKept ==
    guarded # Pending =>
      \A q \in Queues : OpenTime(guarded[1], q) = OpenTime(gcl, q)

\* Whenever two different slices open a queue each, at least a guard band lies
\* between them, in either direction around the period: time in which the
\* control packets close what the first one opened.
SlicesSeparated ==
    guarded # Pending /\ gcl.guard_band_width # 0 /\ Tiles(gcl) =>
      LET g == guarded[1] IN
      \A a, b \in DOMAIN g.time_slices :
        LET sa == g.time_slices[a]
            sb == g.time_slices[b]
        IN (a # b /\ \E p, q \in Queues : Opens(sa, p) /\ Opens(sb, q)) =>
             IF a < b THEN sb.low - sa.high >= g.guard_band_width
             ELSE g.period - sa.high + sb.low >= g.guard_band_width
=============================================================================
