--------------------------- MODULE FrequencyTuning ---------------------------
(***************************************************************************)
(* The other half of adjust_slave_clock (libs/ptp.rs): next to taking the  *)
(* measured offset off the clock, the servo tunes the frequency of the     *)
(* clock by a moving average of the offsets (OffsetHistory).  Module       *)
(* PtpServo lets the clock drift a bounded way between two samples: this   *)
(* module is why it does not drift far.                                    *)
(*                                                                         *)
(* Increments of the clock are counted from the one at which it runs as    *)
(* fast as that of the master.                                             *)
(***************************************************************************)
EXTENDS Integers, SequencesExt

CONSTANTS WarmUp,        \* 100: samples before outliers are skipped
          SyncLimit,     \* 100 ns: below, the clock counts as synchronized
          OutlierLimit,  \* 150 ns: above, a sample is an outlier
          Capacity,      \* 3: offsets in the history
          Adjustment,    \* Adjustment[n]: the step for averages above n ns
          FineStep,      \* 1: the step for all other averages
          Gains,         \* ns per sample that one increment may make
          FirstErrors,   \* possible errors of the default increment
          Noise,         \* possible errors of a measured offset
          MaxFailures    \* bound: calls to the switch that fail

ASSUME TuningAssumption ==
    /\ WarmUp \in Nat /\ SyncLimit \in Nat /\ OutlierLimit \in Nat
    /\ Capacity \in Nat \ {0} /\ MaxFailures \in Nat
    /\ Gains \subseteq Nat \ {0} /\ FirstErrors \subseteq Int /\ Noise \subseteq Int

VARIABLES gain,               \* what an increment makes in this network
          switch_increment,   \* the increment the clock runs with
          current_increment,  \* current_increment of the servo
          clock,              \* offset of the clock from that of the master
          measured,           \* the offset of the last sample
          offset_history,     \* offset_history
          sync_counter,       \* sync_counter, up to WarmUp
          failures            \* calls that have failed

vars == <<gain, switch_increment, current_increment, clock, measured,
          offset_history, sync_counter, failures>>

Abs(n) == IF n < 0 THEN -n ELSE n
Sign(n) == IF n < 0 THEN -1 ELSE IF n > 0 THEN 1 ELSE 0

\* The default increment is off by what the calibration left, and the clock
\* starts in the time of the master: the first offset is removed at once.
Init ==
    /\ gain \in Gains
    /\ switch_increment \in FirstErrors
    /\ current_increment = switch_increment
    /\ clock = 0 /\ measured = 0
    /\ offset_history = <<>>
    /\ sync_counter = 0
    /\ failures = 0

Push(h, offset) ==
    Append(IF Len(h) >= Capacity THEN Tail(h) ELSE h, offset)

\* Division truncates towards 0.
Average(h) ==
    LET sum == FoldLeft(+, 0, h) IN Sign(sum) * (Abs(sum) \div Len(h))

\* Mutant: the limits are tried from the smallest one.
MutStepFor(avg) ==
    LET exceeded == {n \in DOMAIN Adjustment : Abs(avg) > n}
    IN IF exceeded = {} THEN FineStep
       ELSE Adjustment[CHOOSE n \in exceeded : \A m \in exceeded : n <= m]

\* The step of the largest limit the average exceeds.
StepFor(avg) ==
    LET exceeded == {n \in DOMAIN Adjustment : Abs(avg) > n}
    IN IF exceeded = {} THEN FineStep
       ELSE Adjustment[CHOOSE n \in exceeded : \A m \in exceeded : m <= n]

CountSample == sync_counter' = IF sync_counter < WarmUp THEN sync_counter + 1 ELSE WarmUp

IsOutlier(offset) == sync_counter >= WarmUp /\ Abs(offset) > OutlierLimit

\* The clock has run for another interval of the samples.
Elapsed == clock + gain * switch_increment

\* An outlier, or a correction that failed, leaves everything as it is.
Uncorrected ==
    /\ clock' = Elapsed
    /\ UNCHANGED <<switch_increment, current_increment, offset_history>>

SkipOutlier(offset) ==
    /\ IsOutlier(offset)
    /\ Uncorrected
    /\ UNCHANGED failures

OffsetCallFails(offset) ==
    /\ ~IsOutlier(offset)
    /\ failures < MaxFailures
    /\ failures' = failures + 1
    /\ Uncorrected

\* The offset is taken off and the increment follows the average; the servo's
\* value moves even if the call that sets it fails.
AdjustClock(offset) ==
    /\ ~IsOutlier(offset)
    /\ clock' = Elapsed - offset
    /\ offset_history' = Push(offset_history, offset)
    /\ LET avg == Average(offset_history')
       IN current_increment' = current_increment - Sign(avg) * StepFor(avg)
    /\ \/ switch_increment' = current_increment' /\ UNCHANGED failures
       \/ /\ failures < MaxFailures
          /\ failures' = failures + 1
          /\ UNCHANGED switch_increment

Sample ==
    \E noise \in Noise :
      /\ measured' = Elapsed + noise
      /\ \/ SkipOutlier(measured')
         \/ OffsetCallFails(measured')
         \/ AdjustClock(measured')
      /\ CountSample
      /\ UNCHANGED gain

Next == Sample

Spec == Init /\ [][Next]_vars
-----------------------------------------------------------------------------
\* The first 100 samples are enough to tune the clock, by steps that follow an
\* average of past offsets: from then on every offset is below the limit of
\* synchronization, and so none is an outlier, which would be the end of all
\* corrections (ptp.rs:1355-1382).
LockedAfterWarmUp == sync_counter = WarmUp => Abs(measured) < SyncLimit
=============================================================================
