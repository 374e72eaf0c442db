------------------------------ MODULE PtpServo ------------------------------
(***************************************************************************)
(* The servo of the PTP monitor: what process_servo_sample and             *)
(* adjust_slave_clock (libs/ptp.rs) do with a sample, and the status they  *)
(* publish for the task that activates the packet generator.               *)
(*                                                                         *)
(* A sample is modelled by the offset of the switch's clock from that of   *)
(* the master which follows from its four times, and by the master's time  *)
(* at which its Sync came.  The servo also tunes the frequency of the      *)
(* clock: here the clock may drift either way at any time.                 *)
(***************************************************************************)
EXTENDS Integers

CONSTANTS WarmUp,        \* 100: samples before outliers are skipped
          SyncLimit,     \* 100 ns: below, the clock counts as synchronized
          OutlierLimit,  \* 150 ns: above, a sample is an outlier
          BaseLimit,     \* 1 s: above, the clocks have different epochs
          Epochs,        \* possible offsets between the epochs
          Noise,         \* possible errors of a measured offset
          MaxDrift,      \* bound: the clock drifts this far at most
          MaxLag,        \* a sample is complete this long after its Sync
          MaxTime,       \* bound: the master's time stands still from here
          None

ASSUME ServoAssumption ==
    /\ WarmUp \in Nat /\ SyncLimit \in Nat
    /\ OutlierLimit \in Nat /\ BaseLimit \in Nat
    /\ MaxDrift \in Nat /\ MaxLag \in Nat /\ MaxTime \in Nat
    /\ Epochs \subseteq Int /\ Noise \subseteq Int

VARIABLES ptpTime,      \* the time of the master
          ticked,       \* time has passed since the last sample
          epoch,        \* offset between the epochs of the two clocks
          drift,        \* offset of the clock apart from that
          base,         \* base_epoch_offset
          sync_counter, \* sync_counter, up to WarmUp
          status,       \* the value in the watch channel
          fresh,        \* the value has not been seen by the receiver
          outcome       \* what became of the last sample

servoVars == <<ptpTime, ticked, epoch, drift, base, sync_counter, status, fresh,
               outcome>>

Abs(n) == IF n < 0 THEN -n ELSE n

AtLeast0(n) == IF n < 0 THEN 0 ELSE n

\* The largest error of a measured offset.
MaxNoise == CHOOSE n \in {Abs(m) : m \in Noise} : \A m \in Noise : Abs(m) <= n

ASSUME NoiseAssumption ==
    \E n \in {Abs(m) : m \in Noise} : \A m \in Noise : Abs(m) <= n

Initializing == [state |-> "Initializing"]

\* monitor_ptp_l2 has reset the clock's offset and sent the first status.
ServoInit ==
    /\ ptpTime = 0 /\ ticked = FALSE
    /\ epoch \in Epochs
    /\ drift \in -1..1
    /\ base = None
    /\ sync_counter = 0
    /\ status = Initializing
    /\ fresh = TRUE
    /\ outcome = "none"

\* The master's time passes.
Tick ==
    /\ ptpTime < MaxTime \/ ~ticked
    /\ ptpTime' = IF ptpTime < MaxTime THEN ptpTime + 1 ELSE MaxTime
    /\ ticked' = TRUE
    /\ UNCHANGED <<epoch, drift, base, sync_counter, status, fresh, outcome>>

\* The clock runs faster or slower than that of the master.
Drift ==
    /\ drift' \in {drift - 1, drift + 1}
    /\ Abs(drift') <= MaxDrift \/ Abs(drift') < Abs(drift)
    /\ UNCHANGED <<ptpTime, ticked, epoch, base, sync_counter, status, fresh, outcome>>

CountSample == sync_counter' = IF sync_counter < WarmUp THEN sync_counter + 1 ELSE WarmUp

\* sync_status_tx.send.
Publish(s) == status' = s /\ fresh' = TRUE

\* A huge offset, when there is no base offset yet, becomes the base offset.
StoreBase(raw_offset) ==
    /\ base = None /\ Abs(raw_offset) > BaseLimit
    /\ base' = raw_offset
    /\ outcome' = "base"
    /\ UNCHANGED <<drift, sync_counter, status, fresh>>

Offset(raw_offset) == IF base = None THEN raw_offset ELSE raw_offset - base

IsOutlier(offset) == sync_counter >= WarmUp /\ Abs(offset) > OutlierLimit

SkipOutlier ==
    /\ outcome' = "outlier"
    /\ CountSample
    /\ UNCHANGED <<drift, base, status, fresh>>

\* Mutant: the correction has the wrong sign.
MutCorrected(offset) == drift + offset

\* The clock when ts_global_ts_offset_value_set has taken the offset off.
Corrected(offset) == drift - offset

StatusOf(offset, t) ==
    [state |-> IF Abs(offset) < SyncLimit THEN "Synchronized" ELSE "Syncing",
     ptp_time |-> t]

\* adjust_slave_clock; nothing but the counter changes if the call fails.
AdjustSlaveClock(offset, t) ==
    /\ CountSample
    /\ \/ /\ drift' = Corrected(offset)
          /\ Publish(StatusOf(offset, t))
          /\ outcome' = "adjusted"
       \/ /\ outcome' = "failed"
          /\ UNCHANGED <<drift, status, fresh>>
    /\ UNCHANGED base

\* process_servo_sample for a sample whose Sync came `lag' ns ago: T2 - raw_offset
\* is what the master's time was then.
ProcessServoSample ==
    /\ ticked
    /\ ticked' = FALSE
    /\ \E noise \in Noise, lag \in 0..MaxLag :
         LET raw_offset == epoch + drift + noise
             offset == Offset(raw_offset)
             ptp_time == (ptpTime - lag) + (epoch + drift) - raw_offset
         IN /\ lag <= ptpTime
            /\ \/ StoreBase(raw_offset)
               \/ /\ base # None \/ Abs(raw_offset) <= BaseLimit
                  /\ \/ IsOutlier(offset) /\ SkipOutlier
                     \/ ~IsOutlier(offset) /\ AdjustSlaveClock(offset, AtLeast0(ptp_time))
    /\ UNCHANGED <<ptpTime, epoch>>
=============================================================================
