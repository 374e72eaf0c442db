-------------------------- MODULE DeltaAdjustment ---------------------------
(***************************************************************************)
(* Where in the hyperperiod a packet is, computed by the ingress pipeline  *)
(* from two time stamps of ClockMod ns range (calc_diff_ts in TSN.p4, the  *)
(* control DeltaAdjustment in DeltaAdjustment.p4, with the entries of      *)
(* libs/delta_adjustment.rs).                                              *)
(***************************************************************************)
EXTENDS Integers

CONSTANTS ClockMod,         \* 2^48: time stamps count modulo this
          MaxUnderflow,     \* 2^33: MASK_MAX_UNDERFLOW keeps the bits from 33 up
          SwitchUnderflow   \* 2^7: MASK_INTERVAL_SWITCH_UNDERFLOW likewise

ASSUME ClockAssumption ==
    /\ ClockMod \in Nat \ {0}
    /\ MaxUnderflow \in Nat \ {0}
    /\ SwitchUnderflow \in Nat
    /\ MaxUnderflow + SwitchUnderflow < ClockMod

Timestamp == 0 .. (ClockMod - 1)

\* Mutant: the difference is not taken modulo the range of the clock.
MutCalcDiffTs(ts, hyperperiod_ts) == ts - hyperperiod_ts

CalcDiffTs(ts, hyperperiod_ts) == (ts - hyperperiod_ts) % ClockMod

\* calculate_underflow_timestamp: with MAXIMUM_48_BIT_TS = ClockMod - 1.
UnderflowTimestamp(ts, hyperperiod_ts) ==
    ((ClockMod - 1 - hyperperiod_ts) + ts) % ClockMod

\* Mutant: the second entry of the table is missing.
MutNoSwitchUnderflow(diff, ts, hyperperiod_ts) ==
    IF diff < MaxUnderflow THEN diff ELSE UnderflowTimestamp(ts, hyperperiod_ts)

\* underflow_detection: its two entries, and the miss.
UnderflowDetection(diff, ts, hyperperiod_ts) ==
    IF diff < MaxUnderflow THEN diff
    ELSE IF diff >= ClockMod - SwitchUnderflow THEN 0
    ELSE UnderflowTimestamp(ts, hyperperiod_ts)

\* Mutant: the comparison is off by one.
MutExceededOffByOne(diff, duration) == IF diff > duration + 1 THEN duration ELSE diff

\* hyperperiod_exceeded_detection: the comparison its entries stand for
\* (module HyperperiodExceeded), and reset_diff_ts2.
HyperperiodExceededDetection(diff, duration) ==
    IF diff > duration THEN duration ELSE diff

DiffTs(ts, hyperperiod_ts, duration) ==
    HyperperiodExceededDetection(
        UnderflowDetection(CalcDiffTs(ts, hyperperiod_ts), ts, hyperperiod_ts),
        duration)
=============================================================================
