----------------------------- MODULE MCTasGates -----------------------------
(***************************************************************************)
(* Two ports with tGCLs of different periods, two queues each, that share  *)
(* the generator, the traffic manager and its recirculation port.  Control *)
(* packets are 1 ns apart, hyperperiod timers jitter by 1 ns either way,   *)
(* and the 6-bit clock wraps.                                              *)
(*                                                                         *)
(* In the long tGCL the queue that is served second sends its control      *)
(* packets first.  The guard bands have the least width that suffices,     *)
(* just longer than the time from a control packet of a queue to that of   *)
(* the queue before it in the next round; with 3, GatesExclusive fails.    *)
(* The clock is started where the registers, which are still 0, look       *)
(* overdue.                                                                *)
(***************************************************************************)
EXTENDS TasGates

\* states[q+1] is the state of queue q.
Slice(low, high, states) ==
    [low |-> low, high |-> high, queue_states |-> [q \in Queue |-> states[q+1]]]

\* The tGCLs of the configuration file, and what insert_tas_gsi makes of them.
ConfiguredShort ==
    [period |-> 10, guard_band_width |-> 4,
     time_slices |-> <<Slice(0, 10, <<0, 1>>)>>]
ConfiguredLong ==
    [period |-> 14, guard_band_width |-> 4,
     time_slices |-> <<Slice(0, 7, <<1, 0>>), Slice(7, 14, <<0, 1>>)>>]

MCGcl ==
    0 :> [period |-> 14, guard_band_width |-> 4,
          time_slices |-> <<Slice(0, 10, <<0, 1>>), Slice(10, 14, <<1, 1>>)>>]
 @@ 1 :> [period |-> 22, guard_band_width |-> 4,
          time_slices |-> <<Slice(0, 7, <<1, 0>>), Slice(7, 11, <<1, 1>>),
                            Slice(11, 18, <<0, 1>>), Slice(18, 22, <<1, 1>>)>>]

ASSUME GuardBandsInserted ==
    MCGcl = 0 :> InsertTasGsi(ConfiguredShort) @@ 1 :> InsertTasGsi(ConfiguredLong)

ASSUME GuardBandsSuffice == GuardBandsWide

MCStartTimes == {30}
=============================================================================
