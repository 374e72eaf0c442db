-------------------------- MODULE MCTasMeasurement --------------------------
(***************************************************************************)
(* One port with two queues and the measurement.                           *)
(***************************************************************************)
EXTENDS TasMeasurement

Slice(low, high, states) ==
    [low |-> low, high |-> high, queue_states |-> [q \in Queue |-> states[q+1]]]

MCGcl ==
    0 :> [period |-> 22, guard_band_width |-> 3,
          time_slices |-> <<Slice(0, 8, <<1, 0>>), Slice(8, 11, <<1, 1>>),
                            Slice(11, 19, <<0, 1>>), Slice(19, 22, <<1, 1>>)>>]

MCStartTimes == {30}
=============================================================================
