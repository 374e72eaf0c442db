------------------------------- MODULE MCPsfp -------------------------------
(***************************************************************************)
(* Two gates with periods of different length, of which the second closes  *)
(* for good after a frame out of schedule and the first (whose id 0 is     *)
(* also that of frames of unknown streams) after too many octets, and two  *)
(* meters, one that marks all frames red and one that drops yellow ones.   *)
(* Intervals share endpoints as in configuration.json, both schedules have *)
(* a gap, and the 5-bit clock wraps.                                       *)
(*                                                                         *)
(* The octets flag of gate 1 has the name it has in configuration.json,    *)
(* that of gate 0 the name that libs/types.rs reads.                       *)
(***************************************************************************)
EXTENDS Psfp, TLC

Interval(low, high, state, ipv) ==
    [low |-> low, high |-> high, state |-> state, ipv |-> ipv, octets |-> 2]

MCSchedules ==
    "OPENCLOSED" :> [period |-> 6,
                     intervals |-> {Interval(0, 3, 1, 8), Interval(3, 4, 0, 0)}]
    @@ "GAP" :> [period |-> 5, intervals |-> {Interval(0, 1, 0, 0), Interval(3, 5, 1, 2)}]

MCStreamGates ==
    0 :> [schedule |-> "GAP", gate_closed_due_to_octets_exceeded_emable |-> TRUE]
    @@ 1 :> [schedule |-> "OPENCLOSED", gate_closed_due_to_invalid_rx_enable |-> TRUE,
             gate_closed_due_to_octets_exceeded_enable |-> TRUE]

MCFlowMeters ==
    1 :> [mark_red |-> TRUE, color_aware |-> TRUE] @@ 2 :> [drop_yellow |-> TRUE]

Handle(gate, meter) == [stream_gate_instance |-> gate, flow_meter_instance |-> meter]

MCStreamHandles == "a" :> Handle(1, 1) @@ "b" :> Handle(0, 1) @@ "c" :> Handle(1, 2)

Frame(stream, dei) == [stream |-> stream, pcp |-> 7, dei |-> dei]

MCFrames == {Frame("a", 0), Frame("a", 1), Frame("b", 1), Frame("c", 0), Frame("unknown", 0)}

MCStartTimes == 6..9
=============================================================================
