-------------------------------- MODULE Psfp --------------------------------
(***************************************************************************)
(* Per-stream filtering and policing: a frame is identified as part of a   *)
(* stream, meets the stream gate of the stream at the frame's position in  *)
(* the gate's hyperperiod, and then the flow meter of the stream.          *)
(*                                                                         *)
(* A frame passes through the ingress pipeline as a whole before the next, *)
(* so one action is the life of a frame.  What frames share are registers: *)
(* the time stamp of a gate's hyperperiod, and two bits that shut a gate   *)
(* or a meter for good.                                                    *)
(***************************************************************************)
EXTENDS DeltaAdjustment

CONSTANTS StreamGates,    \* psfp.stream_gates, by stream_gate_id; a record has
                          \* the keys that its entry in the file has
          Schedules,      \* psfp.stream_gate_schedules, by name
          FlowMeters,     \* psfp.flow_meters, by flow_meter_id
          StreamHandles,  \* psfp.streams with their handles: the gate and meter
          Frames,         \* the frames that may come: [stream, pcp, dei]
          MatchRange,     \* 2^32: entries of stream_gate_instance match 32 bits
          StartTimes,     \* clock values before and when generation is enabled
          EarlyBy,        \* a hyperperiod timer may fire this much early ...
          LateBy,         \* ... or late
          Skew            \* a hyperperiod packet's time stamp may be this much
                          \* later than that of a frame behind it

Gate == DOMAIN StreamGates
Stream == DOMAIN StreamHandles
Schedule(g) == Schedules[StreamGates[g].schedule]
Period(g) == Schedule(g).period

\* 0 is the id of the gate and the meter of a frame that has none.
GateId == Gate \union {0}
MeterId == DOMAIN FlowMeters \union {0}

ASSUME PsfpAssumption ==
    /\ MatchRange \in Nat \ {0}
    /\ \A g \in Gate : Period(g) \in Nat /\ Period(g) < MatchRange
    /\ \A f \in Frames : f.pcp \in 0..7 /\ f.dei \in {0, 1}
    /\ \A g \in Gate : \A t \in Schedule(g).intervals :
          t.state \in {0, 1} /\ t.ipv \in 0..8
    /\ StartTimes \subseteq Timestamp
    /\ EarlyBy \in Nat /\ LateBy \in Nat /\ Skew \in Nat

\* configure_stream_identification panics when a stream's gate does not exist;
\* a schedule that two gates share is written twice, for the first of them
\* (write_all_schedules), which the switch refuses.
ASSUME ConfigurationAssumption ==
    /\ \A s \in Stream : StreamHandles[s].stream_gate_instance \in Gate
    /\ \A g, h \in Gate : StreamGates[g].schedule = StreamGates[h].schedule => g = h

\* As in TasGates: within the horizon of the adjustment a register that is
\* still 0 looks like a hyperperiod that is over.
ASSUME HorizonAssumption ==
    /\ Skew <= SwitchUnderflow
    /\ \A g \in Gate :
          /\ Period(g) + LateBy < MaxUnderflow
          /\ \A t \in StartTimes :
                Period(g) <= t /\ t + Period(g) + LateBy < ClockMod - SwitchUnderflow

VARIABLES now,              \* ingress MAC time stamps are taken from this clock
          generating,       \* the packet generator has been enabled
          phase,            \* phase[g]: time since the hyperperiod time stamp of g
          hyperperiod_done, \* register, per gate: a hyperperiod packet has come
          hyperperiodTs,    \* registers lower_last_ts and higher_last_ts, per gate
          gateBlocked,      \* reg_gate_blocked
          meterBlocked,     \* reg_meter_blocked
          out,              \* what became of the frame that came last, if any
          conduct,          \* history: how a gate's frames kept to its schedule
          sawRed            \* history: meters that are to mark all frames red

registers == <<hyperperiod_done, hyperperiodTs, gateBlocked, meterBlocked>>
vars == <<now, generating, phase, registers, out, conduct, sawRed>>

\* The conduct of the frames of a gate so far, worst first: one was certainly,
\* one was possibly (where intervals share a position), none was out of schedule.
Bad == 2
Doubtful == 1
Good == 0
-----------------------------------------------------------------------------
\* An optional flag of a record of the configuration file (#[serde(default)]).
Flag(entry, key) == key \in DOMAIN entry /\ entry[key]

FlowMeter(m) == IF m \in DOMAIN FlowMeters THEN FlowMeters[m] ELSE <<>>

\* The action data of the stream's entry in stream_id.
StreamIdEntry(s) ==
    LET gate  == StreamHandles[s].stream_gate_instance
        meter == StreamHandles[s].flow_meter_instance
    IN [gate            |-> gate,
        meter           |-> IF meter \in DOMAIN FlowMeters THEN meter ELSE 0,
        invalid_rx      |-> Flag(StreamGates[gate], "gate_closed_due_to_invalid_rx_enable"),
        octets_exceeded |-> Flag(StreamGates[gate],
                                 "gate_closed_due_to_octets_exceeded_emable"),
        drop_on_yellow  |-> Flag(FlowMeter(meter), "drop_yellow"),
        mark_red        |-> Flag(FlowMeter(meter), "mark_red"),
        color_aware     |-> Flag(FlowMeter(meter), "color_aware")]

\* The metadata of a frame behind the table stream_id: all 0 after a miss.
Identify(s) ==
    IF s \in Stream THEN StreamIdEntry(s)
    ELSE [gate |-> 0, meter |-> 0, invalid_rx |-> FALSE, octets_exceeded |-> FALSE,
          drop_on_yellow |-> FALSE, mark_red |-> FALSE, color_aware |-> FALSE]

\* The position a frame is given; no duration is known of an unknown stream.
PositionGiven(s) ==
    LET ts == hyperperiodTs[Identify(s).gate]
    IN IF s \in Stream THEN DiffTs(now, ts, Period(Identify(s).gate))
       ELSE UnderflowDetection(CalcDiffTs(now, ts), now, ts)

\* The intervals of a schedule at a position: both ends belong to an interval.
IntervalsAt(g, d) == {t \in Schedule(g).intervals : t.low <= d /\ d <= t.high}

\* Those whose entries in stream_gate_instance match, of which the switch picks
\* any.  Values and masks have 32 bits: the upper bits of a position do not count.
Matching(g, d) == IF g \in Gate THEN IntervalsAt(g, d % MatchRange) ELSE {}
-----------------------------------------------------------------------------
\* Before the activation of the packet generator, with cleared registers.
Init ==
    /\ now \in StartTimes
    /\ generating = FALSE
    /\ phase = [g \in Gate |-> 0]
    /\ hyperperiod_done = [g \in GateId |-> FALSE]
    /\ hyperperiodTs = [g \in GateId |-> 0]
    /\ gateBlocked = [g \in GateId |-> FALSE]
    /\ meterBlocked = [m \in MeterId |-> FALSE]
    /\ out = {}
    /\ conduct = [g \in GateId |-> Good]
    /\ sawRed = {}

\* No timer is overdue, and generation is enabled while the clock can be at one
\* of StartTimes.
TimePasses ==
    /\ now' = (now + 1) % ClockMod
    /\ out' = {}
    /\ \/ /\ generating
          /\ \A g \in Gate : phase[g] + 1 <= Period(g) + LateBy
          /\ phase' = [g \in Gate |-> phase[g] + 1]
       \/ /\ ~generating
          /\ now' \in StartTimes
          /\ UNCHANGED phase
    /\ UNCHANGED <<generating, registers, conduct, sawRed>>

\* Module PktgenActivation says when.
EnablePktGen ==
    /\ ~generating
    /\ generating' = TRUE
    /\ UNCHANGED <<now, phase, registers, out, conduct, sawRed>>

\* The timer of gate g has fired; set_lower_last_ts and set_higher_last_ts store
\* the time stamp of the packet, which is dropped.
HyperperiodPacket(g) ==
    /\ generating
    /\ phase[g] >= Period(g) - EarlyBy
    /\ \E s \in 0..Skew :
         /\ hyperperiodTs' = [hyperperiodTs EXCEPT ![g] = (now + s) % ClockMod]
         /\ phase' = [phase EXCEPT ![g] = -s]
    /\ hyperperiod_done' = [hyperperiod_done EXCEPT ![g] = TRUE]
    /\ out' = {}
    /\ UNCHANGED <<now, generating, gateBlocked, meterBlocked, conduct, sawRed>>
-----------------------------------------------------------------------------
\* Mutant: color-aware mode is ignored.
MutPreColor(md, dei) == 0

\* pre_color: 0 green, 1 yellow.
PreColor(md, dei) == IF md.color_aware /\ dei = 1 THEN 1 ELSE 0

\* What the switch's meter may answer; 1 and 2 are yellow, 3 is red.  Dropped
\* frames and frames without a meter keep the initial color.
MeterColors(md, dei, drop) ==
    IF drop \/ md.meter \notin DOMAIN FlowMeters THEN {0} ELSE PreColor(md, dei)..3

\* Mutant: a yellow frame does not ask whether the meter is blocked.
MutYellowPasses(md) == ~md.drop_on_yellow

YellowPasses(md) == ~md.drop_on_yellow /\ ~meterBlocked[md.meter]

GreenPasses(md) == ~meterBlocked[md.meter]

\* drop_ctl is set unless the frame passes.
Outcome(f, d, qid, color, dei, passed) ==
    [frame |-> f, diff |-> d, qid |-> qid, color |-> color, dei |-> dei, passed |-> passed]

\* A yellow frame that passes leaves with the drop eligible indicator set.
Yellow(md, f, d, qid, color) ==
    /\ color \in {1, 2}
    /\ out' = {Outcome(f, d, qid, color, IF YellowPasses(md) THEN 1 ELSE f.dei,
                       YellowPasses(md))}
    /\ UNCHANGED <<meterBlocked, sawRed>>

Red(md, f, d, qid, color) ==
    /\ color = 3
    /\ out' = {Outcome(f, d, qid, color, f.dei, FALSE)}
    /\ meterBlocked' = [meterBlocked EXCEPT ![md.meter] = @ \/ md.mark_red]
    /\ sawRed' = IF md.mark_red THEN sawRed \union {md.meter} ELSE sawRed

Green(md, f, d, qid, color, drop) ==
    /\ color = 0
    /\ out' = IF ~drop /\ GreenPasses(md)
              THEN {Outcome(f, d, qid, color, 0, TRUE)}
              ELSE {Outcome(f, d, qid, color, f.dei, FALSE)}
    /\ UNCHANGED <<meterBlocked, sawRed>>

\* The control FlowMeter, with what the gate says of the frame.
FlowMeterApply(md, f, d, drop, qid) ==
    \E color \in MeterColors(md, f.dei, drop) :
        \/ Yellow(md, f, d, qid, color)
        \/ Red(md, f, d, qid, color)
        \/ Green(md, f, d, qid, color, drop)
-----------------------------------------------------------------------------
\* The position in the hyperperiod of gate g by the true time: the end of the
\* period until the first hyperperiod packet and whenever the next is late.
Position(g) ==
    IF ~hyperperiod_done[g] \/ phase[g] > Period(g) THEN Period(g)
    ELSE IF phase[g] < 0 THEN 0
    ELSE phase[g]

\* The states the schedule of a gate has now.
StatesNow(g) == {t.state : t \in IntervalsAt(g, Position(g))}

\* History: how a frame with metadata md keeps to the schedule.
ConductNow(md, exceeded) ==
    IF exceeded \/ (md.invalid_rx /\ 1 \notin StatesNow(md.gate)) THEN Bad
    ELSE IF md.invalid_rx /\ StatesNow(md.gate) # {1} THEN Doubtful
    ELSE Good

RecordConduct(md, exceeded) ==
    conduct' = [conduct EXCEPT ![md.gate] =
                   IF ConductNow(md, exceeded) > @ THEN ConductNow(md, exceeded) ELSE @]
-----------------------------------------------------------------------------
\* block_gate, under a condition.
BlockGateIf(g, condition) ==
    gateBlocked' = [gateBlocked EXCEPT ![g] = @ \/ condition]

\* Mutant: a frame that matches no interval leaves the gate alone.
MutMissedTimeSlice(md, f, d) ==
    /\ Matching(md.gate, d) = {}
    /\ UNCHANGED gateBlocked
    /\ FlowMeterApply(md, f, d, TRUE, 0)
    /\ RecordConduct(md, FALSE)

\* stream_gate_instance misses: missed_time_slice.
MissedTimeSlice(md, f, d) ==
    /\ Matching(md.gate, d) = {}
    /\ BlockGateIf(md.gate, md.invalid_rx)
    /\ FlowMeterApply(md, f, d, TRUE, 0)
    /\ RecordConduct(md, FALSE)

\* Mutant: a frame in a closed interval blocks its gate whatever the flag says.
MutOutOfSchedule(md, f, d, qid) ==
    /\ BlockGateIf(md.gate, TRUE)
    /\ FlowMeterApply(md, f, d, TRUE, qid)
    /\ RecordConduct(md, FALSE)

\* PSFPGateEnabled == 0.
OutOfSchedule(md, f, d, qid) ==
    /\ BlockGateIf(md.gate, md.invalid_rx)
    /\ FlowMeterApply(md, f, d, TRUE, qid)
    /\ RecordConduct(md, FALSE)

\* gate_closed_due_to_octets_exceeded.  The registers that count the octets of an
\* interval take period and length out of the header recirc, which no packet
\* carries: any frame may be one too many.
OctetsExceeded(md, f, d, qid) ==
    /\ md.octets_exceeded
    /\ BlockGateIf(md.gate, TRUE)
    /\ FlowMeterApply(md, f, d, TRUE, qid)
    /\ RecordConduct(md, TRUE)

\* PSFPGateEnabled == 1: get_gate_state.
InOpenInterval(md, f, d, qid) ==
    /\ FlowMeterApply(md, f, d,
          (md.invalid_rx \/ md.octets_exceeded) /\ gateBlocked[md.gate], qid)
    /\ RecordConduct(md, FALSE)
    /\ UNCHANGED gateBlocked

\* The control StreamGate behind a hit: set_gate_and_ipv, with interval t.
GateHit(md, f, d, t) ==
    LET qid == IF t.ipv = 8 THEN f.pcp ELSE t.ipv
    IN \/ OctetsExceeded(md, f, d, qid)
       \/ t.state = 0 /\ OutOfSchedule(md, f, d, qid)
       \/ t.state = 1 /\ InOpenInterval(md, f, d, qid)

\* A frame arrives, at most one until time passes or a timer fires.
FrameArrives(f) ==
    /\ out = {}
    /\ LET md == Identify(f.stream)
           d  == PositionGiven(f.stream)
       IN \/ MissedTimeSlice(md, f, d)
          \/ \E t \in Matching(md.gate, d) : GateHit(md, f, d, t)
    /\ UNCHANGED <<now, generating, phase, hyperperiod_done, hyperperiodTs>>

Next ==
    \/ TimePasses
    \/ EnablePktGen
    \/ \E g \in Gate : HyperperiodPacket(g)
    \/ \E f \in Frames : FrameArrives(f)

Spec == Init /\ [][Next]_vars
-----------------------------------------------------------------------------
Outcomes == [frame : Frames, diff : Timestamp, qid : 0..7, color : 0..3,
             dei : {0, 1}, passed : BOOLEAN]

TypeOK ==
    /\ now \in Timestamp
    /\ generating \in BOOLEAN
    /\ phase \in [Gate -> Int]
    /\ hyperperiod_done \in [GateId -> BOOLEAN]
    /\ hyperperiodTs \in [GateId -> Timestamp]
    /\ gateBlocked \in [GateId -> BOOLEAN]
    /\ meterBlocked \in [MeterId -> BOOLEAN]
    /\ out \subseteq Outcomes
    /\ conduct \in [GateId -> {Good, Doubtful, Bad}]
    /\ sawRed \subseteq MeterId

\* A frame of a known stream passes only while its gate has an open interval by
\* the true time, and goes to a queue of such an interval: across the wrap of the
\* clock, before the first hyperperiod packet, with early and late hyperperiods
\* (StreamGate.p4, DeltaAdjustment.p4).
PassesOnlyWhenOpen ==
    \A r \in out :
        r.passed /\ r.frame.stream \in Stream =>
            LET g == Identify(r.frame.stream).gate
            IN \E t \in IntervalsAt(g, Position(g)) :
                 t.state = 1 /\ r.qid = IF t.ipv = 8 THEN r.frame.pcp ELSE t.ipv

\* A gate that polices its frames and has seen one out of its schedule, or too
\* many octets, lets no further frame of its streams pass (StreamGate.p4:129-171).
ShutForGood ==
    \A r \in out :
        LET md == Identify(r.frame.stream)
        IN r.passed /\ (md.invalid_rx \/ md.octets_exceeded) => conduct[md.gate] # Bad

\* A meter that is to mark all frames red after a red one lets no frame pass
\* from then on, of whatever color and stream (FlowMeter.p4:65-101).
RedForGood ==
    \A r \in out : r.passed => Identify(r.frame.stream).meter \notin sawRed

\* A frame of a known stream that comes while its gate is open, in a stream that
\* has kept to the schedule and to its rates, passes: no frame of another gate
\* or meter does it any harm.
ConformingFramesPass ==
    \A r \in out :
        LET md == Identify(r.frame.stream)
        IN /\ r.frame.stream \in Stream
           /\ StatesNow(md.gate) = {1}
           /\ conduct[md.gate] = Good
           /\ md.meter \notin sawRed
           /\ r.color \in {0} \union IF md.drop_on_yellow THEN {} ELSE {1, 2}
           => r.passed

\* "packets labeled yellow from previous bridges will not be able to be labeled
\* back to green" in color-aware mode (headers.p4:221).
YellowStaysYellow ==
    \A r \in out :
        r.passed /\ r.frame.dei = 1 /\ Identify(r.frame.stream).color_aware => r.dei = 1
-----------------------------------------------------------------------------
\* The pipeline implements a policer that knows neither clocks nor tables: what
\* it makes of a frame follows from the schedule at the true time, from what gate
\* and meter have seen, and from the frame (StreamGate.p4:120-185, FlowMeter.p4:48-103).
VerdictOn(r) ==
    IF r.passed THEN [frame |-> r.frame, passed |-> TRUE, queue |-> r.qid, dei |-> r.dei]
    ELSE [frame |-> r.frame, passed |-> FALSE]

Policer == INSTANCE ScheduledPolicer
               WITH Policies  <- [s \in Stream |-> StreamIdEntry(s)],
                    GateLists <- [g \in Gate |-> Schedule(g)],
                    Meters    <- DOMAIN FlowMeters,
                    position  <- [g \in Gate |-> Position(g)],
                    shut      <- {g \in GateId : gateBlocked[g]},
                    red       <- {m \in MeterId : meterBlocked[m]},
                    verdict   <- {VerdictOn(r) : r \in out}

PolicesFrames == Policer!Spec
=============================================================================
