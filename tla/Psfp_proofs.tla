----------------------------- MODULE Psfp_proofs -----------------------------
(***************************************************************************)
(* A stream gate lets frames pass in its open intervals only and shuts for *)
(* good, a meter marks all frames red for good, and neither does any harm  *)
(* to other streams: for any number of gates, meters and streams.          *)
(***************************************************************************)
EXTENDS Psfp, DeltaAdjustment_proofs

\* The clock is the register of a gate plus the time since its hyperperiod began.
PhaseInv(g) ==
    /\ phase[g] \in Int /\ -Skew <= phase[g] /\ phase[g] <= Period(g) + LateBy
    /\ hyperperiod_done[g] => now = (hyperperiodTs[g] + phase[g]) % ClockMod
    /\ ~hyperperiod_done[g] => /\ hyperperiodTs[g] = 0 /\ 0 <= phase[g]
                               /\ \E t \in StartTimes : now = t + phase[g]
    /\ ~generating => ~hyperperiod_done[g] /\ phase[g] = 0

\* The bits that shut a gate and a meter say what has been seen.
Bits ==
    /\ \A g \in GateId : /\ conduct[g] = Bad => gateBlocked[g]
                         /\ gateBlocked[g] => conduct[g] # Good
    /\ \A m \in MeterId : m \in sawRed <=> meterBlocked[m]

IInv == TypeOK /\ Bits /\ \A g \in Gate : PhaseInv(g)
-----------------------------------------------------------------------------
LEMMA ConstantFacts ==
    /\ \A g \in Gate : /\ Period(g) \in Nat /\ Period(g) + LateBy < MaxUnderflow
                       /\ \A t \in StartTimes :
                            /\ t \in Nat /\ Period(g) <= t
                            /\ t + Period(g) + LateBy < ClockMod - SwitchUnderflow
    /\ LateBy \in Nat /\ Skew \in Nat /\ ClockMod \in Nat \ {0}
    /\ MaxUnderflow \in Nat /\ SwitchUnderflow \in Nat /\ Skew <= SwitchUnderflow
    /\ MaxUnderflow < ClockMod
    /\ Timestamp = 0 .. (ClockMod - 1) /\ StartTimes \subseteq Timestamp
BY PsfpAssumption, HorizonAssumption, ClockAssumption DEF Timestamp

\* What the pipeline knows of a frame behind the table stream_id.
LEMMA MetadataFacts ==
    ASSUME NEW s, NEW md, md = Identify(s)
    PROVE  /\ md.gate \in GateId /\ md.meter \in MeterId
           /\ md.invalid_rx \in BOOLEAN /\ md.octets_exceeded \in BOOLEAN
           /\ md.drop_on_yellow \in BOOLEAN /\ md.mark_red \in BOOLEAN
           /\ md.color_aware \in BOOLEAN
           /\ md.color_aware => md.meter \in DOMAIN FlowMeters
           /\ s \in Stream => md.gate \in Gate
           /\ s \notin Stream => /\ md.gate = 0 /\ ~md.mark_red
                                 /\ ~md.invalid_rx /\ ~md.octets_exceeded
<1>1. ASSUME NEW e, NEW k PROVE Flag(e, k) \in BOOLEAN
  BY DEF Flag
<1>2. CASE s \in Stream
  <2>1. md = StreamIdEntry(s)
    BY <1>2 DEF Identify
  <2>2. StreamHandles[s].stream_gate_instance \in Gate
    BY <1>2, ConfigurationAssumption
  <2>3. /\ md.gate = StreamHandles[s].stream_gate_instance
        /\ md.meter \in MeterId
        /\ md.invalid_rx \in BOOLEAN /\ md.octets_exceeded \in BOOLEAN
        /\ md.drop_on_yellow \in BOOLEAN /\ md.mark_red \in BOOLEAN
        /\ md.color_aware \in BOOLEAN
    BY <1>1, <2>1 DEF StreamIdEntry, MeterId
  <2>4. ASSUME md.color_aware PROVE md.meter \in DOMAIN FlowMeters
    <3>1. PICK m : m = StreamHandles[s].flow_meter_instance
      OBVIOUS
    <3>2. Flag(FlowMeter(m), "color_aware")
      BY <2>1, <2>4, <3>1 DEF StreamIdEntry
    <3>3. "color_aware" \in DOMAIN FlowMeter(m)
      BY <3>2 DEF Flag
    <3>4. DOMAIN << >> = {}
      OBVIOUS
    <3>5. m \in DOMAIN FlowMeters
      BY <3>3, <3>4 DEF FlowMeter
    <3> QED BY <2>1, <3>1, <3>5 DEF StreamIdEntry
  <2> QED BY <1>2, <2>2, <2>3, <2>4 DEF GateId
<1>3. CASE s \notin Stream
  BY <1>3 DEF Identify, GateId, MeterId
<1> QED BY <1>2, <1>3
-----------------------------------------------------------------------------
\* An adjusted difference is a time stamp.
LEMMA DetectionIsTimestamp ==
    ASSUME NEW ts \in Timestamp, NEW h \in Timestamp
    PROVE  UnderflowDetection(CalcDiffTs(ts, h), ts, h) \in Timestamp
<1>1. PICK a \in Int : a = ts - h
  BY ConstantFacts
<1>2. CalcDiffTs(ts, h) \in Timestamp
  BY <1>1, ClockIsTimestamp DEF CalcDiffTs
<1>3. PICK e \in Int : e = (ClockMod - 1 - h) + ts
  BY ConstantFacts
<1>4. UnderflowTimestamp(ts, h) \in Timestamp
  BY <1>3, ClockIsTimestamp DEF UnderflowTimestamp
<1>5. 0 \in Timestamp
  BY ConstantFacts
<1> QED BY <1>2, <1>4, <1>5 DEF UnderflowDetection

\* The clamp to a period keeps it one.
LEMMA DiffIsTimestamp ==
    ASSUME NEW ts \in Timestamp, NEW h \in Timestamp, NEW g \in Gate
    PROVE  DiffTs(ts, h, Period(g)) \in Timestamp
<1>1. PICK p \in Timestamp : p = Period(g)
  BY ConstantFacts
<1>2. UnderflowDetection(CalcDiffTs(ts, h), ts, h) \in Timestamp
  BY DetectionIsTimestamp
<1> QED BY <1>1, <1>2 DEF DiffTs, HyperperiodExceededDetection

\* The clock and the register of a gate within the horizon of the adjustment.
LEMMA WithinHorizon ==
    ASSUME IInv, NEW g \in Gate
    PROVE  /\ hyperperiodTs[g] \in Int
           /\ phase[g] \in Int /\ -SwitchUnderflow <= phase[g] /\ phase[g] < MaxUnderflow
           /\ ~hyperperiod_done[g] => /\ hyperperiodTs[g] = 0
                                      /\ now \in Nat /\ Period(g) <= now
                                      /\ now < ClockMod - SwitchUnderflow
<1>1. PhaseInv(g)
  BY DEF IInv
<1>2. hyperperiodTs[g] \in Timestamp
  BY DEF IInv, TypeOK, GateId
<1>3. PICK p \in Nat : p = Period(g) /\ p + LateBy < MaxUnderflow
  BY ConstantFacts
<1>4. PICK e \in Int : e = phase[g] /\ -Skew <= e /\ e <= p + LateBy
  BY <1>1, <1>3 DEF PhaseInv
<1>5. ASSUME ~hyperperiod_done[g]
      PROVE  now \in Nat /\ p <= now /\ now < ClockMod - SwitchUnderflow
  <2>1. 0 <= e
    BY <1>1, <1>4, <1>5 DEF PhaseInv
  <2>2. PICK t \in StartTimes : now = t + e
    BY <1>1, <1>4, <1>5 DEF PhaseInv
  <2>3. t \in Nat /\ p <= t /\ t + p + LateBy < ClockMod - SwitchUnderflow
    BY <1>3, ConstantFacts
  <2>4. LateBy \in Nat /\ ClockMod - SwitchUnderflow \in Int
    BY ConstantFacts
  <2>5. t + e < ClockMod - SwitchUnderflow
    BY <1>4, <2>3, <2>4
  <2> QED BY <2>1, <2>2, <2>3, <2>5
<1> QED BY <1>1, <1>2, <1>3, <1>4, <1>5, ConstantFacts DEF PhaseInv

\* A frame of a known stream is given the true position in its gate's period.
LEMMA PositionOfKnown ==
    ASSUME IInv, NEW s \in Stream, NEW g, g = Identify(s).gate
    PROVE  PositionGiven(s) = Position(g)
<1>1. g \in Gate
  BY MetadataFacts
<1>2. PICK h \in Int : h = hyperperiodTs[g]
  BY <1>1, WithinHorizon
<1>3. PICK p \in Nat : p = Period(g) /\ p < MaxUnderflow
  BY <1>1, ConstantFacts
<1>4. PICK e \in Int : e = phase[g] /\ -SwitchUnderflow <= e /\ e < MaxUnderflow
  BY <1>1, WithinHorizon
<1>5. PositionGiven(s) = DiffTs(now, h, p)
  BY <1>2, <1>3 DEF PositionGiven
<1>6. CASE hyperperiod_done[g]
  <2>1. now = (h + e) % ClockMod
    BY <1>1, <1>2, <1>4, <1>6 DEF IInv, PhaseInv
  <2>2. DiffTs(now, h, p) = Clamped(e, p)
    BY <1>4, <2>1, DiffOfTime
  <2>3. Position(g) = Clamped(e, p)
    BY <1>3, <1>4, <1>6 DEF Position, Clamped
  <2> QED BY <1>5, <2>2, <2>3
<1>7. CASE ~hyperperiod_done[g]
  <2>1. h = 0 /\ now \in Nat /\ p <= now /\ now < ClockMod - SwitchUnderflow
    BY <1>1, <1>2, <1>3, <1>7, WithinHorizon
  <2>2. DiffTs(now, 0, p) = p
    BY <1>3, <2>1, DiffBeforeStart
  <2> QED BY <1>3, <1>5, <1>7, <2>1, <2>2 DEF Position
<1> QED BY <1>6, <1>7

\* So it meets the entries of the intervals of that position.
LEMMA MatchOfKnown ==
    ASSUME IInv, NEW s \in Stream, NEW g, g = Identify(s).gate
    PROVE  Matching(g, PositionGiven(s)) = IntervalsAt(g, Position(g))
<1>1. g \in Gate
  BY MetadataFacts
<1>2. PICK k \in Nat \ {0}, p \in Nat : k = MatchRange /\ p = Period(g) /\ p < k
  BY <1>1, PsfpAssumption
<1>3. PICK d \in 0 .. (k - 1) : d = Position(g)
  <2>1. phase[g] \in Int
    BY <1>1, WithinHorizon
  <2> QED BY <1>2, <2>1 DEF Position
<1>4. (d % k) = d
  BY ModSmall
<1>5. PositionGiven(s) = d
  BY <1>3, PositionOfKnown
<1> QED BY <1>1, <1>2, <1>3, <1>4, <1>5 DEF Matching
-----------------------------------------------------------------------------
\* Why the control StreamGate drops a frame.
DropsFor(md, f, drop, blocks) ==
    /\ blocks => md.invalid_rx \/ md.octets_exceeded
    /\ drop /\ f.stream \in Stream =>
         \/ StatesNow(md.gate) # {1} /\ (blocks <=> md.invalid_rx)
         \/ md.octets_exceeded /\ blocks
         \/ (md.invalid_rx \/ md.octets_exceeded) /\ gateBlocked[md.gate] /\ ~blocks

\* What the control StreamGate does with a frame: whether it is to be dropped,
\* and whether the gate is shut for good.
GateVerdict(md, f, drop, qid, exceeded, blocks) ==
    /\ RecordConduct(md, exceeded)
    /\ gateBlocked' = [gateBlocked EXCEPT ![md.gate] = @ \/ blocks]
    /\ blocks => drop /\ ConductNow(md, exceeded) # Good
    /\ ConductNow(md, exceeded) = Bad => blocks
    /\ ~drop => /\ (md.invalid_rx \/ md.octets_exceeded) => ~gateBlocked[md.gate]
                /\ f.stream \in Stream =>
                     \E t \in IntervalsAt(md.gate, Position(md.gate)) :
                       t.state = 1 /\ qid = IF t.ipv = 8 THEN f.pcp ELSE t.ipv
    /\ drop => \/ ConductNow(md, exceeded) # Good
               \/ gateBlocked[md.gate]
               \/ StatesNow(md.gate) # {1}
               \/ f.stream \notin Stream
    /\ DropsFor(md, f, drop, blocks)

LEMMA GateCases ==
    ASSUME IInv, NEW f \in Frames, FrameArrives(f),
           NEW md, md = Identify(f.stream), NEW d, d = PositionGiven(f.stream)
    PROVE  \E drop \in BOOLEAN, qid \in 0..7, exceeded \in BOOLEAN, blocks \in BOOLEAN :
             /\ FlowMeterApply(md, f, d, drop, qid)
             /\ GateVerdict(md, f, drop, qid, exceeded, blocks)
<1>1. /\ md.gate \in GateId /\ md.invalid_rx \in BOOLEAN /\ md.octets_exceeded \in BOOLEAN
      /\ f.stream \in Stream => md.gate \in Gate
      /\ f.stream \notin Stream => ~md.invalid_rx /\ ~md.octets_exceeded
  BY MetadataFacts
<1>2. ASSUME f.stream \in Stream
      PROVE  Matching(md.gate, d) = IntervalsAt(md.gate, Position(md.gate))
  BY <1>2, MatchOfKnown
<1>3. f.pcp \in 0..7
  BY PsfpAssumption
<1>4. Bad # Good /\ Bad # Doubtful /\ Doubtful # Good
  BY DEF Bad, Doubtful, Good
<1>5. gateBlocked \in [GateId -> BOOLEAN]
  BY DEF IInv, TypeOK
<1>6. CASE MissedTimeSlice(md, f, d)
  <2>1. /\ FlowMeterApply(md, f, d, TRUE, 0) /\ RecordConduct(md, FALSE)
        /\ gateBlocked' = [gateBlocked EXCEPT ![md.gate] = @ \/ md.invalid_rx]
    BY <1>6 DEF MissedTimeSlice, BlockGateIf
  <2>2. f.stream \in Stream => StatesNow(md.gate) = {}
    BY <1>2, <1>6 DEF MissedTimeSlice, StatesNow
  <2>3. md.invalid_rx => ConductNow(md, FALSE) = Bad
    BY <1>1, <2>2 DEF ConductNow
  <2>4. ~md.invalid_rx => ConductNow(md, FALSE) = Good
    BY DEF ConductNow
  <2>5. StatesNow(md.gate) # {1} \/ f.stream \notin Stream
    BY <2>2
  <2>6. \A drop \in BOOLEAN : DropsFor(md, f, drop, md.invalid_rx)
    BY <2>5 DEF DropsFor
  <2> USE <1>1
  <2> WITNESS TRUE \in BOOLEAN, 0 \in 0..7, FALSE \in BOOLEAN, md.invalid_rx \in BOOLEAN
  <2> QED BY <1>4, <2>1, <2>3, <2>4, <2>5, <2>6 DEF GateVerdict
<1>7. CASE \E t \in Matching(md.gate, d) : GateHit(md, f, d, t)
  <2>1. PICK t \in Matching(md.gate, d) : GateHit(md, f, d, t)
    BY <1>7
  <2>2. f.stream \in Stream => t \in IntervalsAt(md.gate, Position(md.gate))
    BY <1>2
  <2>3. t.state \in {0, 1} /\ t.ipv \in 0..8
    BY PsfpAssumption DEF Matching, IntervalsAt
  <2>4. f.stream \in Stream => t.state \in StatesNow(md.gate)
    BY <2>2 DEF StatesNow
  <2>5. PICK qid \in 0..7 : qid = IF t.ipv = 8 THEN f.pcp ELSE t.ipv
    BY <1>3, <2>3
  <2>6. CASE OctetsExceeded(md, f, d, qid)
    <3>1. /\ FlowMeterApply(md, f, d, TRUE, qid) /\ RecordConduct(md, TRUE)
          /\ gateBlocked' = [gateBlocked EXCEPT ![md.gate] = @ \/ TRUE]
      BY <2>6 DEF OctetsExceeded, BlockGateIf
    <3>2. ConductNow(md, TRUE) = Bad
      BY DEF ConductNow
    <3>3. DropsFor(md, f, TRUE, TRUE)
      BY <2>6 DEF OctetsExceeded, DropsFor
    <3> WITNESS TRUE \in BOOLEAN, qid \in 0..7, TRUE \in BOOLEAN, TRUE \in BOOLEAN
    <3> QED BY <1>4, <3>1, <3>2, <3>3 DEF GateVerdict
  <2>7. CASE t.state = 0 /\ OutOfSchedule(md, f, d, qid)
    <3>1. /\ FlowMeterApply(md, f, d, TRUE, qid) /\ RecordConduct(md, FALSE)
          /\ gateBlocked' = [gateBlocked EXCEPT ![md.gate] = @ \/ md.invalid_rx]
      BY <2>7 DEF OutOfSchedule, BlockGateIf
    <3>2. f.stream \in Stream => StatesNow(md.gate) # {1}
      BY <2>4, <2>7
    <3>3. md.invalid_rx => ConductNow(md, FALSE) # Good
      BY <1>1, <1>4, <3>2 DEF ConductNow
    <3>4. ~md.invalid_rx => ConductNow(md, FALSE) = Good
      BY DEF ConductNow
    <3>5. \A drop \in BOOLEAN : DropsFor(md, f, drop, md.invalid_rx)
      BY <3>2 DEF DropsFor
    <3> USE <1>1
    <3> WITNESS TRUE \in BOOLEAN, qid \in 0..7, FALSE \in BOOLEAN, md.invalid_rx \in BOOLEAN
    <3> QED BY <1>4, <3>1, <3>2, <3>3, <3>4, <3>5 DEF GateVerdict
  <2>8. CASE t.state = 1 /\ InOpenInterval(md, f, d, qid)
    <3>1. PICK drop \in BOOLEAN :
             drop <=> (md.invalid_rx \/ md.octets_exceeded) /\ gateBlocked[md.gate]
      OBVIOUS
    <3>2. FlowMeterApply(md, f, d, drop, qid)
      <4>1. drop = ((md.invalid_rx \/ md.octets_exceeded) /\ gateBlocked[md.gate])
        BY <3>1
      <4> QED BY <2>8, <4>1 DEF InOpenInterval
    <3>3. RecordConduct(md, FALSE) /\ gateBlocked' = gateBlocked
      BY <2>8 DEF InOpenInterval
    <3>4. gateBlocked' = [gateBlocked EXCEPT ![md.gate] = @ \/ FALSE]
      BY <1>1, <1>5, <3>3
    <3>5. ConductNow(md, FALSE) # Bad
      BY <1>1, <1>4, <2>4, <2>8 DEF ConductNow
    <3>6. DropsFor(md, f, drop, FALSE)
      BY <3>1 DEF DropsFor
    <3> WITNESS drop \in BOOLEAN, qid \in 0..7, FALSE \in BOOLEAN, FALSE \in BOOLEAN
    <3> QED BY <2>2, <2>5, <2>8, <3>1, <3>2, <3>3, <3>4, <3>5, <3>6 DEF GateVerdict
  <2> QED BY <2>1, <2>5, <2>6, <2>7, <2>8 DEF GateHit
<1> QED BY <1>6, <1>7 DEF FrameArrives

\* The color the policer knows a frame by: both kinds of yellow are one.
Shade(color) == IF color = 3 THEN 2 ELSE IF color = 0 THEN 0 ELSE 1

\* How the control FlowMeter decides.
DecidesBy(md, f, drop, color, dei, passed, red) ==
    /\ drop => ~passed /\ ~red
    /\ red => md.mark_red
    /\ ~drop => /\ Shade(color) \in Policer!Colors(md, f.dei)
                /\ passed <=> ~( \/ meterBlocked[md.meter]
                                 \/ color = 3
                                 \/ color \in {1, 2} /\ md.drop_on_yellow )
                /\ red <=> color = 3 /\ md.mark_red
                /\ passed => dei = Shade(color)

\* What a frame leaves behind: passed on or not, with what color, and whether
\* all frames of its meter are to be red from now on.
MeterVerdict(md, f, d, drop, qid, color, dei, passed, red) ==
    /\ out' = {Outcome(f, d, qid, color, dei, passed)}
    /\ meterBlocked' = [meterBlocked EXCEPT ![md.meter] = @ \/ red]
    /\ sawRed' = IF red THEN sawRed \union {md.meter} ELSE sawRed
    /\ passed => ~drop /\ ~meterBlocked[md.meter] /\ ~red
    /\ passed /\ f.dei = 1 /\ md.color_aware => dei = 1
    /\ /\ ~drop /\ ~meterBlocked[md.meter]
       /\ color \in {0} \union IF md.drop_on_yellow THEN {} ELSE {1, 2}
       => passed
    /\ DecidesBy(md, f, drop, color, dei, passed, red)

\* What the control FlowMeter makes of a frame.
LEMMA MeterCases ==
    ASSUME NEW f \in Frames, NEW md, md = Identify(f.stream), NEW d, NEW qid,
           NEW drop \in BOOLEAN, FlowMeterApply(md, f, d, drop, qid), IInv
    PROVE  \E color \in 0..3, dei \in {0, 1}, passed \in BOOLEAN, red \in BOOLEAN :
             MeterVerdict(md, f, d, drop, qid, color, dei, passed, red)
<1>1. /\ md.meter \in MeterId /\ md.drop_on_yellow \in BOOLEAN /\ md.mark_red \in BOOLEAN
      /\ md.color_aware => md.meter \in DOMAIN FlowMeters
  BY MetadataFacts
<1>2. meterBlocked \in [MeterId -> BOOLEAN] /\ f.dei \in {0, 1}
  BY PsfpAssumption DEF IInv, TypeOK
<1>3. ASSUME meterBlocked' = meterBlocked
      PROVE  meterBlocked' = [meterBlocked EXCEPT ![md.meter] = @ \/ FALSE]
  BY <1>1, <1>2, <1>3
<1>4. PICK color \in MeterColors(md, f.dei, drop) :
        \/ Yellow(md, f, d, qid, color)
        \/ Red(md, f, d, qid, color)
        \/ Green(md, f, d, qid, color, drop)
  BY DEF FlowMeterApply
<1>5. ~drop => Shade(color) \in Policer!Colors(md, f.dei)
  BY <1>2, <1>4 DEF MeterColors, PreColor, Policer!Colors, Shade
<1>6. color \in 0..3 /\ (color # 0 => ~drop)
  BY DEF MeterColors, PreColor
<1>7. color = 0 /\ ~drop /\ f.dei = 1 => ~md.color_aware
  BY <1>1 DEF MeterColors, PreColor
<1>8. CASE Yellow(md, f, d, qid, color)
  <2>1. PICK passed \in BOOLEAN : passed = YellowPasses(md)
    BY DEF YellowPasses
  <2>2. PICK dei \in {0, 1} : dei = IF passed THEN 1 ELSE f.dei
    BY <1>2
  <2>3. /\ color \in {1, 2}
        /\ out' = {Outcome(f, d, qid, color, dei, passed)}
        /\ meterBlocked' = meterBlocked /\ sawRed' = sawRed
    BY <1>8, <2>1, <2>2 DEF Yellow
  <2>4. passed <=> ~md.drop_on_yellow /\ ~meterBlocked[md.meter]
    BY <2>1 DEF YellowPasses
  <2>5. PICK red \in BOOLEAN : red = FALSE
    OBVIOUS
  <2>6. DecidesBy(md, f, drop, color, dei, passed, red)
    BY <1>5, <1>6, <2>2, <2>3, <2>4, <2>5 DEF DecidesBy, Shade
  <2>7. /\ meterBlocked' = [meterBlocked EXCEPT ![md.meter] = @ \/ red]
        /\ sawRed' = IF red THEN sawRed \union {md.meter} ELSE sawRed
    BY <1>3, <2>3, <2>5
  <2>8. /\ passed => ~drop /\ ~meterBlocked[md.meter] /\ ~red
        /\ passed /\ f.dei = 1 /\ md.color_aware => dei = 1
    BY <1>6, <2>2, <2>3, <2>4, <2>5
  <2>9. /\ ~drop /\ ~meterBlocked[md.meter]
        /\ color \in {0} \union IF md.drop_on_yellow THEN {} ELSE {1, 2}
        => passed
    BY <2>3, <2>4
  <2> USE <1>6
  <2> WITNESS color \in 0..3, dei \in {0, 1}, passed \in BOOLEAN, red \in BOOLEAN
  <2> QED BY <2>3, <2>6, <2>7, <2>8, <2>9 DEF MeterVerdict
<1>9. CASE Red(md, f, d, qid, color)
  <2>1. /\ color = 3
        /\ out' = {Outcome(f, d, qid, color, f.dei, FALSE)}
        /\ meterBlocked' = [meterBlocked EXCEPT ![md.meter] = @ \/ md.mark_red]
        /\ sawRed' = IF md.mark_red THEN sawRed \union {md.meter} ELSE sawRed
    BY <1>9 DEF Red
  <2>2. PICK dei \in {0, 1}, passed \in BOOLEAN, red \in BOOLEAN :
          dei = f.dei /\ passed = FALSE /\ red = md.mark_red
    BY <1>1, <1>2
  <2>3. DecidesBy(md, f, drop, color, dei, passed, red)
    BY <1>5, <1>6, <2>1, <2>2 DEF DecidesBy
  <2>4. /\ out' = {Outcome(f, d, qid, color, dei, passed)}
        /\ meterBlocked' = [meterBlocked EXCEPT ![md.meter] = @ \/ red]
        /\ sawRed' = IF red THEN sawRed \union {md.meter} ELSE sawRed
    BY <2>1, <2>2
  <2>5. ~(color \in {0} \union IF md.drop_on_yellow THEN {} ELSE {1, 2})
    BY <2>1
  <2>6. ~passed
    BY <2>2
  <2> USE <1>6
  <2> WITNESS color \in 0..3, dei \in {0, 1}, passed \in BOOLEAN, red \in BOOLEAN
  <2> QED BY <2>3, <2>4, <2>5, <2>6 DEF MeterVerdict
<1>10. CASE Green(md, f, d, qid, color, drop) /\ ~drop /\ GreenPasses(md)
  <2>1. /\ color = 0
        /\ out' = {Outcome(f, d, qid, color, 0, TRUE)}
        /\ meterBlocked' = meterBlocked /\ sawRed' = sawRed
    BY <1>10 DEF Green
  <2>2. ~meterBlocked[md.meter]
    BY <1>10 DEF GreenPasses
  <2>3. DecidesBy(md, f, drop, color, 0, TRUE, FALSE)
    BY <1>10, <1>5, <2>1, <2>2 DEF DecidesBy, Shade
  <2> USE <1>6
  <2> WITNESS color \in 0..3, 0 \in {0, 1}, TRUE \in BOOLEAN, FALSE \in BOOLEAN
  <2> QED BY <1>3, <1>7, <1>10, <2>1, <2>2, <2>3 DEF MeterVerdict
<1>11. CASE Green(md, f, d, qid, color, drop) /\ ~(~drop /\ GreenPasses(md))
  <2>1. /\ color = 0
        /\ out' = {Outcome(f, d, qid, color, f.dei, FALSE)}
        /\ meterBlocked' = meterBlocked /\ sawRed' = sawRed
    BY <1>11 DEF Green
  <2>2. drop \/ meterBlocked[md.meter]
    BY <1>11 DEF GreenPasses
  <2>3. DecidesBy(md, f, drop, color, f.dei, FALSE, FALSE)
    BY <1>5, <2>1, <2>2 DEF DecidesBy
  <2> USE <1>2, <1>6
  <2> WITNESS color \in 0..3, f.dei \in {0, 1}, FALSE \in BOOLEAN, FALSE \in BOOLEAN
  <2> QED BY <1>3, <2>1, <2>2, <2>3 DEF MeterVerdict
<1> QED BY <1>4, <1>8, <1>9, <1>10, <1>11
-----------------------------------------------------------------------------
Safe == /\ PassesOnlyWhenOpen /\ ShutForGood /\ RedForGood
        /\ ConformingFramesPass /\ YellowStaysYellow

LEMMA InitIInv == Init => IInv /\ Safe
<1> SUFFICES ASSUME Init PROVE IInv /\ Safe
  OBVIOUS
<1>1. TypeOK
  <2>1. now \in Timestamp /\ 0 \in Timestamp
    BY ConstantFacts DEF Init
  <2>2. phase \in [Gate -> Int]
    BY DEF Init
  <2> QED BY <2>1, <2>2 DEF Init, TypeOK
<1>2. Bits
  BY DEF Init, Bits, Good, Bad
<1>3. ASSUME NEW g \in Gate PROVE PhaseInv(g)
  <2>1. now \in StartTimes /\ now = now + 0 /\ phase[g] = 0
    BY <1>3, ConstantFacts DEF Init
  <2>2. ~hyperperiod_done[g] /\ hyperperiodTs[g] = 0
    BY <1>3 DEF Init, GateId
  <2> QED BY <1>3, <2>1, <2>2, ConstantFacts DEF PhaseInv
<1>4. Safe
  BY DEF Init, Safe, PassesOnlyWhenOpen, ShutForGood, RedForGood, ConformingFramesPass,
         YellowStaysYellow
<1> QED BY <1>1, <1>2, <1>3, <1>4 DEF IInv

\* The clock stays in step with a register while time passes.
LEMMA TimePassesPhase ==
    ASSUME IInv, TimePasses, NEW g \in Gate
    PROVE  PhaseInv(g)'
<1>1. PhaseInv(g) /\ Period(g)' = Period(g)
  BY DEF IInv, Period, Schedule
<1>2. PICK p \in Nat : p = Period(g)
  BY ConstantFacts
<1>3. PICK h \in Int : h = hyperperiodTs[g]
  BY WithinHorizon
<1>4. PICK e \in Int : e = phase[g] /\ -Skew <= e
  BY <1>1 DEF PhaseInv
<1>5. hyperperiodTs'[g] = h /\ hyperperiod_done' = hyperperiod_done /\ generating' = generating
  BY <1>3 DEF TimePasses, registers
<1>6. CASE generating
  <2>1. PICK e1 \in Int : e1 = e + 1 /\ phase'[g] = e1 /\ e1 <= p + LateBy
    BY <1>2, <1>4, <1>6 DEF TimePasses
  <2>2. CASE hyperperiod_done[g]
    <3>1. now = (h + e) % ClockMod
      BY <1>1, <1>3, <1>4, <2>2 DEF PhaseInv
    <3>2. (now + 1) % ClockMod = (h + e1) % ClockMod
      BY <2>1, <3>1, ClockInStep
    <3>3. now' = (h + e1) % ClockMod
      BY <3>2 DEF TimePasses
    <3>4. -Skew <= e1
      BY <1>4, <2>1, ConstantFacts
    <3> QED BY <1>1, <1>2, <1>5, <1>6, <2>1, <2>2, <3>3, <3>4 DEF PhaseInv
  <2>3. CASE ~hyperperiod_done[g]
    <3>1. h = 0 /\ 0 <= e
      BY <1>1, <1>3, <1>4, <2>3 DEF PhaseInv
    <3>2. PICK t \in StartTimes : now = t + e
      BY <1>1, <1>4, <2>3 DEF PhaseInv
    <3>3. t \in Nat /\ t + p + LateBy < ClockMod - SwitchUnderflow
      BY <1>2, ConstantFacts
    <3>4. PICK x \in 0 .. (ClockMod - 1) : x = now + 1 /\ x = t + e1
      BY <2>1, <3>1, <3>2, <3>3, ConstantFacts
    <3>5. now' = t + e1
      <4>1. PICK c \in Nat \ {0} : c = ClockMod
        BY ConstantFacts
      <4>2. (x % c) = x
        BY <3>4, <4>1, ModSmall
      <4> QED BY <3>4, <4>1, <4>2 DEF TimePasses
    <3>6. 0 <= e1 /\ -Skew <= e1
      BY <2>1, <3>1, ConstantFacts
    <3> QED BY <1>1, <1>2, <1>5, <1>6, <2>1, <2>3, <3>1, <3>5, <3>6 DEF PhaseInv
  <2> QED BY <2>2, <2>3
<1>7. CASE ~generating
  <2>1. now' \in StartTimes /\ phase' = phase
    BY <1>7 DEF TimePasses
  <2>2. ~hyperperiod_done[g] /\ phase[g] = 0 /\ h = 0
    BY <1>1, <1>3, <1>7 DEF PhaseInv
  <2>3. \E t \in StartTimes : now' = t + phase'[g]
    <3>1. ASSUME NEW x \in Nat PROVE x = x + 0
      OBVIOUS
    <3>2. now' \in Nat
      BY <2>1, ConstantFacts
    <3>3. now' = now' + 0
      BY <3>1, <3>2
    <3> QED BY <2>1, <2>2, <3>3
  <2>4. -Skew <= 0 /\ 0 <= p + LateBy
    BY ConstantFacts
  <2> QED BY <1>1, <1>2, <1>5, <1>7, <2>1, <2>2, <2>3, <2>4 DEF PhaseInv
<1> QED BY <1>6, <1>7

LEMMA TimePassesIInv ==
    ASSUME IInv, TimePasses
    PROVE  IInv'
<1>1. TypeOK'
  <2>1. now' \in Timestamp
    <3>1. PICK a \in Int : a = now + 1
      BY ConstantFacts DEF IInv, TypeOK
    <3> QED BY <3>1, ClockIsTimestamp DEF TimePasses
  <2>2. phase' \in [Gate -> Int]
    <3>1. ASSUME NEW g \in Gate PROVE phase[g] + 1 \in Int
      BY DEF IInv, TypeOK
    <3> QED BY <3>1 DEF IInv, TypeOK, TimePasses
  <2> QED BY <2>1, <2>2 DEF IInv, TypeOK, TimePasses, registers
<1>2. Bits'
  BY DEF IInv, Bits, TimePasses, registers
<1> QED BY <1>1, <1>2, TimePassesPhase DEF IInv

LEMMA HyperperiodPacketIInv ==
    ASSUME IInv, NEW b \in Gate, HyperperiodPacket(b)
    PROVE  IInv'
<1>1. PICK s \in 0..Skew :
        /\ hyperperiodTs' = [hyperperiodTs EXCEPT ![b] = (now + s) % ClockMod]
        /\ phase' = [phase EXCEPT ![b] = -s]
  BY DEF HyperperiodPacket
<1>2. /\ hyperperiod_done' = [hyperperiod_done EXCEPT ![b] = TRUE]
      /\ generating /\ generating' = generating /\ now' = now
  BY DEF HyperperiodPacket
<1>3. s \in Int /\ -s \in Int /\ now \in Timestamp /\ now \in Int /\ b \in GateId
  BY ConstantFacts DEF IInv, TypeOK, GateId
<1>4. ((now + s) % ClockMod) \in Timestamp
  <2>1. PICK a \in Int : a = now + s
    BY <1>3
  <2> QED BY <2>1, ClockIsTimestamp
<1>5. TypeOK'
  BY <1>1, <1>2, <1>3, <1>4 DEF IInv, TypeOK, HyperperiodPacket
<1>6. Bits'
  BY DEF IInv, Bits, HyperperiodPacket
<1>7. ASSUME NEW x \in Gate PROVE PhaseInv(x)'
  <2>1. CASE x = b
    <3>1. phase'[b] = -s /\ hyperperiodTs'[b] = (now + s) % ClockMod /\ hyperperiod_done'[b]
      BY <1>1, <1>2, <1>3 DEF IInv, TypeOK
    <3>2. now = (hyperperiodTs'[b] + phase'[b]) % ClockMod
      BY <1>3, <3>1, StoredAhead
    <3>3. -Skew <= -s /\ -s <= Period(b) + LateBy /\ Period(b)' = Period(b)
      BY ConstantFacts DEF Period, Schedule
    <3> QED BY <1>2, <1>3, <2>1, <3>1, <3>2, <3>3 DEF PhaseInv
  <2>2. CASE x # b
    <3>1. /\ phase'[x] = phase[x] /\ hyperperiodTs'[x] = hyperperiodTs[x]
          /\ hyperperiod_done'[x] = hyperperiod_done[x]
      BY <1>1, <1>2, <2>2 DEF IInv, TypeOK, GateId
    <3> QED BY <1>2, <3>1 DEF IInv, PhaseInv, Period, Schedule
  <2> QED BY <2>1, <2>2
<1> QED BY <1>5, <1>6, <1>7 DEF IInv
-----------------------------------------------------------------------------
\* A frame leaves the clock, the registers of the hyperperiods and so the states
\* of the schedules alone.
LEMMA FrameLeavesTime ==
    ASSUME NEW f \in Frames, FrameArrives(f), NEW g
    PROVE  /\ Position(g)' = Position(g)
           /\ StatesNow(g)' = StatesNow(g)
           /\ PhaseInv(g)' <=> PhaseInv(g)
<1>1. UNCHANGED <<now, generating, phase, hyperperiod_done, hyperperiodTs>>
  BY DEF FrameArrives
<1>2. Position(g)' = Position(g)
  BY <1>1 DEF Position, Period, Schedule
<1>3. StatesNow(g)' = StatesNow(g)
  BY <1>2 DEF StatesNow, IntervalsAt, Schedule
<1> QED BY <1>1, <1>2, <1>3 DEF PhaseInv, Period, Schedule

\* The conduct of a gate is the worst so far.
LEMMA ConductStep ==
    ASSUME IInv, NEW md, md.gate \in GateId, NEW exceeded, RecordConduct(md, exceeded)
    PROVE  /\ conduct' \in [GateId -> {Good, Doubtful, Bad}]
           /\ \A g \in GateId : g # md.gate => conduct'[g] = conduct[g]
           /\ conduct'[md.gate] = Bad => \/ conduct[md.gate] = Bad
                                         \/ ConductNow(md, exceeded) = Bad
           /\ conduct'[md.gate] = Good => /\ conduct[md.gate] = Good
                                          /\ ConductNow(md, exceeded) = Good
<1>1. PICK new \in {Good, Doubtful, Bad} : new = ConductNow(md, exceeded)
  BY DEF ConductNow
<1>2. conduct' = [conduct EXCEPT ![md.gate] = IF new > @ THEN new ELSE @]
  BY <1>1 DEF RecordConduct
<1>3. conduct \in [GateId -> {Good, Doubtful, Bad}]
  BY DEF IInv, TypeOK
<1>4. conduct'[md.gate] = IF new > conduct[md.gate] THEN new ELSE conduct[md.gate]
  BY <1>2, <1>3
<1>5. Good = 0 /\ Doubtful = 1 /\ Bad = 2
  BY DEF Good, Doubtful, Bad
<1>6. conduct' \in [GateId -> {Good, Doubtful, Bad}]
  BY <1>2, <1>3
<1>7. \A g \in GateId : g # md.gate => conduct'[g] = conduct[g]
  BY <1>2, <1>3
<1>8. conduct[md.gate] \in {0, 1, 2} /\ new \in {0, 1, 2}
  BY <1>3, <1>5
<1> QED BY <1>1, <1>4, <1>5, <1>6, <1>7, <1>8

LEMMA FrameArrivesIInv ==
    ASSUME IInv, NEW f \in Frames, FrameArrives(f)
    PROVE  IInv' /\ Safe'
<1>1. PICK md, d : md = Identify(f.stream) /\ d = PositionGiven(f.stream)
  OBVIOUS
<1>2. PICK drop \in BOOLEAN, qid \in 0..7, exceeded \in BOOLEAN, blocks \in BOOLEAN :
         /\ FlowMeterApply(md, f, d, drop, qid)
         /\ GateVerdict(md, f, drop, qid, exceeded, blocks)
  BY <1>1, GateCases
<1>3. PICK color \in 0..3, dei \in {0, 1}, passed \in BOOLEAN, red \in BOOLEAN :
         MeterVerdict(md, f, d, drop, qid, color, dei, passed, red)
  BY <1>1, <1>2, MeterCases
<1>4. md.gate \in GateId /\ md.meter \in MeterId
  BY <1>1, MetadataFacts
<1>5. /\ conduct' \in [GateId -> {Good, Doubtful, Bad}]
      /\ \A g \in GateId : g # md.gate => conduct'[g] = conduct[g]
      /\ conduct'[md.gate] = Bad => \/ conduct[md.gate] = Bad
                                    \/ ConductNow(md, exceeded) = Bad
      /\ conduct'[md.gate] = Good => /\ conduct[md.gate] = Good
                                     /\ ConductNow(md, exceeded) = Good
  BY <1>2, <1>4, ConductStep DEF GateVerdict
<1>6. gateBlocked' \in [GateId -> BOOLEAN]
  BY <1>2, <1>4 DEF GateVerdict, IInv, TypeOK
<1>7. meterBlocked' \in [MeterId -> BOOLEAN] /\ sawRed' \subseteq MeterId
  BY <1>3, <1>4 DEF MeterVerdict, IInv, TypeOK
<1>8. UNCHANGED <<now, generating, phase, hyperperiod_done, hyperperiodTs>>
  BY DEF FrameArrives
<1>9. TypeOK'
  <2>1. now \in Timestamp /\ hyperperiodTs[md.gate] \in Timestamp
    BY <1>4 DEF IInv, TypeOK
  <2>2. d \in Timestamp
    BY <1>1, <2>1, MetadataFacts, DiffIsTimestamp, DetectionIsTimestamp DEF PositionGiven
  <2>3. Outcome(f, d, qid, color, dei, passed) \in Outcomes
    BY <2>2 DEF Outcome, Outcomes
  <2>4. out' \subseteq Outcomes
    BY <1>3, <2>3 DEF MeterVerdict
  <2> QED BY <1>5, <1>6, <1>7, <1>8, <2>4 DEF IInv, TypeOK
<1>10. Bits'
  <2>1. ASSUME NEW g \in GateId
        PROVE  /\ conduct'[g] = Bad => gateBlocked'[g]
               /\ gateBlocked'[g] => conduct'[g] # Good
    <3>1. /\ conduct[g] = Bad => gateBlocked[g]
          /\ gateBlocked[g] => conduct[g] # Good
      BY DEF IInv, Bits
    <3>2. gateBlocked'[g] <=> gateBlocked[g] \/ (g = md.gate /\ blocks)
      BY <1>2, <1>4 DEF GateVerdict, IInv, TypeOK
    <3>3. CASE g = md.gate
      BY <1>2, <1>5, <3>1, <3>2, <3>3 DEF GateVerdict
    <3>4. CASE g # md.gate
      BY <1>5, <3>1, <3>2, <3>4
    <3> QED BY <3>3, <3>4
  <2>2. ASSUME NEW m \in MeterId PROVE m \in sawRed' <=> meterBlocked'[m]
    <3>1. m \in sawRed <=> meterBlocked[m]
      BY DEF IInv, Bits
    <3>2. meterBlocked'[m] <=> meterBlocked[m] \/ (m = md.meter /\ red)
      BY <1>3, <1>4 DEF MeterVerdict, IInv, TypeOK
    <3>3. m \in sawRed' <=> m \in sawRed \/ (m = md.meter /\ red)
      BY <1>3 DEF MeterVerdict
    <3> QED BY <3>1, <3>2, <3>3
  <2> QED BY <2>1, <2>2 DEF Bits
<1>11. ASSUME NEW g \in Gate PROVE PhaseInv(g)'
  BY FrameLeavesTime DEF IInv
<1>12. Safe'
  <2>1. /\ conduct[md.gate] = Bad => gateBlocked[md.gate]
        /\ gateBlocked[md.gate] => conduct[md.gate] # Good
        /\ md.meter \in sawRed <=> meterBlocked[md.meter]
    BY <1>4 DEF IInv, Bits
  <2>2. md.meter \in sawRed' <=> meterBlocked[md.meter] \/ red
    BY <1>3, <2>1 DEF MeterVerdict
  <2>3. drop => ~( /\ f.stream \in Stream
                   /\ StatesNow(md.gate) = {1}
                   /\ conduct'[md.gate] = Good )
    BY <1>2, <1>5, <2>1 DEF GateVerdict
  <2>4. ~drop /\ (md.invalid_rx \/ md.octets_exceeded) => conduct'[md.gate] # Bad
    BY <1>2, <1>5, <2>1 DEF GateVerdict
  <2>5. /\ Position(md.gate)' = Position(md.gate)
        /\ StatesNow(md.gate)' = StatesNow(md.gate)
    BY FrameLeavesTime
  <2>6. ASSUME NEW r \in out'
        PROVE  /\ r.frame = f /\ r.qid = qid /\ r.color = color /\ r.dei = dei
               /\ r.passed = passed
    BY <1>3 DEF MeterVerdict, Outcome
  <2>7. PassesOnlyWhenOpen'
    <3>1. ASSUME passed, f.stream \in Stream
          PROVE  \E t \in IntervalsAt(md.gate, Position(md.gate)) :
                   t.state = 1 /\ qid = IF t.ipv = 8 THEN f.pcp ELSE t.ipv
      BY <1>2, <1>3, <3>1 DEF GateVerdict, MeterVerdict
    <3>2. IntervalsAt(md.gate, Position(md.gate))' = IntervalsAt(md.gate, Position(md.gate))
      BY <2>5 DEF IntervalsAt, Schedule
    <3> QED BY <1>1, <2>6, <3>1, <3>2 DEF PassesOnlyWhenOpen
  <2>8. ShutForGood'
    BY <1>1, <1>3, <2>4, <2>6 DEF MeterVerdict, ShutForGood
  <2>9. RedForGood'
    BY <1>1, <1>3, <2>2, <2>6 DEF MeterVerdict, RedForGood
  <2>10. ConformingFramesPass'
    BY <1>1, <1>3, <2>2, <2>3, <2>5, <2>6 DEF MeterVerdict, ConformingFramesPass
  <2>11. YellowStaysYellow'
    BY <1>1, <1>3, <2>6 DEF MeterVerdict, YellowStaysYellow
  <2> QED BY <2>7, <2>8, <2>9, <2>10, <2>11 DEF Safe
<1> QED BY <1>9, <1>10, <1>11, <1>12 DEF IInv
-----------------------------------------------------------------------------
\* Nothing to say of a frame while none has just come.
LEMMA NoFrameSafe ==
    ASSUME out' = {}
    PROVE  Safe'
BY DEF Safe, PassesOnlyWhenOpen, ShutForGood, RedForGood, ConformingFramesPass,
       YellowStaysYellow

LEMMA NextIInv ==
    IInv /\ Safe /\ [Next]_vars => IInv' /\ Safe'
<1> SUFFICES ASSUME IInv, Safe, [Next]_vars
             PROVE  IInv' /\ Safe'
  OBVIOUS
<1>1. CASE TimePasses
  BY <1>1, TimePassesIInv, NoFrameSafe DEF TimePasses
<1>2. CASE EnablePktGen
  <2>1. /\ UNCHANGED <<now, phase, registers, out, conduct, sawRed>>
        /\ ~generating /\ generating' = TRUE
    BY <1>2 DEF EnablePktGen
  <2>2. TypeOK' /\ Bits'
    BY <2>1 DEF IInv, TypeOK, Bits, registers
  <2>3. ASSUME NEW g \in Gate PROVE PhaseInv(g)'
    BY <2>1 DEF IInv, PhaseInv, registers, Period, Schedule
  <2>4. Safe'
    <3>1. \A g : StatesNow(g)' = StatesNow(g) /\ Position(g)' = Position(g)
      BY <2>1 DEF StatesNow, IntervalsAt, Position, Period, Schedule, registers
    <3> QED BY <2>1, <3>1
            DEF Safe, PassesOnlyWhenOpen, ShutForGood, RedForGood, ConformingFramesPass,
                YellowStaysYellow, IntervalsAt, Schedule
  <2> QED BY <2>2, <2>3, <2>4 DEF IInv
<1>3. ASSUME NEW g \in Gate, HyperperiodPacket(g) PROVE IInv' /\ Safe'
  BY <1>3, HyperperiodPacketIInv, NoFrameSafe DEF HyperperiodPacket
<1>4. ASSUME NEW f \in Frames, FrameArrives(f) PROVE IInv' /\ Safe'
  BY <1>4, FrameArrivesIInv
<1>5. CASE UNCHANGED vars
  <2>1. UNCHANGED <<now, generating, phase, registers, out, conduct, sawRed>>
    BY <1>5 DEF vars
  <2>2. TypeOK' /\ Bits'
    BY <2>1 DEF IInv, TypeOK, Bits, registers
  <2>3. ASSUME NEW g \in Gate PROVE PhaseInv(g)'
    BY <2>1 DEF IInv, PhaseInv, registers, Period, Schedule
  <2>4. Safe'
    <3>1. \A g : StatesNow(g)' = StatesNow(g) /\ Position(g)' = Position(g)
      BY <2>1 DEF StatesNow, IntervalsAt, Position, Period, Schedule, registers
    <3> QED BY <2>1, <3>1
            DEF Safe, PassesOnlyWhenOpen, ShutForGood, RedForGood, ConformingFramesPass,
                YellowStaysYellow, IntervalsAt, Schedule
  <2> QED BY <2>2, <2>3, <2>4 DEF IInv
<1> QED BY <1>1, <1>2, <1>3, <1>4, <1>5 DEF Next

LEMMA AlwaysIInv == Spec => [](IInv /\ Safe)
BY InitIInv, NextIInv, PTL DEF Spec

\* Registers, bits and verdicts keep their types.
THEOREM TypeCorrect == Spec => []TypeOK
<1>1. IInv => TypeOK
  BY DEF IInv
<1> QED BY <1>1, AlwaysIInv, PTL

\* A frame of a known stream passes a gate only while an interval of the gate is
\* open by the true time, into a queue of such an interval (StreamGate.p4,
\* DeltaAdjustment.p4): for any gates and schedules within the horizon of the
\* adjustment, hyperperiods that are early or late, and at the wrap of the clock.
THEOREM GatesKeepSchedules == Spec => []PassesOnlyWhenOpen
<1>1. Safe => PassesOnlyWhenOpen
  BY DEF Safe
<1> QED BY <1>1, AlwaysIInv, PTL

\* A policing gate that has seen a frame out of its schedule, or too many octets,
\* stays shut (StreamGate.p4:129-171).
THEOREM GatesStayShut == Spec => []ShutForGood
<1>1. Safe => ShutForGood
  BY DEF Safe
<1> QED BY <1>1, AlwaysIInv, PTL

\* After a red frame a meter that is to mark all frames red lets none pass
\* (FlowMeter.p4:65-101).
THEOREM MetersStayRed == Spec => []RedForGood
<1>1. Safe => RedForGood
  BY DEF Safe
<1> QED BY <1>1, AlwaysIInv, PTL

\* Streams do each other no harm: a frame that comes in an open interval of a gate
\* without a frame out of schedule so far, with a color its meter admits, passes
\* (StreamGate.p4:129-171, FlowMeter.p4:65-101).
THEOREM ConformingStreamsPass == Spec => []ConformingFramesPass
<1>1. Safe => ConformingFramesPass
  BY DEF Safe
<1> QED BY <1>1, AlwaysIInv, PTL

\* A color-aware meter leaves a frame yellow that has come yellow (headers.p4:221).
THEOREM ColorsAreKept == Spec => []YellowStaysYellow
<1>1. Safe => YellowStaysYellow
  BY DEF Safe
<1> QED BY <1>1, AlwaysIInv, PTL
-----------------------------------------------------------------------------
\* The policer's view of a gate is that of the schedule at the true time.
LEMMA PolicerSees ==
    ASSUME NEW g \in Gate
    PROVE  /\ Policer!IntervalsNow(g) = IntervalsAt(g, Position(g))
           /\ Policer!StatesNow(g) = StatesNow(g)
<1>1. Policer!IntervalsNow(g) = IntervalsAt(g, Position(g))
  BY DEF Policer!IntervalsNow, IntervalsAt
<1> QED BY <1>1 DEF Policer!StatesNow, StatesNow

LEMMA InitRefines == Init => Policer!Init
<1> SUFFICES ASSUME Init PROVE Policer!Init
  OBVIOUS
<1>1. ASSUME NEW g \in Gate PROVE Position(g) = Period(g)
  BY DEF Init, Position, GateId
<1>2. [g \in Gate |-> Position(g)]
        = [h \in DOMAIN [g \in Gate |-> Schedule(g)] |-> [g \in Gate |-> Schedule(g)][h].period]
  BY <1>1 DEF Period
<1>3. {g \in GateId : gateBlocked[g]} = {} /\ {m \in MeterId : meterBlocked[m]} = {}
      /\ {VerdictOn(r) : r \in out} = {}
  BY DEF Init
<1> QED BY <1>2, <1>3 DEF Policer!Init

\* A step of the clock moves the position of a gate on, or leaves it where it waits.
LEMMA PositionStep ==
    ASSUME IInv, TimePasses, NEW g \in Gate
    PROVE  Position(g)' = IF Position(g) < Period(g) /\ (Position(g) = 0 => phase[g] >= 0)
                          THEN Position(g) + 1 ELSE Position(g)
<1>1. PICK p \in Nat : p = Period(g) /\ Period(g)' = p
  BY ConstantFacts DEF Period, Schedule
<1>2. PICK e \in Int : e = phase[g]
  BY WithinHorizon
<1>3. hyperperiod_done' = hyperperiod_done
  BY DEF TimePasses, registers
<1>4. CASE ~hyperperiod_done[g]
  <2>1. Position(g) = p /\ Position(g)' = p
    BY <1>1, <1>3, <1>4 DEF Position
  <2> QED BY <1>1, <2>1
<1>5. CASE hyperperiod_done[g]
  <2>1. generating
    BY <1>5 DEF IInv, PhaseInv
  <2>2. PICK n \in Int : n = e + 1 /\ phase'[g] = n
    BY <1>2, <2>1 DEF TimePasses
  <2>3. Position(g) = IF e > p THEN p ELSE IF e < 0 THEN 0 ELSE e
    BY <1>1, <1>2, <1>5 DEF Position
  <2>4. Position(g)' = IF n > p THEN p ELSE IF n < 0 THEN 0 ELSE n
    BY <1>1, <1>3, <1>5, <2>2 DEF Position
  <2> QED BY <1>1, <1>2, <2>2, <2>3, <2>4
<1> QED BY <1>4, <1>5

LEMMA TimePassesRefines ==
    ASSUME IInv, TimePasses
    PROVE  Policer!Advance
<1> DEFINE moving == {g \in Gate : phase[g] >= 0}
           pos == [g \in Gate |-> Position(g)]
           lists == [g \in Gate |-> Schedule(g)]
<1>1. [g \in Gate |-> Position(g)'] = [g \in DOMAIN lists |->
         IF pos[g] < lists[g].period /\ (pos[g] = 0 => g \in moving)
         THEN pos[g] + 1 ELSE pos[g]]
  BY PositionStep DEF Period
<1>2. /\ {VerdictOn(r) : r \in out}' = {}
      /\ {g \in GateId : gateBlocked[g]}' = {g \in GateId : gateBlocked[g]}
      /\ {m \in MeterId : meterBlocked[m]}' = {m \in MeterId : meterBlocked[m]}
  BY DEF TimePasses, registers
<1>3. moving \in SUBSET DOMAIN lists
  OBVIOUS
<1> QED BY <1>1, <1>2, <1>3 DEF Policer!Advance

LEMMA HyperperiodRefines ==
    ASSUME IInv, NEW b \in Gate, HyperperiodPacket(b)
    PROVE  Policer!NewHyperperiod(b)
<1>1. PICK s \in 0..Skew : phase' = [phase EXCEPT ![b] = -s]
  BY DEF HyperperiodPacket
<1>2. /\ hyperperiod_done' = [hyperperiod_done EXCEPT ![b] = TRUE]
      /\ phase[b] >= Period(b) - EarlyBy
      /\ out' = {} /\ gateBlocked' = gateBlocked /\ meterBlocked' = meterBlocked
  BY DEF HyperperiodPacket
<1>3. phase \in [Gate -> Int] /\ hyperperiod_done \in [GateId -> BOOLEAN]
  BY DEF IInv, TypeOK
<1>4. PICK p \in Nat : p = Period(b) /\ Period(b)' = p
  BY ConstantFacts DEF Period, Schedule
<1>5. Position(b)' = 0
  <2>1. phase'[b] = -s /\ hyperperiod_done'[b] /\ s \in Nat
    BY <1>1, <1>2, <1>3, ConstantFacts DEF GateId
  <2> QED BY <1>4, <2>1 DEF Position
<1>6. ASSUME NEW g \in Gate, g # b PROVE Position(g)' = Position(g)
  <2>1. phase'[g] = phase[g] /\ hyperperiod_done'[g] = hyperperiod_done[g]
    BY <1>1, <1>2, <1>3, <1>6 DEF GateId
  <2> QED BY <2>1 DEF Position, Period, Schedule
<1>7. Position(b) >= Period(b) - EarlyBy
  <2>1. PICK e \in Int, early \in Nat : e = phase[b] /\ early = EarlyBy
    BY <1>3, PsfpAssumption
  <2>2. Position(b) = IF ~hyperperiod_done[b] \/ e > p THEN p ELSE IF e < 0 THEN 0 ELSE e
    BY <1>4, <2>1 DEF Position
  <2> QED BY <1>2, <1>4, <2>1, <2>2
<1>8. [g \in Gate |-> Position(g)'] = [[g \in Gate |-> Position(g)] EXCEPT ![b] = 0]
  BY <1>5, <1>6
<1>9. [g \in Gate |-> Position(g)][b] >= [g \in Gate |-> Schedule(g)][b].period - EarlyBy
  BY <1>7 DEF Period
<1>10. /\ {VerdictOn(r) : r \in out}' = {}
       /\ {g \in GateId : gateBlocked[g]}' = {g \in GateId : gateBlocked[g]}
       /\ {m \in MeterId : meterBlocked[m]}' = {m \in MeterId : meterBlocked[m]}
  BY <1>2
<1> QED BY <1>8, <1>9, <1>10 DEF Policer!NewHyperperiod

\* All that the policer can tell of the arrival of a frame.
ArrivedAs(f, md, drop, qid, blocks, color, dei, passed, red) ==
    /\ md = Identify(f.stream)
    /\ blocks \in BOOLEAN /\ passed \in BOOLEAN /\ red \in BOOLEAN /\ drop \in BOOLEAN
    /\ qid \in 0..7 /\ color \in 0..3 /\ dei \in {0, 1}
    /\ {g \in GateId : gateBlocked'[g]}
         = {g \in GateId : gateBlocked[g]} \union IF blocks THEN {md.gate} ELSE {}
    /\ {m \in MeterId : meterBlocked'[m]}
         = {m \in MeterId : meterBlocked[m]} \union IF red THEN {md.meter} ELSE {}
    /\ {VerdictOn(r) : r \in out'}
         = {IF passed THEN Policer!Sent(f, qid, dei) ELSE Policer!Dropped(f)}
    /\ ~drop => /\ ~blocks
                /\ (md.invalid_rx \/ md.octets_exceeded) => ~gateBlocked[md.gate]
                /\ f.stream \in Stream =>
                     \E t \in IntervalsAt(md.gate, Position(md.gate)) :
                       t.state = 1 /\ qid = IF t.ipv = 8 THEN f.pcp ELSE t.ipv
    /\ DropsFor(md, f, drop, blocks)
    /\ DecidesBy(md, f, drop, color, dei, passed, red)

LEMMA FrameCases ==
    ASSUME IInv, NEW f \in Frames, FrameArrives(f)
    PROVE  \E md, drop, qid, blocks, color, dei, passed, red :
             ArrivedAs(f, md, drop, qid, blocks, color, dei, passed, red)
<1>1. PICK md, d : md = Identify(f.stream) /\ d = PositionGiven(f.stream)
  OBVIOUS
<1>2. PICK drop \in BOOLEAN, qid \in 0..7, exceeded \in BOOLEAN, blocks \in BOOLEAN :
         /\ FlowMeterApply(md, f, d, drop, qid)
         /\ GateVerdict(md, f, drop, qid, exceeded, blocks)
  BY <1>1, GateCases
<1>3. PICK color \in 0..3, dei \in {0, 1}, passed \in BOOLEAN, red \in BOOLEAN :
         MeterVerdict(md, f, d, drop, qid, color, dei, passed, red)
  BY <1>1, <1>2, MeterCases
<1>4. md.gate \in GateId /\ md.meter \in MeterId
  BY <1>1, MetadataFacts
<1>5. gateBlocked \in [GateId -> BOOLEAN] /\ meterBlocked \in [MeterId -> BOOLEAN]
  BY DEF IInv, TypeOK
<1>6. {g \in GateId : gateBlocked'[g]}
        = {g \in GateId : gateBlocked[g]} \union IF blocks THEN {md.gate} ELSE {}
  <2>1. ASSUME NEW g \in GateId
        PROVE  gateBlocked'[g] <=> gateBlocked[g] \/ (blocks /\ g = md.gate)
    BY <1>2, <1>4, <1>5 DEF GateVerdict
  <2> QED BY <1>4, <2>1
<1>7. {m \in MeterId : meterBlocked'[m]}
        = {m \in MeterId : meterBlocked[m]} \union IF red THEN {md.meter} ELSE {}
  <2>1. ASSUME NEW m \in MeterId
        PROVE  meterBlocked'[m] <=> meterBlocked[m] \/ (red /\ m = md.meter)
    BY <1>3, <1>4, <1>5 DEF MeterVerdict
  <2> QED BY <1>4, <2>1
<1>8. {VerdictOn(r) : r \in out'}
        = {IF passed THEN Policer!Sent(f, qid, dei) ELSE Policer!Dropped(f)}
  <2>1. VerdictOn(Outcome(f, d, qid, color, dei, passed))
          = IF passed THEN Policer!Sent(f, qid, dei) ELSE Policer!Dropped(f)
    BY DEF VerdictOn, Outcome, Policer!Sent, Policer!Dropped
  <2>2. {VerdictOn(r) : r \in out'} = {VerdictOn(Outcome(f, d, qid, color, dei, passed))}
    BY <1>3 DEF MeterVerdict
  <2> QED BY <2>1, <2>2
<1>9. /\ ~drop => /\ ~blocks
                  /\ (md.invalid_rx \/ md.octets_exceeded) => ~gateBlocked[md.gate]
                  /\ f.stream \in Stream =>
                       \E t \in IntervalsAt(md.gate, Position(md.gate)) :
                         t.state = 1 /\ qid = IF t.ipv = 8 THEN f.pcp ELSE t.ipv
      /\ DropsFor(md, f, drop, blocks)
  BY <1>2 DEF GateVerdict
<1>10. DecidesBy(md, f, drop, color, dei, passed, red)
  BY <1>3 DEF MeterVerdict
<1>11. ArrivedAs(f, md, drop, qid, blocks, color, dei, passed, red)
  BY <1>1, <1>6, <1>7, <1>8, <1>9, <1>10 DEF ArrivedAs
<1> QED BY <1>11

\* A frame the gate does not let pass is one the policer's gate drops.
LEMMA DropRefines ==
    ASSUME NEW f, f.stream \in Stream,
           NEW md, NEW drop, NEW qid, NEW blocks, NEW color, NEW dei, NEW passed, NEW red,
           ArrivedAs(f, md, drop, qid, blocks, color, dei, passed, red), drop
    PROVE  Policer!GateDrops(f, md)
<1> DEFINE shut == {g \in GateId : gateBlocked[g]}
           marked == {m \in MeterId : meterBlocked[m]}
<1>1. ~passed /\ ~red
  BY DEF ArrivedAs, DecidesBy
<1>2. /\ shut' = shut \union IF blocks THEN {md.gate} ELSE {}
      /\ marked' = marked
      /\ {VerdictOn(r) : r \in out}' = {Policer!Dropped(f)}
  BY <1>1 DEF ArrivedAs
<1>3. md.gate \in Gate /\ md.gate \in GateId
  BY MetadataFacts DEF ArrivedAs
<1>4. \/ StatesNow(md.gate) # {1} /\ (blocks <=> md.invalid_rx)
      \/ md.octets_exceeded /\ blocks
      \/ (md.invalid_rx \/ md.octets_exceeded) /\ gateBlocked[md.gate] /\ ~blocks
  BY DEF ArrivedAs, DropsFor
<1>5. CASE StatesNow(md.gate) # {1} /\ (blocks <=> md.invalid_rx)
  <2>1. Policer!StatesNow(md.gate) # {1}
    BY <1>3, <1>5, PolicerSees
  <2>2. shut' = IF md.invalid_rx THEN shut \union {md.gate} ELSE shut
    BY <1>2, <1>5
  <2> QED BY <1>2, <2>1, <2>2 DEF Policer!GateDrops
<1>6. CASE md.octets_exceeded /\ blocks
  <2>1. shut' = shut \union {md.gate}
    BY <1>2, <1>6
  <2> QED BY <1>2, <1>6, <2>1 DEF Policer!GateDrops
<1>7. CASE (md.invalid_rx \/ md.octets_exceeded) /\ gateBlocked[md.gate] /\ ~blocks
  <2>1. shut' = shut /\ md.gate \in shut
    BY <1>2, <1>3, <1>7
  <2>2. Policer!ShutFor(md)
    BY <1>7, <2>1 DEF Policer!ShutFor
  <2> QED BY <1>2, <2>1, <2>2 DEF Policer!GateDrops
<1> QED BY <1>4, <1>5, <1>6, <1>7

\* A frame the gate lets pass meets an open interval and the policer's meter.
LEMMA PassRefines ==
    ASSUME NEW f, f.stream \in Stream,
           NEW md, NEW drop, NEW qid, NEW blocks, NEW color, NEW dei, NEW passed, NEW red,
           ArrivedAs(f, md, drop, qid, blocks, color, dei, passed, red), ~drop
    PROVE  Policer!GatePasses(f, md)
<1> DEFINE shut == {g \in GateId : gateBlocked[g]}
           marked == {m \in MeterId : meterBlocked[m]}
<1>1. /\ Shade(color) \in Policer!Colors(md, f.dei)
      /\ passed <=> ~( \/ meterBlocked[md.meter]
                       \/ color = 3
                       \/ color \in {1, 2} /\ md.drop_on_yellow )
      /\ red <=> color = 3 /\ md.mark_red
      /\ passed => dei = Shade(color)
  BY DEF ArrivedAs, DecidesBy
<1>2. ~blocks /\ ((md.invalid_rx \/ md.octets_exceeded) => ~gateBlocked[md.gate])
  BY DEF ArrivedAs
<1>3. PICK t \in IntervalsAt(md.gate, Position(md.gate)) :
        t.state = 1 /\ qid = IF t.ipv = 8 THEN f.pcp ELSE t.ipv
  BY DEF ArrivedAs
<1>4. /\ shut' = shut
      /\ marked' = IF red THEN marked \union {md.meter} ELSE marked
      /\ {VerdictOn(r) : r \in out}'
           = {IF passed THEN Policer!Sent(f, qid, dei) ELSE Policer!Dropped(f)}
  BY <1>2 DEF ArrivedAs
<1>5. md.gate \in Gate /\ md.gate \in GateId /\ md.meter \in MeterId
  BY MetadataFacts DEF ArrivedAs
<1>6. t \in Policer!IntervalsNow(md.gate)
  BY <1>3, <1>5, PolicerSees
<1>7. ~Policer!ShutFor(md)
  BY <1>2, <1>5 DEF Policer!ShutFor
<1>8. PICK shade : shade = Shade(color)
  OBVIOUS
<1>9. (shade = 2 <=> color = 3) /\ (shade = 1 <=> color \in {1, 2})
  BY <1>8 DEF ArrivedAs, Shade
<1>10. marked' = IF shade = 2 /\ md.mark_red THEN marked \union {md.meter} ELSE marked
  BY <1>1, <1>4, <1>9
<1>11. meterBlocked[md.meter] <=> md.meter \in marked
  BY <1>5
<1>12. {VerdictOn(r) : r \in out}'
         = {IF \/ md.meter \in marked
               \/ shade = 2
               \/ shade = 1 /\ md.drop_on_yellow
            THEN Policer!Dropped(f)
            ELSE Policer!Sent(f, IF t.ipv = 8 THEN f.pcp ELSE t.ipv, shade)}
  BY <1>1, <1>3, <1>4, <1>8, <1>9, <1>11
<1>13. shade \in Policer!Colors(md, f.dei)
  BY <1>1, <1>8
<1> QED BY <1>3, <1>4, <1>6, <1>7, <1>10, <1>12, <1>13 DEF Policer!GatePasses

\* A frame of no stream changes no bit.
LEMMA UnknownRefines ==
    ASSUME NEW f, f.stream \notin Stream,
           NEW md, NEW drop, NEW qid, NEW blocks, NEW color, NEW dei, NEW passed, NEW red,
           ArrivedAs(f, md, drop, qid, blocks, color, dei, passed, red)
    PROVE  Policer!Unpoliced(f)
<1>1. ~md.mark_red /\ ~md.invalid_rx /\ ~md.octets_exceeded
  BY MetadataFacts DEF ArrivedAs
<1>2. ~blocks /\ ~red
  BY <1>1 DEF ArrivedAs, DropsFor, DecidesBy
<1>3. /\ {g \in GateId : gateBlocked'[g]} = {g \in GateId : gateBlocked[g]}
      /\ {m \in MeterId : meterBlocked'[m]} = {m \in MeterId : meterBlocked[m]}
  BY <1>2 DEF ArrivedAs
<1>4. {VerdictOn(r) : r \in out'} \in {{Policer!Dropped(f)}, {Policer!Sent(f, qid, dei)}}
  BY DEF ArrivedAs
<1>5. qid \in 0..7 /\ dei \in {0, 1}
  BY DEF ArrivedAs
<1> QED BY <1>3, <1>4, <1>5 DEF Policer!Unpoliced

LEMMA FrameRefines ==
    ASSUME IInv, NEW f \in Frames, FrameArrives(f)
    PROVE  Policer!Arrive(f)
<1>1. PICK md, drop, qid, blocks, color, dei, passed, red :
         ArrivedAs(f, md, drop, qid, blocks, color, dei, passed, red)
  BY FrameCases
<1>2. Policer!Known(f) <=> f.stream \in Stream
  BY DEF Policer!Known
<1>3. [g \in Gate |-> Position(g)'] = [g \in Gate |-> Position(g)]
  BY FrameLeavesTime
<1>4. CASE f.stream \in Stream
  <2>1. [s \in Stream |-> StreamIdEntry(s)][f.stream] = md
    BY <1>1, <1>4 DEF ArrivedAs, Identify
  <2>2. Policer!GateDrops(f, md) \/ Policer!GatePasses(f, md)
    BY <1>1, <1>4, DropRefines, PassRefines
  <2> QED BY <1>2, <1>3, <1>4, <2>1, <2>2 DEF Policer!Arrive
<1>5. CASE f.stream \notin Stream
  <2>1. Policer!Unpoliced(f)
    BY <1>1, <1>5, UnknownRefines
  <2> QED BY <1>2, <1>3, <1>5, <2>1 DEF Policer!Arrive
<1> QED BY <1>4, <1>5

\* Enabling generation and standing still are no steps of the policer.
LEMMA QuietRefines ==
    ASSUME \/ EnablePktGen
           \/ UNCHANGED vars
    PROVE  UNCHANGED Policer!vars
<1>1. UNCHANGED <<phase, hyperperiod_done, gateBlocked, meterBlocked, out>>
  BY DEF EnablePktGen, vars, registers
<1>2. ASSUME NEW g \in Gate PROVE Position(g)' = Position(g)
  BY <1>1 DEF Position, Period, Schedule
<1>3. [g \in Gate |-> Position(g)'] = [g \in Gate |-> Position(g)]
  BY <1>2
<1> QED BY <1>1, <1>3 DEF Policer!vars

LEMMA StepRefines == IInv /\ [Next]_vars => [Policer!Next]_(Policer!vars)
<1> SUFFICES ASSUME IInv, [Next]_vars PROVE [Policer!Next]_(Policer!vars)
  OBVIOUS
<1>1. CASE TimePasses
  BY <1>1, TimePassesRefines DEF Policer!Next
<1>2. CASE EnablePktGen \/ UNCHANGED vars
  BY <1>2, QuietRefines
<1>3. ASSUME NEW g \in Gate, HyperperiodPacket(g) PROVE Policer!Next
  BY <1>3, HyperperiodRefines DEF Policer!Next
<1>4. ASSUME NEW f \in Frames, FrameArrives(f) PROVE Policer!Next
  BY <1>4, FrameRefines DEF Policer!Next
<1> QED BY <1>1, <1>2, <1>3, <1>4 DEF Next

\* Filtering and policing implement a policer without clocks, registers or tables:
\* for any gates, meters, streams and schedules within the horizon, what becomes of
\* a frame follows from the schedule of its gate at the true time, from what the
\* gate and the meter have seen, and from its color (StreamGate.p4:120-185,
\* FlowMeter.p4:48-103).
THEOREM Polices == Spec => PolicesFrames
BY InitRefines, StepRefines, AlwaysIInv, PTL DEF Spec, PolicesFrames, Policer!Spec
=============================================================================
