--------------------------- MODULE TasGates_proofs ---------------------------
(***************************************************************************)
(* A control packet is given its true position in the hyperperiod and      *)
(* meets an entry of the gate control list, for any number of ports and    *)
(* queues and every schedule within the horizon of the adjustment.         *)
(*                                                                         *)
(* The invariant ties the clock to the two things the pipeline computes    *)
(* with: now is the register of the port plus the time since its           *)
(* hyperperiod began, modulo the range of the clock.                       *)
(***************************************************************************)
EXTENDS TasGates, DeltaAdjustment_proofs

PhaseInv(b) ==
    /\ phase[b] \in Int /\ -Skew <= phase[b] /\ phase[b] <= Period(b) + LateBy
    /\ started[b] => now = (hyperperiodTs[b] + phase[b]) % ClockMod
    /\ ~started[b] => /\ hyperperiodTs[b] = 0 /\ 0 <= phase[b]
                      /\ \E t \in StartTimes : now = t + phase[b]

\* What the traffic manager holds: packets with a position of their port.
PositionInRange == \A k \in DOMAIN tm : tm[k].diff <= Period(tm[k].batch)

IInv == TypeOK /\ PositionInRange /\ \A b \in Batch : PhaseInv(b)
-----------------------------------------------------------------------------
\* Facts about the constants in the form they are used in below.
LEMMA ConstantFacts ==
    /\ \A b \in Batch : /\ Period(b) \in Nat /\ Period(b) + LateBy < MaxUnderflow
                        /\ \A t \in StartTimes :
                             /\ t \in Nat /\ Period(b) <= t
                             /\ t + Period(b) + LateBy < ClockMod - SwitchUnderflow
    /\ LateBy \in Nat /\ Skew \in Nat /\ ClockMod \in Nat \ {0} /\ MaxGap \in Nat
    /\ MaxUnderflow \in Nat /\ SwitchUnderflow \in Nat /\ Skew <= SwitchUnderflow
    /\ Timestamp = 0 .. (ClockMod - 1) /\ StartTimes \subseteq Timestamp
BY TasAssumption, HorizonAssumption, StartAssumption, ClockAssumption
   DEF Period, Timestamp

\* The batch and the queue of a control packet are those of a port and a gate.
LEMMA PacketIdsFit ==
    ASSUME NEW n \in 0 .. (NumBatches * NumQueues - 1)
    PROVE  /\ BatchOf(n) \in Batch /\ QueueOf(n) \in Queue
           /\ ((n + 1) % (NumBatches * NumQueues)) \in 0 .. (NumBatches * NumQueues - 1)
<1>1. PICK k \in Nat \ {0}, m \in Nat \ {0} : k = NumQueues /\ m = NumBatches
  BY TasAssumption
<1>2. PICK l \in Nat : l = m * k
  OBVIOUS
<1>3. n \in Nat /\ n < l /\ l \in Nat \ {0}
  BY <1>1, <1>2
<1>4. PICK q \in Int, r \in 0 .. (k - 1) : /\ q = (n \div k) /\ r = (n % k)
                                         /\ n = k * q + r
  <2>1. n \in Int
    BY <1>3
  <2>2. (n \div k) \in Int /\ (n % k) \in 0 .. (k - 1) /\ n = k * (n \div k) + (n % k)
    BY <2>1, DivMod
  <2> QED BY <2>2
<1>5. 0 <= q
  <2>1. ASSUME q < 0 PROVE FALSE
    <3>1. k * q <= -k
      BY <2>1
    <3> QED BY <1>3, <1>4, <3>1
  <2> QED BY <2>1, <1>4
<1>6. q < m
  <2>1. ASSUME m <= q PROVE FALSE
    <3>1. k * m <= k * q
      BY <2>1
    <3>2. k * m = l
      BY <1>2
    <3> QED BY <1>3, <1>4, <3>1, <3>2
  <2> QED BY <2>1, <1>4
<1>7. ((n + 1) % l) \in 0 .. (l - 1)
  <2>1. PICK a \in Int : a = n + 1
    BY <1>3
  <2>2. (a % l) \in 0 .. (l - 1)
    BY <1>3, DivMod
  <2> QED BY <2>1, <2>2
<1> QED BY <1>1, <1>2, <1>4, <1>5, <1>6, <1>7 DEF BatchOf, QueueOf, Batch, Queue
-----------------------------------------------------------------------------
LEMMA InitIInv == Init => IInv
<1> SUFFICES ASSUME Init PROVE IInv
  OBVIOUS
<1>1. TypeOK
  <2>1. 0 \in 0 .. (NumBatches * NumQueues - 1)
    <3>1. PICK k \in Nat \ {0}, m \in Nat \ {0} : k = NumQueues /\ m = NumBatches
      BY TasAssumption
    <3>2. m * k \in Nat /\ m * k >= 1
      OBVIOUS
    <3> QED BY <3>1, <3>2
  <2> QED BY <2>1, ConstantFacts DEF Init, TypeOK, NoMessage
<1>2. PositionInRange
  BY DEF Init, PositionInRange
<1>3. ASSUME NEW b \in Batch PROVE PhaseInv(b)
  <2>1. now \in StartTimes /\ now = now + 0 /\ phase[b] = 0 /\ ~started[b]
    BY ConstantFacts DEF Init
  <2> QED BY <2>1, ConstantFacts DEF Init, PhaseInv
<1> QED BY <1>1, <1>2, <1>3 DEF IInv

\* A time step keeps a port's register and phase in step with the clock, and the
\* position that the pipeline computes afterwards is the true one.
LEMMA AdvancePhase ==
    ASSUME IInv, NEW b \in Batch, NEW g \in 1..MaxGap, phase[b] + g <= Period(b) + LateBy,
           now' = (now + g) % ClockMod, phase'[b] = phase[b] + g,
           started' = started, hyperperiodTs' = hyperperiodTs
    PROVE  /\ PhaseInv(b)'
           /\ DiffTs(now', hyperperiodTs[b], Period(b)) = Position(b)'
           /\ Position(b)' \in Nat /\ Position(b)' <= Period(b)
<1>1. PICK c \in Nat \ {0} : c = ClockMod
  BY ConstantFacts
<1>2. PICK h \in Int : h = hyperperiodTs[b]
  BY ConstantFacts DEF IInv, TypeOK
<1>3. PICK d \in Int : d = phase[b] /\ -Skew <= d
  BY DEF IInv, PhaseInv
<1>4. PICK p \in Nat : p = Period(b) /\ p + LateBy < MaxUnderflow
  BY ConstantFacts
<1>5. PICK e \in Int : e = d + g /\ phase'[b] = e /\ -Skew <= e /\ e <= p + LateBy
  BY <1>3, <1>4, ConstantFacts
<1>6. Period(b)' = Period(b)
  BY DEF Period
<1>7. CASE started[b]
  <2>1. now = (h + d) % ClockMod
    BY <1>2, <1>3, <1>7 DEF IInv, PhaseInv
  <2>2. g \in Int
    OBVIOUS
  <2>3. (now + g) % ClockMod = (h + e) % ClockMod
    BY <1>5, <2>1, <2>2, ClockInStep
  <2>4. now' = (h + e) % ClockMod
    BY <2>3
  <2>5. hyperperiodTs'[b] = h /\ started'[b]
    BY <1>2, <1>7
  <2>6. PhaseInv(b)'
    BY <1>4, <1>5, <1>6, <2>4, <2>5 DEF PhaseInv
  <2>7. DiffTs(now', h, p) = Clamped(e, p)
    <3>1. -SwitchUnderflow <= e /\ e < MaxUnderflow
      BY <1>4, <1>5, ConstantFacts
    <3> QED BY <2>4, <3>1, DiffOfTime
  <2>8. Position(b)' = Clamped(e, p)
    BY <1>4, <1>5, <1>6, <1>7 DEF Position, Clamped
  <2>9. Clamped(e, p) \in Nat /\ Clamped(e, p) <= p
    BY DEF Clamped
  <2> QED BY <1>2, <1>4, <2>6, <2>7, <2>8, <2>9
<1>8. CASE ~started[b]
  <2>1. h = 0 /\ 0 <= d
    BY <1>2, <1>3, <1>8 DEF IInv, PhaseInv
  <2>2. PICK t \in StartTimes : now = t + d
    BY <1>3, <1>8 DEF IInv, PhaseInv
  <2>3. PICK x \in Nat : x = t + e /\ x = now + g
    BY <1>5, <2>1, <2>2, ConstantFacts
  <2>4. p <= x /\ x < c - SwitchUnderflow
    <3>1. t \in Nat /\ p <= t /\ t + p + LateBy < c - SwitchUnderflow
      BY <1>1, <1>4, <2>2, ConstantFacts
    <3>2. 0 <= e /\ x = t + e /\ e <= p + LateBy
      BY <1>5, <2>1, <2>3
    <3>3. LateBy \in Nat /\ SwitchUnderflow \in Nat
      BY ConstantFacts
    <3> QED BY <3>1, <3>2, <3>3
  <2>5. now' = x
    <3>1. x \in 0 .. (c - 1)
      BY <1>1, <2>4, ConstantFacts
    <3>2. (x % c) = x
      BY <3>1, ModSmall
    <3> QED BY <1>1, <2>3, <3>2
  <2>6. PhaseInv(b)'
    <3>1. now' = t + phase'[b] /\ 0 <= phase'[b] /\ phase'[b] <= p + LateBy
      BY <1>5, <2>1, <2>3, <2>5
    <3>2. ~started'[b] /\ hyperperiodTs'[b] = 0
      BY <1>2, <1>8, <2>1
    <3> QED BY <1>4, <1>5, <1>6, <3>1, <3>2 DEF PhaseInv
  <2>7. DiffTs(x, 0, p) = p
    <3>1. p < MaxUnderflow
      BY <1>4, ConstantFacts
    <3> QED BY <1>1, <2>4, <3>1, DiffBeforeStart
  <2>8. Position(b)' = p
    BY <1>4, <1>6, <1>8 DEF Position
  <2> QED BY <1>2, <1>4, <2>1, <2>5, <2>6, <2>7, <2>8
<1> QED BY <1>7, <1>8

LEMMA HyperperiodPacketIInv ==
    ASSUME IInv, NEW b \in Batch, HyperperiodPacket(b)
    PROVE  IInv'
<1>1. PICK s \in 0..Skew :
        /\ hyperperiodTs' = [hyperperiodTs EXCEPT ![b] = (now + s) % ClockMod]
        /\ phase' = [phase EXCEPT ![b] = -s]
  BY DEF HyperperiodPacket, WriteHyperperiodTs
<1>2. /\ started' = [started EXCEPT ![b] = TRUE]
      /\ now' = now /\ next' = next /\ tm' = tm /\ gate' = gate
  BY DEF HyperperiodPacket
<1>3. s \in Int /\ -s \in Int /\ now \in 0 .. (ClockMod - 1) /\ now \in Int
  BY ConstantFacts DEF IInv, TypeOK
<1>4. ((now + s) % ClockMod) \in Timestamp
  <2>1. PICK a \in Int : a = now + s
    BY <1>3
  <2> QED BY <2>1, ClockIsTimestamp
<1>5. TypeOK'
  BY <1>1, <1>2, <1>3, <1>4 DEF IInv, TypeOK
<1>6. PositionInRange'
  BY <1>2 DEF IInv, PositionInRange, Period
<1>7. ASSUME NEW x \in Batch PROVE PhaseInv(x)'
  <2>1. CASE x = b
    <3>1. phase'[b] = -s /\ hyperperiodTs'[b] = (now + s) % ClockMod /\ started'[b]
      BY <1>1, <1>2 DEF IInv, TypeOK
    <3>2. now = (hyperperiodTs'[b] + phase'[b]) % ClockMod
      <4>1. now \in Timestamp
        BY DEF IInv, TypeOK
      <4> QED BY <1>3, <3>1, <4>1, StoredAhead
    <3>3. PICK p \in Nat : p = Period(b) /\ Period(b)' = p
      BY ConstantFacts DEF Period
    <3>4. -Skew <= -s /\ -s <= p + LateBy
      BY <1>3, ConstantFacts
    <3> QED BY <1>2, <1>3, <2>1, <3>1, <3>2, <3>3, <3>4 DEF PhaseInv
  <2>2. CASE x # b
    <3>1. phase'[x] = phase[x] /\ hyperperiodTs'[x] = hyperperiodTs[x] /\ started'[x] = started[x]
      BY <1>1, <1>2, <2>2 DEF IInv, TypeOK
    <3> QED BY <1>2, <3>1 DEF IInv, PhaseInv, Period
  <2> QED BY <2>1, <2>2
<1> QED BY <1>5, <1>6, <1>7 DEF IInv

LEMMA GenerateIInv ==
    ASSUME IInv, GenerateControlPacket
    PROVE  /\ IInv'
           /\ \E p \in ControlPacket :
                /\ tm' = Append(tm, p) /\ p.diff = Position(p.batch)'
                /\ p.batch = BatchOf(next) /\ p.queue = QueueOf(next)
<1>1. PICK g \in 1..MaxGap :
        /\ \A b \in Batch : phase[b] + g <= Period(b) + LateBy
        /\ now' = (now + g) % ClockMod
        /\ phase' = [b \in Batch |-> phase[b] + g]
  BY DEF GenerateControlPacket
<1>2. /\ started' = started /\ hyperperiodTs' = hyperperiodTs /\ gate' = gate
      /\ next' = (next + 1) % (NumBatches * NumQueues)
  BY DEF GenerateControlPacket
<1>3. PICK b \in Batch, q \in Queue : b = BatchOf(next) /\ q = QueueOf(next)
  BY PacketIdsFit DEF IInv, TypeOK
<1>4. PICK p : p = [batch |-> b, queue |-> q,
                    diff |-> DiffTs(now', hyperperiodTs[b], Period(b))]
  OBVIOUS
<1>5. tm' = Append(tm, p)
  BY <1>3, <1>4 DEF GenerateControlPacket, EnterPipeline
<1>6. ASSUME NEW x \in Batch
      PROVE  /\ PhaseInv(x)'
             /\ DiffTs(now', hyperperiodTs[x], Period(x)) = Position(x)'
             /\ Position(x)' \in Nat /\ Position(x)' <= Period(x)
  <2>1. phase'[x] = phase[x] + g
    BY <1>1
  <2> QED BY <1>1, <1>2, <2>1, AdvancePhase
<1>7. p \in ControlPacket /\ p.batch = b /\ p.queue = q /\ p.diff = Position(p.batch)' /\ p.diff <= Period(p.batch)
  BY <1>4, <1>6 DEF ControlPacket
<1>8. TypeOK'
  <2>1. now' \in Timestamp
    <3>1. PICK a \in Int : a = now + g
      BY ConstantFacts DEF IInv, TypeOK
    <3> QED BY <1>1, <3>1, ClockIsTimestamp
  <2>2. phase' \in [Batch -> Int]
    BY <1>1 DEF IInv, TypeOK
  <2>3. next' \in 0 .. (NumBatches * NumQueues - 1)
    BY <1>2, PacketIdsFit DEF IInv, TypeOK
  <2>4. tm' \in Seq(ControlPacket)
    BY <1>5, <1>7 DEF IInv, TypeOK
  <2> QED BY <1>2, <2>1, <2>2, <2>3, <2>4 DEF IInv, TypeOK
<1>9. PositionInRange'
  BY <1>5, <1>7 DEF IInv, TypeOK, PositionInRange, Period
<1> QED BY <1>3, <1>5, <1>6, <1>7, <1>8, <1>9 DEF IInv

LEMMA EgressIInv ==
    ASSUME IInv, EgressControlPacket
    PROVE  IInv' /\ Len(tm') < Len(tm)
<1>1. /\ tm # <<>> /\ tm' = Tail(tm)
      /\ phase' = phase /\ started' = started /\ hyperperiodTs' = hyperperiodTs
      /\ now' = now /\ next' = next
  BY DEF EgressControlPacket, ApplyGateControlList
<1>2. PICK p \in ControlPacket : p = Head(tm) /\ p.diff \in 0..Period(p.batch)
  <2>1. tm \in Seq(ControlPacket) /\ tm # <<>> /\ 1 \in DOMAIN tm /\ Head(tm) = tm[1]
    BY <1>1 DEF IInv, TypeOK
  <2>2. tm[1] \in ControlPacket /\ tm[1].diff <= Period(tm[1].batch)
    BY <2>1 DEF IInv, PositionInRange
  <2> QED BY <2>1, <2>2, ConstantFacts DEF ControlPacket
<1>3. StatesAt(Gcl[p.batch], p.queue, p.diff) \subseteq {Open, Closed}
  BY <1>2, GclAssumption DEF Answered, ControlPacket, Period, Open, Closed
<1>4. gate' \in [Batch -> [Queue -> {Open, Closed, NoMessage}]]
  <2>1. gate' = gate \/ \E s \in {Open, Closed} :
                          gate' = [gate EXCEPT ![p.batch][p.queue] = s]
    BY <1>2, <1>3 DEF EgressControlPacket, ApplyGateControlList
  <2>2. p.batch \in Batch /\ p.queue \in Queue
    BY DEF ControlPacket
  <2>3. gate \in [Batch -> [Queue -> {Open, Closed, NoMessage}]]
    BY DEF IInv, TypeOK
  <2> QED BY <2>1, <2>2, <2>3
<1>5. /\ tm' \in Seq(ControlPacket) /\ Len(tm') = Len(tm) - 1 /\ Len(tm) \in Nat
      /\ \A k \in DOMAIN tm' : k + 1 \in DOMAIN tm /\ tm'[k] = tm[k+1]
  BY <1>1 DEF IInv, TypeOK
<1>6. PositionInRange'
  BY <1>5 DEF IInv, PositionInRange, Period
<1>7. \A b \in Batch : PhaseInv(b)'
  BY <1>1 DEF IInv, PhaseInv, Period
<1> QED BY <1>1, <1>4, <1>5, <1>6, <1>7 DEF IInv, TypeOK

LEMMA NextIInv == IInv /\ [Next]_vars => IInv'
<1>1. IInv /\ UNCHANGED vars => IInv'
  BY DEF IInv, TypeOK, PositionInRange, PhaseInv, Period, vars
<1> QED BY <1>1, HyperperiodPacketIInv, GenerateIInv, EgressIInv DEF Next

LEMMA Inductive == Spec => []IInv
BY InitIInv, NextIInv, PTL DEF Spec
-----------------------------------------------------------------------------
\* Clock, registers, packets and gates keep their ranges.
THEOREM TypeCorrect == Spec => []TypeOK
<1>1. IInv => TypeOK
  BY DEF IInv
<1> QED BY <1>1, Inductive, PTL

\* No control packet misses the gate control list of its port.
THEOREM EveryPacketMatches == Spec => []NoMissedTimeSlot
<1>1. IInv => NoMissedTimeSlot
  <2> SUFFICES ASSUME IInv, NEW k \in DOMAIN tm
               PROVE  StatesAt(Gcl[tm[k].batch], tm[k].queue, tm[k].diff) # {}
    BY DEF NoMissedTimeSlot
  <2>1. tm[k] \in ControlPacket /\ tm[k].diff <= Period(tm[k].batch)
    BY DEF IInv, TypeOK, PositionInRange
  <2>2. tm[k].diff \in 0..Period(tm[k].batch)
    BY <2>1, ConstantFacts DEF ControlPacket
  <2> QED BY <2>1, <2>2, GclAssumption DEF Answered, ControlPacket, Period
<1> QED BY <1>1, Inductive, PTL

\* The position a control packet is given is its true one, whenever a packet
\* enters the pipeline.
THEOREM PositionsAreTrue == Spec => DiffIsPosition
<1> DEFINE P == \A b \in Batch, q \in Queue :
                  Len(tm') > Len(tm) /\ tm'[Len(tm')].batch = b =>
                    tm'[Len(tm')].diff = Position(b)'
<1>1. IInv /\ [Next]_vars => [P]_vars
  <2> SUFFICES ASSUME IInv, Next PROVE P
    OBVIOUS
  <2>1. tm \in Seq(ControlPacket) /\ Len(tm) \in Nat
    BY DEF IInv, TypeOK
  <2>2. ASSUME NEW b \in Batch, HyperperiodPacket(b) PROVE P
    BY <2>1, <2>2 DEF HyperperiodPacket
  <2>3. CASE GenerateControlPacket
    <3>1. PICK p \in ControlPacket : tm' = Append(tm, p) /\ p.diff = Position(p.batch)'
      BY <2>3, GenerateIInv
    <3>2. tm'[Len(tm')] = p
      BY <2>1, <3>1
    <3> QED BY <3>1, <3>2
  <2>4. CASE EgressControlPacket
    <3>1. Len(tm') < Len(tm) /\ Len(tm') \in Nat
      BY <2>4, EgressIInv DEF IInv, TypeOK
    <3> QED BY <2>1, <3>1
  <2> QED BY <2>2, <2>3, <2>4 DEF Next
<1> QED BY <1>1, Inductive, PTL DEF Spec, DiffIsPosition
-----------------------------------------------------------------------------
(***************************************************************************)
(* What the gates owe to the past.  Time is counted in control packets,    *)
(* which are at most MaxGap ns apart: the age of a gate is the number of   *)
(* packets that were generated after the one that set it.  Each position   *)
(* in the traffic manager or behind a gate is one that its port was at     *)
(* when the packet was generated.                                          *)
(***************************************************************************)
Round == NumBatches * NumQueues

\* Inverse to BatchOf and QueueOf.
Number(b, q) == b * NumQueues + q

\* The queue's next control packet is still to come or in the traffic manager.
Age(b, q) == Len(tm) + ((next - 1 - Number(b, q) - Len(tm)) % Round)

\* Port b was at position x at most D ns ago.
Past(b, x, D) ==
    IF ~started[b] THEN x = Period(b)
    ELSE \/ \E t \in (phase[b] - D)..phase[b] : x = Clamped(t, Period(b))
         \/ /\ phase[b] <= D
            /\ x \in 0..Period(b)
            /\ Period(b) - EarlyBy - x <= D
            /\ Period(b) - EarlyBy - x + phase[b] <= D

\* From position x port b may have come to position y within D ns.
Reach(b, x, y, D) ==
    \/ x <= y /\ y - x <= D
    \/ Period(b) - EarlyBy - x + y <= D

PacketsPast ==
    \A k \in DOMAIN tm : Past(tm[k].batch, tm[k].diff, (Len(tm) - k) * MaxGap)

PacketsNumbered ==
    \A k \in DOMAIN tm :
        Number(tm[k].batch, tm[k].queue) = (next - 1 - (Len(tm) - k)) % Round

PacketsReach ==
    \A j, k \in DOMAIN tm : j < k /\ tm[j].batch = tm[k].batch =>
        Reach(tm[j].batch, tm[j].diff, tm[k].diff, (k - j) * MaxGap)

\* pos[b][q] is the position of the control packet that set the gate.
GatesPast(pos) ==
    \A b \in Batch, q \in Queue : gate[b][q] # NoMessage =>
        /\ gate[b][q] \in StatesAt(Gcl[b], q, pos[b][q])
        /\ Past(b, pos[b][q], Age(b, q) * MaxGap)

GatesReachPackets(pos) ==
    \A b \in Batch, q \in Queue : gate[b][q] # NoMessage =>
        \A k \in DOMAIN tm : tm[k].batch = b =>
            Reach(b, pos[b][q], tm[k].diff, (Age(b, q) - (Len(tm) - k)) * MaxGap)

GatesReachGates(pos) ==
    \A b \in Batch, p, q \in Queue :
        gate[b][p] # NoMessage /\ gate[b][q] # NoMessage /\ Age(b, q) <= Age(b, p) =>
            Reach(b, pos[b][p], pos[b][q], (Age(b, p) - Age(b, q)) * MaxGap)

Gates(pos) == GatesPast(pos) /\ GatesReachPackets(pos) /\ GatesReachGates(pos)

HistoryInv ==
    /\ IInv
    /\ Len(tm) <= TmDepth
    /\ PacketsPast /\ PacketsNumbered /\ PacketsReach
    /\ \E pos \in [Batch -> [Queue -> Int]] : Gates(pos)
-----------------------------------------------------------------------------
\* The numbers of the control packets.
LEMMA RoundFacts ==
    /\ Round \in Nat \ {0} /\ NumQueues \in Nat \ {0} /\ NumQueues <= Round
    /\ TmDepth \in Nat \ {0} /\ MaxGap \in Nat \ {0} /\ EarlyBy \in Nat
<1>1. PICK k \in Nat \ {0}, m \in Nat \ {0} : k = NumQueues /\ m = NumBatches
  BY TasAssumption
<1>2. m * k \in Nat /\ m * k = k + (m - 1) * k /\ (m - 1) * k \in Nat
  OBVIOUS
<1> QED BY <1>1, <1>2, TasAssumption DEF Round

LEMMA NumberOf ==
    ASSUME NEW n \in 0 .. (Round - 1)
    PROVE  Number(BatchOf(n), QueueOf(n)) = n
<1>1. PICK k \in Nat \ {0}, a \in Int : k = NumQueues /\ a = n
  BY RoundFacts
<1>2. a = k * (a \div k) + (a % k) /\ (a \div k) \in Int
  BY DivMod
<1>3. k * (a \div k) = (a \div k) * k
  BY <1>2
<1> QED BY <1>1, <1>2, <1>3 DEF Number, BatchOf, QueueOf

LEMMA NumberType ==
    ASSUME NEW b \in Batch, NEW q \in Queue
    PROVE  Number(b, q) \in 0 .. (Round - 1)
<1>1. PICK k \in Nat \ {0}, m \in Nat \ {0} : k = NumQueues /\ m = NumBatches
  BY TasAssumption
<1>2. PICK d \in Nat : m = b + 1 + d /\ b \in Nat /\ q \in 0 .. (k - 1)
  <2>1. m - b - 1 \in Nat /\ m = b + 1 + (m - b - 1)
    BY <1>1 DEF Batch
  <2> QED BY <1>1, <2>1 DEF Batch, Queue
<1>3. m * k = b * k + k + d * k /\ b * k \in Nat /\ d * k \in Nat
  BY <1>2
<1>4. b * k + q \in 0 .. (m * k - 1)
  BY <1>2, <1>3
<1> QED BY <1>1, <1>4 DEF Number, Round

LEMMA NumberInjective ==
    ASSUME NEW b \in Batch, NEW q \in Queue, NEW c \in Batch, NEW p \in Queue,
           Number(b, q) = Number(c, p)
    PROVE  b = c /\ q = p
<1>1. PICK k \in Nat \ {0} : k = NumQueues
  BY TasAssumption
<1>2. PICK u \in Int, v \in Int, r \in 0 .. (k - 1), s \in 0 .. (k - 1) :
        u = b /\ v = c /\ r = q /\ s = p
  BY <1>1 DEF Batch, Queue
<1>3. PICK a \in Int : a = k * u + r /\ a = k * v + s
  <2>1. k * u + r = k * v + s /\ k * u + r \in Int
    BY <1>1, <1>2 DEF Number
  <2> QED BY <2>1
<1>4. (a \div k) = u /\ (a % k) = r
  BY <1>3, DivModUnique
<1>5. (a \div k) = v /\ (a % k) = s
  BY <1>3, DivModUnique
<1> QED BY <1>2, <1>4, <1>5

LEMMA AgeType ==
    ASSUME IInv, NEW b \in Batch, NEW q \in Queue
    PROVE  /\ Age(b, q) \in Nat /\ Len(tm) \in Nat
           /\ Len(tm) <= Age(b, q) /\ Age(b, q) <= Len(tm) + Round - 1
<1>1. PICK r \in Nat \ {0} : r = Round
  BY RoundFacts
<1>2. Len(tm) \in Nat /\ next \in Int /\ Number(b, q) \in Int
  BY NumberType DEF IInv, TypeOK
<1>3. PICK x \in Int : x = next - 1 - Number(b, q) - Len(tm)
  BY <1>2
<1>4. (x % r) \in 0 .. (r - 1)
  BY DivMod
<1> QED BY <1>1, <1>2, <1>3, <1>4 DEF Age

LEMMA OneMorePacket ==
    ASSUME NEW i \in Int, NEW j \in Int, NEW k \in Int
    PROVE  i - 1 - j - (k + 1) = i + (-2 - j - k)
OBVIOUS

\* Another control packet makes all gates older by one.
LEMMA AgeGrows ==
    ASSUME IInv, NEW b \in Batch, NEW q \in Queue, Len(tm') = Len(tm) + 1,
           next' = (next + 1) % Round
    PROVE  Age(b, q)' = Age(b, q) + 1
<1>1. PICK r \in Nat \ {0} : r = Round
  BY RoundFacts
<1>2. Len(tm) \in Nat /\ next \in Int /\ Number(b, q) \in Int
  BY NumberType DEF IInv, TypeOK
<1>3. PICK x \in Int, y \in Int :
        x = next + 1 /\ y = -2 - Number(b, q) - Len(tm)
  BY <1>2
<1>4. (((x % r) + y) % r) = ((x + y) % r)
  BY ModAdd
<1>5. next' = (x % r) /\ (x % r) \in Int
  BY <1>1, <1>3, DivMod
<1>6. (next' - 1 - Number(b, q) - Len(tm')) = (x % r) + y
  <2>1. PICK i \in Int, j \in Int, k \in Int :
          i = next' /\ j = Number(b, q) /\ k = Len(tm) /\ Len(tm') = k + 1
    <3>1. next' \in Int /\ Number(b, q) \in Int /\ Len(tm) \in Int
      BY <1>2, <1>5
    <3> QED BY <3>1
  <2>2. i - 1 - j - (k + 1) = i + (-2 - j - k)
    BY OneMorePacket
  <2>3. i = (x % r) /\ y = -2 - j - k
    BY <1>3, <1>5, <2>1
  <2> QED BY <2>1, <2>2, <2>3
<1>7. (next - 1 - Number(b, q) - Len(tm)) = x + y
  BY <1>2, <1>3
<1>8. Age(b, q)' = Len(tm') + ((next' - 1 - Number(b, q) - Len(tm')) % Round)
  BY DEF Age, Number, Round
<1>9. Age(b, q)' = Len(tm) + 1 + ((x + y) % r)
  BY <1>1, <1>4, <1>6, <1>8
<1>10. Age(b, q) = Len(tm) + ((x + y) % r)
  BY <1>1, <1>7 DEF Age
<1>11. ((x + y) % r) \in Int
  <2>1. PICK z \in Int : z = x + y
    OBVIOUS
  <2> QED BY <2>1, DivMod
<1> QED BY <1>2, <1>9, <1>10, <1>11

\* When a control packet leaves the traffic manager its gate gets the age of
\* that packet, and the ages of the others stay: in numbers, and for a gate.
LEMMA AgeWithoutHead ==
    ASSUME NEW r \in Nat \ {0}, NEW l \in Int, NEW n \in Int, NEW c \in 0 .. (r - 1)
    PROVE  (l - 1) + ((n - 1 - c - (l - 1)) % r) =
               IF c = ((n - 1 - (l - 1)) % r) THEN l - 1 ELSE l + ((n - 1 - c - l) % r)
<1>1. PICK x \in Int, y \in Int, z \in Int :
        /\ x = n - 1 - c - l /\ y = n - 1 - c - (l - 1) /\ z = n - 1 - (l - 1)
        /\ y = x + 1 /\ z = y + c
  OBVIOUS
<1>2. SUFFICES (l - 1) + (y % r) = IF c = (z % r) THEN l - 1 ELSE l + (x % r)
  BY <1>1
<1>3. PICK u \in Int, v \in 0 .. (r - 1) : x = r * u + v /\ (x % r) = v
  BY DivMod
<1>4. CASE v = r - 1
  <2>1. PICK w \in Int, o \in 0 .. (r - 1) : w = u + 1 /\ o = 0
    OBVIOUS
  <2>2. y = r * w + o /\ z = r * w + c
    BY <1>1, <1>3, <1>4, <2>1
  <2>3. (y % r) = o
    BY <2>2, DivModUnique
  <2>4. (z % r) = c
    BY <2>2, DivModUnique
  <2> QED BY <2>1, <2>3, <2>4
<1>5. CASE v < r - 1
  <2>1. PICK d \in 0 .. (r - 1) : d = v + 1
    BY <1>5
  <2>2. y = r * u + d /\ z = r * u + d + c
    BY <1>1, <1>3, <2>1
  <2>3. (y % r) = d
    BY <2>2, DivModUnique
  <2>4. (z % r) # c
    <3>1. CASE d + c < r
      <4>1. PICK e \in 0 .. (r - 1) : e = d + c
        BY <3>1
      <4>2. z = r * u + e
        BY <2>2, <4>1
      <4>3. (z % r) = e
        BY <4>2, DivModUnique
      <4> QED BY <2>1, <4>1, <4>3
    <3>2. CASE d + c >= r
      <4>1. PICK e \in 0 .. (r - 1), w \in Int : e = d + c - r /\ w = u + 1
        BY <3>2
      <4>2. z = r * w + e
        BY <2>2, <4>1
      <4>3. (z % r) = e
        BY <4>2, DivModUnique
      <4> QED BY <4>1, <4>3
    <3> QED BY <3>1, <3>2
  <2> QED BY <1>3, <2>1, <2>3, <2>4
<1> QED BY <1>4, <1>5

LEMMA AgeOfHead ==
    ASSUME IInv, NEW b \in Batch, NEW q \in Queue,
           Len(tm') = Len(tm) - 1, next' = next
    PROVE  Age(b, q)' = IF Number(b, q) = (next - 1 - (Len(tm) - 1)) % Round
                        THEN Len(tm) - 1 ELSE Age(b, q)
<1>1. PICK r \in Nat \ {0} : r = Round
  BY RoundFacts
<1>2. PICK l \in Int, n \in Int, c \in 0 .. (r - 1) :
        l = Len(tm) /\ n = next /\ c = Number(b, q)
  BY <1>1, NumberType DEF IInv, TypeOK
<1>3. (l - 1) + ((n - 1 - c - (l - 1)) % r) =
          IF c = ((n - 1 - (l - 1)) % r) THEN l - 1 ELSE l + ((n - 1 - c - l) % r)
  BY AgeWithoutHead
<1>4. Age(b, q)' = (l - 1) + ((n - 1 - c - (l - 1)) % r)
  <2>1. Age(b, q)' = Len(tm') + ((next' - 1 - Number(b, q) - Len(tm')) % Round)
    BY DEF Age, Number, Round
  <2>2. Len(tm') = l - 1 /\ next' = n
    BY <1>2
  <2> QED BY <1>1, <1>2, <2>1, <2>2
<1>5. Age(b, q) = l + ((n - 1 - c - l) % r)
  BY <1>1, <1>2 DEF Age
<1> QED BY <1>1, <1>2, <1>3, <1>4, <1>5

\* How many control packets lie between those that set two gates of a port.
LEMMA AgeDifference ==
    ASSUME IInv, NEW b \in Batch, NEW p \in Queue, NEW q \in Queue,
           Age(b, q) <= Age(b, p)
    PROVE  Age(b, p) - Age(b, q) = PacketsBetween(p, q)
<1>1. PICK r \in Nat \ {0} : r = Round
  BY RoundFacts
<1>2. PICK l \in Nat, n \in Int, c \in Int, d \in Int :
        l = Len(tm) /\ n = next /\ c = Number(b, p) /\ d = Number(b, q)
  BY NumberType DEF IInv, TypeOK
<1>3. PICK x \in Int, y \in Int : x = n - 1 - c - l /\ y = n - 1 - d - l
  OBVIOUS
<1>4. PICK i \in Int, v \in 0 .. (r - 1) : x = r * i + v /\ (x % r) = v
  BY DivMod
<1>5. PICK j \in Int, w \in 0 .. (r - 1) : y = r * j + w /\ (y % r) = w
  BY DivMod
<1>6. Age(b, p) = l + v /\ Age(b, q) = l + w
  BY <1>1, <1>2, <1>3, <1>4, <1>5 DEF Age
<1>7. PICK e \in 0 .. (r - 1), k \in Int, z \in Int : e = v - w /\ k = i - j /\ z = x - y
  <2>1. v - w >= 0
    BY <1>6
  <2> QED BY <2>1
<1>8. z = q - p
  <2>1. PICK h \in Int : h = b * NumQueues
    <3>1. PICK m \in Nat, o \in Nat : m = NumQueues /\ o = b
      BY RoundFacts DEF Batch
    <3>2. o * m \in Int
      OBVIOUS
    <3> QED BY <3>1, <3>2
  <2>2. c = h + p /\ d = h + q /\ p \in Int /\ q \in Int
    BY <1>2, <2>1, RoundFacts DEF Number, Queue
  <2> QED BY <1>3, <1>7, <2>2
<1>9. z = r * k + e
  BY <1>4, <1>5, <1>7
<1>10. (z % r) = e
  BY <1>9, DivModUnique
<1>11. Age(b, p) - Age(b, q) = e
  BY <1>6, <1>7
<1> QED BY <1>1, <1>8, <1>10, <1>11 DEF PacketsBetween, Round
-----------------------------------------------------------------------------
\* Time spans in control packets.
LEMMA Spans ==
    ASSUME NEW m \in Nat, NEW n \in Nat
    PROVE  /\ m * MaxGap \in Nat
           /\ (m + 1) * MaxGap = m * MaxGap + MaxGap
           /\ m <= n => m * MaxGap <= n * MaxGap
<1>1. PICK g \in Nat : g = MaxGap
  BY RoundFacts
<1>2. m * g \in Nat /\ (m + 1) * g = m * g + g
  OBVIOUS
<1>3. ASSUME m <= n PROVE m * g <= n * g
  <2>1. PICK d \in Nat : n = m + d
    <3>1. n - m \in Nat /\ n = m + (n - m)
      BY <1>3
    <3> QED BY <3>1
  <2>2. n * g = m * g + d * g /\ d * g \in Nat
    BY <2>1
  <2> QED BY <1>2, <2>2
<1> QED BY <1>1, <1>2, <1>3

\* A past position stays one: time passes, ...
LEMMA PastAdvances ==
    ASSUME NEW b \in Batch, phase[b] \in Int, NEW D \in Nat, NEW x, Past(b, x, D),
           NEW g \in 1..MaxGap, phase'[b] = phase[b] + g, started'[b] = started[b]
    PROVE  Past(b, x, D + MaxGap)'
<1>1. PICK p \in Nat, d \in Int : p = Period(b) /\ p = Period(b)' /\ d = phase[b]
  BY ConstantFacts DEF Period
<1>2. MaxGap \in Nat /\ EarlyBy \in Nat /\ g \in Int /\ g <= MaxGap /\ g >= 1
  BY RoundFacts
<1>3. CASE ~started[b]
  BY <1>1, <1>3 DEF Past
<1>4. CASE started[b]
  <2>1. CASE \E t \in (phase[b] - D)..phase[b] : x = Clamped(t, Period(b))
    <3>1. PICK t \in (phase[b] - D)..phase[b] : x = Clamped(t, Period(b))
      BY <2>1
    <3>2. t \in (phase'[b] - (D + MaxGap))..phase'[b]
      BY <1>2
    <3> QED BY <1>1, <1>4, <3>1, <3>2 DEF Past
  <2>2. CASE /\ phase[b] <= D /\ x \in 0..Period(b)
             /\ Period(b) - EarlyBy - x <= D /\ Period(b) - EarlyBy - x + phase[b] <= D
    <3>1. PICK y \in Int : y = x
      BY <1>1, <2>2
    <3>2. d <= D /\ y \in 0..p /\ p - EarlyBy - y <= D /\ p - EarlyBy - y + d <= D
      BY <1>1, <2>2, <3>1
    <3>3. d + g <= D + MaxGap /\ p - EarlyBy - y <= D + MaxGap
          /\ p - EarlyBy - y + (d + g) <= D + MaxGap
      BY <1>2, <3>2
    <3> QED BY <1>1, <1>4, <3>1, <3>2, <3>3 DEF Past
  <2> QED BY <1>4, <2>1, <2>2 DEF Past
<1> QED BY <1>3, <1>4

\* ... or the next hyperperiod of the port begins.
LEMMA PastRestarts ==
    ASSUME NEW b \in Batch, phase[b] \in Int, NEW D \in Nat, NEW x, Past(b, x, D),
           phase[b] >= Period(b) - EarlyBy,
           NEW s \in Nat, phase'[b] = -s, started'[b]
    PROVE  Past(b, x, D)'
<1>1. PICK p \in Nat, d \in Int : p = Period(b) /\ p = Period(b)' /\ d = phase[b]
  BY ConstantFacts DEF Period
<1>2. EarlyBy \in Nat
  BY RoundFacts
<1>3. x \in 0..p /\ p - EarlyBy - x <= D
  <2>1. CASE ~started[b]
    BY <1>1, <1>2, <2>1 DEF Past
  <2>2. CASE started[b] /\ \E t \in (phase[b] - D)..phase[b] : x = Clamped(t, Period(b))
    <3>1. PICK t \in (d - D)..d : x = Clamped(t, p)
      BY <1>1, <2>2
    <3>2. x \in 0..p /\ (t <= x \/ x = p)
      BY <3>1 DEF Clamped
    <3>3. PICK y \in Int : y = x
      BY <3>2
    <3> QED BY <1>1, <1>2, <3>1, <3>2, <3>3
  <2>3. CASE x \in 0..Period(b) /\ Period(b) - EarlyBy - x <= D
    BY <1>1, <2>3
  <2> QED BY <2>1, <2>2, <2>3 DEF Past
<1>4. PICK y \in 0..p : y = x
  BY <1>3
<1>5. -s <= D /\ p - EarlyBy - y + (-s) <= D
  BY <1>2, <1>3, <1>4
<1> QED BY <1>1, <1>3, <1>4, <1>5 DEF Past

\* Where the port is now it has been by now.
LEMMA PastBegins ==
    ASSUME NEW b \in Batch, phase'[b] \in Int, NEW x, x = Position(b)'
    PROVE  Past(b, x, 0)'
<1>1. PICK p \in Nat, d \in Int : p = Period(b) /\ p = Period(b)' /\ d = phase'[b]
  BY ConstantFacts DEF Period
<1>2. CASE ~started'[b]
  BY <1>2 DEF Past, Position
<1>3. CASE started'[b]
  <2>1. x = Clamped(d, p)
    BY <1>1, <1>3 DEF Position, Clamped
  <2>2. d \in (d - 0)..d
    OBVIOUS
  <2> QED BY <1>1, <1>3, <2>1, <2>2 DEF Past
<1> QED BY <1>2, <1>3

\* From a past position the port has come to where it is now.
LEMMA PastReaches ==
    ASSUME NEW b \in Batch, phase'[b] \in Int, NEW D \in Nat, NEW x, Past(b, x, D)',
           NEW y, y = Position(b)'
    PROVE  Reach(b, x, y, D)
<1>1. PICK p \in Nat, d \in Int : p = Period(b) /\ p = Period(b)' /\ d = phase'[b]
  BY ConstantFacts DEF Period
<1>2. EarlyBy \in Nat
  BY RoundFacts
<1>3. CASE ~started'[b]
  <2>1. x = p /\ y = p
    BY <1>1, <1>3 DEF Past, Position
  <2>2. p <= p /\ p - p <= D
    OBVIOUS
  <2> QED BY <2>1, <2>2 DEF Reach
<1>4. CASE started'[b]
  <2>1. y = Clamped(d, p)
    BY <1>1, <1>4 DEF Position, Clamped
  <2>2. CASE \E t \in (d - D)..d : x = Clamped(t, p)
    <3>1. PICK t \in (d - D)..d : x = Clamped(t, p)
      BY <2>2
    <3>2. Clamped(t, p) <= Clamped(d, p) /\ Clamped(d, p) - Clamped(t, p) <= D
      BY <3>1 DEF Clamped
    <3> QED BY <2>1, <3>1, <3>2 DEF Reach
  <2>3. CASE x \in 0..p /\ p - EarlyBy - x <= D /\ p - EarlyBy - x + d <= D
    <3>1. PICK z \in 0..p : z = x /\ p - EarlyBy - z <= D /\ p - EarlyBy - z + d <= D
      BY <2>3
    <3>2. Clamped(d, p) \in Int /\ (Clamped(d, p) <= d \/ Clamped(d, p) <= 0)
      BY DEF Clamped
    <3>3. p - EarlyBy - z + Clamped(d, p) <= D
      BY <1>2, <3>1, <3>2
    <3> QED BY <1>1, <2>1, <3>1, <3>3 DEF Reach
  <2> QED BY <1>1, <1>4, <2>2, <2>3 DEF Past
<1> QED BY <1>3, <1>4
-----------------------------------------------------------------------------
LEMMA InitHistory == Init => HistoryInv
<1> SUFFICES ASSUME Init PROVE HistoryInv
  OBVIOUS
<1>1. IInv /\ Len(tm) <= TmDepth
  BY InitIInv, RoundFacts DEF Init
<1>2. PacketsPast /\ PacketsNumbered /\ PacketsReach
  BY DEF Init, PacketsPast, PacketsNumbered, PacketsReach
<1>3. Gates([b \in Batch |-> [q \in Queue |-> 0]])
  BY DEF Init, Gates, GatesPast, GatesReachPackets, GatesReachGates
<1> QED BY <1>1, <1>2, <1>3 DEF HistoryInv

\* The ages of the packets in the traffic manager are numbers.
LEMMA PacketAges ==
    ASSUME IInv, NEW k \in DOMAIN tm
    PROVE  /\ Len(tm) \in Nat /\ k \in 1..Len(tm) /\ Len(tm) - k \in Nat
           /\ tm[k] \in ControlPacket /\ tm[k].batch \in Batch /\ tm[k].queue \in Queue
           /\ tm[k].diff \in Nat
<1>1. tm \in Seq(ControlPacket)
  BY DEF IInv, TypeOK
<1>2. Len(tm) \in Nat /\ k \in 1..Len(tm) /\ tm[k] \in ControlPacket
  BY <1>1
<1>3. Len(tm) - k \in Nat
  BY <1>2
<1> QED BY <1>2, <1>3 DEF ControlPacket

LEMMA HyperperiodHistory ==
    ASSUME HistoryInv, IInv', NEW b \in Batch, HyperperiodPacket(b)
    PROVE  HistoryInv'
<1>1. PICK s \in Nat : phase' = [phase EXCEPT ![b] = -s]
  <2>1. 0..Skew \subseteq Nat
    OBVIOUS
  <2> QED BY <2>1 DEF HyperperiodPacket
<1>2. /\ started' = [started EXCEPT ![b] = TRUE] /\ phase[b] >= Period(b) - EarlyBy
      /\ next' = next /\ tm' = tm /\ gate' = gate
  BY DEF HyperperiodPacket
<1>3. ASSUME NEW c \in Batch, NEW x, NEW D \in Nat, Past(c, x, D) PROVE Past(c, x, D)'
  <2>1. phase[c] \in Int
    BY DEF HistoryInv, IInv, TypeOK
  <2>2. CASE c = b
    <3>1. phase'[b] = -s /\ started'[b]
      BY <1>1, <1>2 DEF HistoryInv, IInv, TypeOK
    <3> QED BY <1>2, <1>3, <2>1, <2>2, <3>1, PastRestarts
  <2>3. CASE c # b
    <3>1. phase'[c] = phase[c] /\ started'[c] = started[c]
      BY <1>1, <1>2, <2>3 DEF HistoryInv, IInv, TypeOK
    <3> QED BY <1>3, <3>1 DEF Past, Period
  <2> QED BY <2>2, <2>3
<1>4. PacketsPast'
  <2> SUFFICES ASSUME NEW k \in DOMAIN tm
               PROVE  Past(tm[k].batch, tm[k].diff, (Len(tm) - k) * MaxGap)'
    BY <1>2 DEF PacketsPast
  <2>1. tm[k].batch \in Batch /\ tm[k].diff \in Nat /\ Len(tm) - k \in Nat
        /\ Past(tm[k].batch, tm[k].diff, (Len(tm) - k) * MaxGap)
    BY PacketAges DEF HistoryInv, PacketsPast
  <2>2. PICK c \in Batch, x, D \in Nat :
          c = tm[k].batch /\ x = tm[k].diff /\ D = (Len(tm) - k) * MaxGap
    <3>1. (Len(tm) - k) * MaxGap \in Nat
      BY <2>1, Spans
    <3> QED BY <2>1, <3>1
  <2>3. Past(c, x, D)'
    BY <1>3, <2>1, <2>2
  <2>4. tm'[k].batch = c /\ tm'[k].diff = x /\ (Len(tm') - k) * MaxGap = D
    BY <1>2, <2>2
  <2> QED BY <2>3, <2>4 DEF Past, Period
<1>5. PacketsNumbered' /\ PacketsReach'
  BY <1>2 DEF HistoryInv, PacketsNumbered, PacketsReach, Number, Round, Reach, Period
<1>6. ASSUME NEW c \in Batch, NEW q \in Queue PROVE Age(c, q)' = Age(c, q)
  BY <1>2 DEF Age, Number, Round
<1>7. PICK pos \in [Batch -> [Queue -> Int]] : Gates(pos)
  BY DEF HistoryInv
<1>8. GatesPast(pos)'
  <2> SUFFICES ASSUME NEW c \in Batch, NEW q \in Queue, gate'[c][q] # NoMessage
               PROVE  /\ gate'[c][q] \in StatesAt(Gcl[c], q, pos[c][q])
                      /\ Past(c, pos[c][q], Age(c, q) * MaxGap)'
    BY DEF GatesPast
  <2>1. /\ gate[c][q] \in StatesAt(Gcl[c], q, pos[c][q])
        /\ Past(c, pos[c][q], Age(c, q) * MaxGap)
    BY <1>2, <1>7 DEF Gates, GatesPast
  <2>2. PICK D \in Nat : D = Age(c, q) * MaxGap
    BY Spans, AgeType DEF HistoryInv
  <2>3. Past(c, pos[c][q], D)'
    BY <1>3, <2>1, <2>2
  <2> QED BY <1>2, <1>6, <2>1, <2>2, <2>3 DEF Past, Period
<1>9. GatesReachPackets(pos)' /\ GatesReachGates(pos)'
  BY <1>2, <1>6, <1>7 DEF Gates, GatesReachPackets, GatesReachGates, Reach, Period
<1> QED BY <1>2, <1>4, <1>5, <1>7, <1>8, <1>9 DEF HistoryInv, Gates

\* The number of a packet that was generated n packets before the next one.
LEMMA NumberStays ==
    ASSUME NEW r \in Nat \ {0}, NEW m \in Int, NEW n \in Int
    PROVE  (((m + 1) % r) - 1 - (n + 1)) % r = (m - 1 - n) % r
<1>1. PICK x \in Int, y \in Int : x = m + 1 /\ y = -1 - (n + 1)
  OBVIOUS
<1>2. (((x % r) + y) % r) = ((x + y) % r)
  BY ModAdd
<1>3. (x % r) \in Int
  BY DivMod
<1>4. ((m + 1) % r) - 1 - (n + 1) = (x % r) + y /\ m - 1 - n = x + y
  BY <1>1, <1>3
<1> QED BY <1>2, <1>4

LEMMA GenerateHistory ==
    ASSUME HistoryInv, GenerateControlPacket
    PROVE  HistoryInv'
<1>1. IInv /\ IInv'
  BY GenerateIInv DEF HistoryInv
<1>2. PICK p \in ControlPacket :
        /\ tm' = Append(tm, p) /\ p.diff = Position(p.batch)'
        /\ p.batch = BatchOf(next) /\ p.queue = QueueOf(next)
  BY <1>1, GenerateIInv
<1>3. PICK g \in 1..MaxGap : phase' = [b \in Batch |-> phase[b] + g]
  BY DEF GenerateControlPacket
<1>4. /\ started' = started /\ gate' = gate /\ next' = (next + 1) % Round
      /\ Len(tm) < TmDepth
  BY DEF GenerateControlPacket, Round
<1>5. PICK l \in Nat : l = Len(tm)
  BY DEF HistoryInv, IInv, TypeOK
<1>6. /\ Len(tm') = l + 1 /\ DOMAIN tm = 1..l /\ DOMAIN tm' = 1..(l + 1)
      /\ \A k \in 1..l : tm'[k] = tm[k] /\ tm[k] \in ControlPacket
      /\ tm'[l + 1] = p
  BY <1>2, <1>5 DEF HistoryInv, IInv, TypeOK
<1>7. ASSUME NEW c \in Batch, NEW x, NEW n \in Nat, Past(c, x, n * MaxGap)
      PROVE  Past(c, x, (n + 1) * MaxGap)'
  <2>1. phase[c] \in Int /\ phase'[c] = phase[c] + g
    BY <1>1, <1>3 DEF IInv, TypeOK
  <2>2. PICK D \in Nat : D = n * MaxGap /\ (n + 1) * MaxGap = D + MaxGap
    BY Spans
  <2>3. Past(c, x, D)
    BY <1>7, <2>2
  <2>4. Past(c, x, D + MaxGap)'
    BY <1>4, <2>1, <2>3, PastAdvances
  <2> QED BY <2>2, <2>4
<1>8. ASSUME NEW c \in Batch PROVE phase'[c] \in Int
  BY <1>1 DEF IInv, TypeOK
<1>9. p.batch \in Batch /\ p.queue \in Queue /\ p.diff \in Nat
  BY DEF ControlPacket
<1>10. ASSUME NEW k \in 1..l
       PROVE  Past(tm[k].batch, tm[k].diff, (Len(tm) - k) * MaxGap)'
  <2>1. tm[k].batch \in Batch /\ l - k \in Nat
        /\ Past(tm[k].batch, tm[k].diff, (l - k) * MaxGap)
    BY <1>1, <1>5, <1>6, PacketAges DEF HistoryInv, PacketsPast
  <2>2. PICK c \in Batch, x \in {tm[k].diff}, n \in Nat : c = tm[k].batch /\ n = l - k
    BY <2>1
  <2>3. Past(c, x, (n + 1) * MaxGap)'
    BY <1>7, <2>1, <2>2
  <2>4. tm'[k].batch = c /\ tm'[k].diff = x /\ Len(tm') - k = n + 1
    BY <1>6, <2>2
  <2> QED BY <2>3, <2>4 DEF Past, Period
<1>11. Past(p.batch, p.diff, 0)'
  <2>1. PICK c \in Batch, x \in Nat : c = p.batch /\ x = p.diff
    BY <1>9
  <2>2. Past(c, x, 0)'
    BY <1>2, <1>8, <2>1, PastBegins
  <2> QED BY <2>1, <2>2
<1>12. PacketsPast'
  <2>1. Past(tm[l + 1].batch, tm[l + 1].diff, (Len(tm) - (l + 1)) * MaxGap)'
    <3>1. (Len(tm') - (l + 1)) * MaxGap = 0
      BY <1>6, RoundFacts
    <3>2. tm'[l + 1] = p
      BY <1>6
    <3> QED BY <1>11, <3>1, <3>2 DEF Past, Period
  <2>2. \A k \in DOMAIN tm' : k \in 1..l \/ k = l + 1
    BY <1>6
  <2> QED BY <1>10, <2>1, <2>2 DEF PacketsPast
<1>13. next \in 0 .. (Round - 1)
  BY <1>1 DEF IInv, TypeOK, Round
<1>14. PacketsNumbered'
  <2>1. ASSUME NEW k \in 1..l
        PROVE  Number(tm'[k].batch, tm'[k].queue) = (next' - 1 - (Len(tm') - k)) % Round
    <3>1. PICK r \in Nat \ {0}, m \in Int, n \in Int : r = Round /\ m = next /\ n = l - k
      BY <1>13, RoundFacts
    <3>2. Number(tm[k].batch, tm[k].queue) = (m - 1 - n) % r
      BY <1>5, <1>6, <3>1 DEF HistoryInv, PacketsNumbered
    <3>3. (((m + 1) % r) - 1 - (n + 1)) % r = (m - 1 - n) % r
      BY NumberStays
    <3>4. Len(tm') - k = n + 1 /\ next' = ((m + 1) % r) /\ tm'[k] = tm[k]
      BY <1>4, <1>6, <3>1
    <3> QED BY <3>1, <3>2, <3>3, <3>4
  <2>2. Number(p.batch, p.queue) = (next' - 1 - (Len(tm') - (l + 1))) % Round
    <3> PICK r \in Nat \ {0} : r = Round
      BY RoundFacts
    <3>1. PICK m \in 0 .. (r - 1), n \in Int : r = Round /\ m = next /\ n = -1
      BY <1>13
    <3>2. Number(p.batch, p.queue) = m
      BY <1>2, <1>13, <3>1, NumberOf
    <3>3. (((m + 1) % r) - 1 - (n + 1)) % r = (m - 1 - n) % r
      <4>1. m \in Int
        OBVIOUS
      <4> QED BY <4>1, NumberStays
    <3>4. (m % r) = m /\ m - 1 - n = m
      BY <3>1, ModSmall
    <3>5. Len(tm') - (l + 1) = n + 1 /\ next' = ((m + 1) % r)
      BY <1>4, <1>6, <3>1
    <3> QED BY <3>1, <3>2, <3>3, <3>4, <3>5
  <2>3. \A k \in DOMAIN tm' : k \in 1..l \/ k = l + 1
    BY <1>6
  <2>4. \A k \in DOMAIN tm' :
          Number(tm'[k].batch, tm'[k].queue) = (next' - 1 - (Len(tm') - k)) % Round
    BY <1>6, <2>1, <2>2, <2>3
  <2> QED BY <2>4 DEF PacketsNumbered, Number, Round
\* What was there reaches the position of the new packet.
<1>15. ASSUME NEW c \in Batch, NEW x, NEW n \in Nat, p.batch = c, Past(c, x, n * MaxGap)
       PROVE  Reach(c, x, p.diff, (n + 1) * MaxGap)
  <2>1. PICK D \in Nat : D = (n + 1) * MaxGap
    <3>1. n + 1 \in Nat
      OBVIOUS
    <3> QED BY <3>1, Spans
  <2>2. PICK y \in Nat : y = p.diff
    BY <1>9
  <2>3. Past(c, x, D)'
    BY <1>7, <1>15, <2>1
  <2>4. y = Position(c)'
    BY <1>2, <1>15, <2>2
  <2>5. Reach(c, x, y, D)
    BY <1>8, <2>3, <2>4, PastReaches
  <2> QED BY <2>1, <2>2, <2>5
<1>16. PacketsReach'
  <2> SUFFICES ASSUME NEW j \in DOMAIN tm', NEW k \in DOMAIN tm', j < k,
                      tm'[j].batch = tm'[k].batch
               PROVE  Reach(tm'[j].batch, tm'[j].diff, tm'[k].diff, (k - j) * MaxGap)
    BY DEF PacketsReach, Reach, Period
  <2>1. j \in 1..l /\ tm'[j] = tm[j] /\ tm[j].batch \in Batch
    BY <1>6 DEF ControlPacket
  <2>2. CASE k \in 1..l
    <3>1. tm'[k] = tm[k] /\ j \in DOMAIN tm /\ k \in DOMAIN tm
      BY <1>6, <2>1, <2>2
    <3> QED BY <2>1, <3>1 DEF HistoryInv, PacketsReach
  <2>3. CASE k = l + 1
    <3>1. PICK n \in Nat, c \in Batch : n = l - j /\ c = tm[j].batch
      BY <2>1
    <3>2. Past(c, tm[j].diff, n * MaxGap)
      BY <1>5, <1>6, <2>1, <3>1 DEF HistoryInv, PacketsPast
    <3>3. p.batch = c /\ tm'[k] = p
      BY <1>6, <2>1, <2>3, <3>1
    <3>4. Reach(c, tm[j].diff, p.diff, (n + 1) * MaxGap)
      BY <1>15, <3>2, <3>3
    <3>5. k - j = n + 1
      BY <2>1, <2>3, <3>1
    <3> QED BY <2>1, <3>1, <3>3, <3>4, <3>5
  <2>4. k \in 1..l \/ k = l + 1
    BY <1>6
  <2> QED BY <2>2, <2>3, <2>4
<1>17. PICK pos \in [Batch -> [Queue -> Int]] : Gates(pos)
  BY DEF HistoryInv
<1>18. ASSUME NEW c \in Batch, NEW q \in Queue
       PROVE  Age(c, q)' = Age(c, q) + 1 /\ Age(c, q) \in Nat
  BY <1>1, <1>4, <1>5, <1>6, AgeGrows, AgeType
<1>19. GatesPast(pos)'
  <2> SUFFICES ASSUME NEW c \in Batch, NEW q \in Queue, gate'[c][q] # NoMessage
               PROVE  /\ gate'[c][q] \in StatesAt(Gcl[c], q, pos[c][q])
                      /\ Past(c, pos[c][q], Age(c, q) * MaxGap)'
    BY DEF GatesPast
  <2>1. /\ gate[c][q] \in StatesAt(Gcl[c], q, pos[c][q])
        /\ Past(c, pos[c][q], Age(c, q) * MaxGap)
    BY <1>4, <1>17 DEF Gates, GatesPast
  <2>2. PICK n \in Nat : n = Age(c, q) /\ Age(c, q)' = n + 1
    BY <1>18
  <2>3. Past(c, pos[c][q], (n + 1) * MaxGap)'
    BY <1>7, <2>1, <2>2
  <2> QED BY <1>4, <2>1, <2>2, <2>3 DEF Past, Period
<1>20. GatesReachPackets(pos)'
  <2> SUFFICES ASSUME NEW c \in Batch, NEW q \in Queue, gate'[c][q] # NoMessage,
                      NEW k \in DOMAIN tm', tm'[k].batch = c
               PROVE  Reach(c, pos[c][q], tm'[k].diff,
                            (Age(c, q)' - (Len(tm') - k)) * MaxGap)
    BY DEF GatesReachPackets, Reach, Period
  <2>1. gate[c][q] # NoMessage
    BY <1>4
  <2>2. PICK n \in Nat : n = Age(c, q) /\ Age(c, q)' = n + 1
    BY <1>18
  <2>3. CASE k \in 1..l
    <3>1. tm'[k] = tm[k] /\ k \in DOMAIN tm
      BY <1>6, <2>3
    <3>2. Reach(c, pos[c][q], tm[k].diff, (n - (l - k)) * MaxGap)
      BY <1>5, <1>17, <2>1, <2>2, <3>1 DEF Gates, GatesReachPackets
    <3>3. Age(c, q)' - (Len(tm') - k) = n - (l - k)
      BY <1>6, <2>2, <2>3
    <3> QED BY <3>1, <3>2, <3>3
  <2>4. CASE k = l + 1
    <3>1. p.batch = c /\ tm'[k] = p
      BY <1>6, <2>4
    <3>2. Past(c, pos[c][q], n * MaxGap)
      BY <1>17, <2>1, <2>2 DEF Gates, GatesPast
    <3>3. Reach(c, pos[c][q], p.diff, (n + 1) * MaxGap)
      BY <1>15, <3>1, <3>2
    <3>4. Age(c, q)' - (Len(tm') - k) = n + 1
      BY <1>6, <2>2, <2>4
    <3> QED BY <3>1, <3>3, <3>4
  <2>5. k \in 1..l \/ k = l + 1
    BY <1>6
  <2> QED BY <2>3, <2>4, <2>5
<1>21. GatesReachGates(pos)'
  <2> SUFFICES ASSUME NEW c \in Batch, NEW o \in Queue, NEW q \in Queue,
                      gate'[c][o] # NoMessage, gate'[c][q] # NoMessage,
                      Age(c, q)' <= Age(c, o)'
               PROVE  Reach(c, pos[c][o], pos[c][q], (Age(c, o)' - Age(c, q)') * MaxGap)
    BY DEF GatesReachGates, Reach, Period
  <2>1. PICK m \in Nat, n \in Nat : /\ m = Age(c, o) /\ Age(c, o)' = m + 1
                                    /\ n = Age(c, q) /\ Age(c, q)' = n + 1
    BY <1>18
  <2>2. Reach(c, pos[c][o], pos[c][q], (m - n) * MaxGap)
    BY <1>4, <1>17, <2>1 DEF Gates, GatesReachGates
  <2>3. Age(c, o)' - Age(c, q)' = m - n
    BY <2>1
  <2> QED BY <2>2, <2>3
<1>22. Len(tm') <= TmDepth
  BY <1>4, <1>5, <1>6, RoundFacts
<1> QED BY <1>1, <1>12, <1>14, <1>16, <1>17, <1>19, <1>20, <1>21, <1>22 DEF HistoryInv, Gates

LEMMA EgressHistory ==
    ASSUME HistoryInv, EgressControlPacket
    PROVE  HistoryInv'
<1>1. IInv /\ IInv'
  BY EgressIInv DEF HistoryInv
<1>2. /\ tm # <<>> /\ tm' = Tail(tm)
      /\ phase' = phase /\ started' = started /\ next' = next
  BY DEF EgressControlPacket, ApplyGateControlList
<1>3. PICK l \in Nat : l = Len(tm)
  BY <1>1 DEF IInv, TypeOK
<1>4. /\ l >= 1 /\ Len(tm') = l - 1 /\ DOMAIN tm = 1..l /\ DOMAIN tm' = 1..(l - 1)
      /\ \A k \in 1..(l - 1) : tm'[k] = tm[k+1] /\ k+1 \in 1..l
      /\ 1 \in 1..l /\ Head(tm) = tm[1]
  BY <1>1, <1>2, <1>3 DEF IInv, TypeOK
<1>5. PICK b \in Batch, q \in Queue, d \in Nat :
        b = tm[1].batch /\ q = tm[1].queue /\ d = tm[1].diff
  BY <1>1, <1>4, PacketAges
<1>6. PICK st \in StatesAt(Gcl[b], q, d) : gate' = [gate EXCEPT ![b][q] = st]
  <2>1. StatesAt(Gcl[b], q, d) # {}
    <3>1. d \in 0..Gcl[b].period
      BY <1>1, <1>4, <1>5, ConstantFacts DEF IInv, PositionInRange, Period
    <3> QED BY <3>1, GclAssumption DEF Answered
  <2> QED BY <1>4, <1>5, <2>1 DEF EgressControlPacket, ApplyGateControlList
<1>7. gate \in [Batch -> [Queue -> {Open, Closed, NoMessage}]]
  BY <1>1 DEF IInv, TypeOK
<1>8. /\ gate'[b][q] = st
      /\ \A c \in Batch, o \in Queue : ~(c = b /\ o = q) => gate'[c][o] = gate[c][o]
  BY <1>6, <1>7
<1>9. ASSUME NEW c, NEW x, NEW D, Past(c, x, D) PROVE Past(c, x, D)'
  BY <1>2, <1>9 DEF Past, Period
<1>10. PacketsPast'
  <2> SUFFICES ASSUME NEW k \in 1..(l - 1)
               PROVE  Past(tm[k].batch, tm[k].diff, (Len(tm) - k) * MaxGap)'
    BY <1>4 DEF PacketsPast
  <2>1. Past(tm[k+1].batch, tm[k+1].diff, (l - (k+1)) * MaxGap)
    BY <1>3, <1>4 DEF HistoryInv, PacketsPast
  <2>2. tm'[k] = tm[k+1] /\ Len(tm') - k = l - (k+1)
    BY <1>4
  <2>3. Past(tm'[k].batch, tm'[k].diff, (Len(tm') - k) * MaxGap)
    BY <2>1, <2>2
  <2> QED BY <1>2, <2>3 DEF Past, Period
<1>11. PacketsNumbered'
  <2> SUFFICES ASSUME NEW k \in 1..(l - 1)
               PROVE  Number(tm'[k].batch, tm'[k].queue) = (next' - 1 - (Len(tm') - k)) % Round
    BY <1>4 DEF PacketsNumbered, Number, Round
  <2>1. Number(tm[k+1].batch, tm[k+1].queue) = (next - 1 - (l - (k+1))) % Round
    BY <1>3, <1>4 DEF HistoryInv, PacketsNumbered
  <2>2. tm'[k] = tm[k+1] /\ Len(tm') - k = l - (k+1)
    BY <1>4
  <2> QED BY <1>2, <2>1, <2>2
<1>12. PacketsReach'
  <2> SUFFICES ASSUME NEW j \in 1..(l - 1), NEW k \in 1..(l - 1), j < k,
                      tm'[j].batch = tm'[k].batch
               PROVE  Reach(tm'[j].batch, tm'[j].diff, tm'[k].diff, (k - j) * MaxGap)
    BY <1>4 DEF PacketsReach, Reach, Period
  <2>1. tm'[j] = tm[j+1] /\ tm'[k] = tm[k+1] /\ j+1 < k+1 /\ (k+1) - (j+1) = k - j
        /\ j+1 \in DOMAIN tm /\ k+1 \in DOMAIN tm
    BY <1>4
  <2>2. Reach(tm[j+1].batch, tm[j+1].diff, tm[k+1].diff, ((k+1) - (j+1)) * MaxGap)
    BY <2>1 DEF HistoryInv, PacketsReach
  <2> QED BY <2>1, <2>2
\* Only the gate of the packet gets another age.
<1>13. Age(b, q)' = l - 1 /\ Age(b, q) \in Nat
  <2>1. Number(b, q) = (next - 1 - (Len(tm) - 1)) % Round
    BY <1>4, <1>5 DEF HistoryInv, PacketsNumbered
  <2> QED BY <1>1, <1>2, <1>3, <1>4, <2>1, AgeOfHead, AgeType
<1>14. ASSUME NEW c \in Batch, NEW o \in Queue, ~(c = b /\ o = q)
       PROVE  Age(c, o)' = Age(c, o) /\ Age(c, o) \in Nat /\ l <= Age(c, o)
  <2>1. Number(b, q) = (next - 1 - (Len(tm) - 1)) % Round
    BY <1>4, <1>5 DEF HistoryInv, PacketsNumbered
  <2>2. Number(c, o) # (next - 1 - (Len(tm) - 1)) % Round
    BY <1>14, <2>1, NumberInjective
  <2> QED BY <1>1, <1>2, <1>3, <1>4, <2>2, AgeOfHead, AgeType
<1>15. PICK old \in [Batch -> [Queue -> Int]] : Gates(old)
  BY DEF HistoryInv
<1> DEFINE pos == [old EXCEPT ![b][q] = d]
<1>16. /\ pos \in [Batch -> [Queue -> Int]] /\ pos[b][q] = d
       /\ \A c \in Batch, o \in Queue : ~(c = b /\ o = q) => pos[c][o] = old[c][o]
  OBVIOUS
<1> HIDE DEF pos
<1>17. GatesPast(pos)'
  <2> SUFFICES ASSUME NEW c \in Batch, NEW o \in Queue, gate'[c][o] # NoMessage
               PROVE  /\ gate'[c][o] \in StatesAt(Gcl[c], o, pos[c][o])
                      /\ Past(c, pos[c][o], Age(c, o) * MaxGap)'
    BY DEF GatesPast
  <2>1. CASE c = b /\ o = q
    <3>1. Past(b, d, (l - 1) * MaxGap)
      BY <1>3, <1>4, <1>5 DEF HistoryInv, PacketsPast
    <3>2. Past(b, d, (l - 1) * MaxGap)'
      BY <1>9, <3>1
    <3> QED BY <1>8, <1>13, <1>16, <2>1, <3>2 DEF Past, Period
  <2>2. CASE ~(c = b /\ o = q)
    <3>1. /\ gate[c][o] \in StatesAt(Gcl[c], o, old[c][o])
          /\ Past(c, old[c][o], Age(c, o) * MaxGap)
      BY <1>8, <1>15, <2>2 DEF Gates, GatesPast
    <3>2. PICK a \in Nat : a = Age(c, o) /\ Age(c, o)' = a
      BY <1>14, <2>2
    <3>3. Past(c, old[c][o], a * MaxGap)'
      BY <1>9, <3>1, <3>2
    <3> QED BY <1>8, <1>16, <2>2, <3>1, <3>2, <3>3 DEF Past, Period
  <2> QED BY <2>1, <2>2
<1>18. GatesReachPackets(pos)'
  <2> SUFFICES ASSUME NEW c \in Batch, NEW o \in Queue, gate'[c][o] # NoMessage,
                      NEW k \in 1..(l - 1), tm'[k].batch = c
               PROVE  Reach(c, pos[c][o], tm'[k].diff,
                            (Age(c, o)' - (Len(tm') - k)) * MaxGap)
    BY <1>4 DEF GatesReachPackets, Reach, Period
  <2>1. tm'[k] = tm[k+1] /\ k+1 \in DOMAIN tm /\ Len(tm') - k = l - (k+1)
    BY <1>4
  <2>2. CASE c = b /\ o = q
    <3>1. Reach(b, d, tm[k+1].diff, ((k+1) - 1) * MaxGap)
      <4>1. PICK j \in Int : j = k + 1 /\ j \in DOMAIN tm /\ 1 \in DOMAIN tm /\ 1 < j
        BY <1>4, <2>1
      <4>2. tm[1].batch = b /\ tm[1].diff = d /\ tm[j].batch = tm[1].batch
        BY <1>5, <2>1, <2>2, <4>1
      <4>3. Reach(tm[1].batch, tm[1].diff, tm[j].diff, (j - 1) * MaxGap)
        BY <4>1, <4>2 DEF HistoryInv, PacketsReach
      <4> QED BY <4>1, <4>2, <4>3
    <3>2. Age(b, q)' - (Len(tm') - k) = (k+1) - 1
      BY <1>13, <2>1
    <3> QED BY <1>16, <2>1, <2>2, <3>1, <3>2
  <2>3. CASE ~(c = b /\ o = q)
    <3>1. PICK a \in Nat : a = Age(c, o) /\ Age(c, o)' = a
      BY <1>14, <2>3
    <3>2. Reach(c, old[c][o], tm[k+1].diff, (a - (l - (k+1))) * MaxGap)
      BY <1>3, <1>8, <1>15, <2>1, <2>3, <3>1 DEF Gates, GatesReachPackets
    <3> QED BY <1>16, <2>1, <2>3, <3>1, <3>2
  <2> QED BY <2>2, <2>3
<1>19. GatesReachGates(pos)'
  <2> SUFFICES ASSUME NEW c \in Batch, NEW o \in Queue, NEW p \in Queue,
                      gate'[c][o] # NoMessage, gate'[c][p] # NoMessage,
                      Age(c, p)' <= Age(c, o)'
               PROVE  Reach(c, pos[c][o], pos[c][p], (Age(c, o)' - Age(c, p)') * MaxGap)
    BY DEF GatesReachGates, Reach, Period
  <2>1. CASE o = p
    <3>1. PICK a \in Nat, x \in Int : a = Age(c, o)' /\ x = pos[c][o]
      <4>1. CASE c = b /\ o = q
        <5>1. Age(c, o)' = Age(b, q)'
          BY <4>1 DEF Age, Number
        <5>2. Age(c, o)' \in Nat
          BY <1>4, <1>13, <5>1
        <5> QED BY <1>16, <5>2
      <4>2. CASE ~(c = b /\ o = q)
        <5>1. Age(c, o)' \in Nat
          BY <1>14, <4>2
        <5> QED BY <1>16, <5>1
      <4> QED BY <4>1, <4>2
    <3>2. (a - a) * MaxGap = 0
      BY RoundFacts
    <3>3. Reach(c, x, x, 0)
      BY DEF Reach
    <3> QED BY <2>1, <3>1, <3>2, <3>3
  <2>2. CASE o # p /\ c = b /\ o = q
    <3>1. Age(c, p)' = Age(c, p) /\ Age(c, p) \in Nat /\ l <= Age(c, p)
      BY <1>14, <2>2
    <3> QED BY <1>13, <2>2, <3>1
  <2>3. CASE ~(c = b /\ o = q) /\ c = b /\ p = q
    <3>1. PICK a \in Nat : a = Age(c, o) /\ Age(c, o)' = a
      BY <1>14, <2>3
    <3>2. Reach(c, old[c][o], d, (a - (l - 1)) * MaxGap)
      <4>1. gate[c][o] # NoMessage /\ 1 \in DOMAIN tm /\ tm[1].batch = c
        BY <1>4, <1>5, <1>8, <2>3
      <4>2. Reach(c, old[c][o], tm[1].diff, (Age(c, o) - (Len(tm) - 1)) * MaxGap)
        BY <1>15, <4>1 DEF Gates, GatesReachPackets
      <4> QED BY <1>3, <1>5, <3>1, <4>2
    <3> QED BY <1>13, <1>16, <2>3, <3>1, <3>2
  <2>4. CASE ~(c = b /\ o = q) /\ ~(c = b /\ p = q)
    <3>1. PICK m \in Nat, n \in Nat : /\ m = Age(c, o) /\ Age(c, o)' = m
                                      /\ n = Age(c, p) /\ Age(c, p)' = n
      BY <1>14, <2>4
    <3>2. Reach(c, old[c][o], old[c][p], (m - n) * MaxGap)
      BY <1>8, <1>15, <2>4, <3>1 DEF Gates, GatesReachGates
    <3> QED BY <1>16, <2>4, <3>1, <3>2
  <2> QED BY <2>1, <2>2, <2>3, <2>4
<1>20. Len(tm') <= TmDepth
  BY <1>3, <1>4, RoundFacts DEF HistoryInv
<1> QED BY <1>1, <1>10, <1>11, <1>12, <1>16, <1>17, <1>18, <1>19, <1>20 DEF HistoryInv, Gates

LEMMA NextHistory == HistoryInv /\ [Next]_vars => HistoryInv'
<1> SUFFICES ASSUME HistoryInv, [Next]_vars PROVE HistoryInv'
  OBVIOUS
<1>1. IInv'
  BY NextIInv DEF HistoryInv
<1>2. CASE UNCHANGED vars
  <2>1. UNCHANGED <<phase, started, next, tm, gate>>
    BY <1>2 DEF vars
  <2>2. /\ PacketsPast' /\ PacketsNumbered' /\ PacketsReach' /\ Len(tm') <= TmDepth
    BY <2>1 DEF HistoryInv, PacketsPast, PacketsNumbered, PacketsReach, Past, Reach, Number,
                Round, Period
  <2>3. \A pos : Gates(pos) => Gates(pos)'
    BY <2>1 DEF Gates, GatesPast, GatesReachPackets, GatesReachGates, Past, Reach, Age, Number,
                Round, Period
  <2> QED BY <1>1, <2>2, <2>3 DEF HistoryInv
<1> QED BY <1>1, <1>2, HyperperiodHistory, GenerateHistory, EgressHistory DEF Next

LEMMA HistoryInductive == Spec => []HistoryInv
BY InitHistory, NextHistory, PTL DEF Spec
-----------------------------------------------------------------------------
(***************************************************************************)
(* The shaper implements ScheduledGates: no gate is older than a round of  *)
(* control packets and those in the traffic manager.                       *)
(***************************************************************************)
MaxDelay == (Round + TmDepth - 1) * MaxGap

\* A position of at most MaxDelay ns ago is a recent one.
LEMMA PastIsRecent ==
    ASSUME NEW b \in Batch, phase[b] \in Int, NEW D \in Nat, D <= MaxDelay,
           NEW x, Past(b, x, D)
    PROVE  x \in Scheduled!RecentPositions(b)
<1>1. PICK p \in Nat, d \in Int : p = Gcl[b].period /\ p = Period(b) /\ d = phase[b]
  BY ConstantFacts DEF Period
<1>2. PICK m \in Nat : m = MaxDelay
  BY RoundFacts, Spans DEF MaxDelay
<1>3. MaxDelay = (NumBatches * NumQueues + TmDepth - 1) * MaxGap
  BY DEF MaxDelay, Round
<1>4. \A t : Scheduled!Clamp(b, t) = Clamped(t, p)
  BY <1>1 DEF Scheduled!Clamp, Clamped
<1>5. CASE ~started[b]
  BY <1>1, <1>5 DEF Past, Scheduled!RecentPositions
<1>6. CASE started[b] /\ \E t \in (d - D)..d : x = Clamped(t, p)
  <2>1. PICK t \in (d - D)..d : x = Clamped(t, p)
    BY <1>6
  <2>2. t \in (d - m)..d
    BY <1>2
  <2>3. x \in {Scheduled!Clamp(b, u) : u \in (phase[b] - m)..phase[b]}
    BY <1>1, <1>4, <2>1, <2>2
  <2> QED BY <1>2, <1>3, <1>6, <2>3 DEF Scheduled!RecentPositions
<1>7. CASE started[b] /\ d <= D /\ x \in 0..p /\ p - EarlyBy - x + d <= D
  <2>1. PICK y \in 0..p : y = x /\ p - EarlyBy - y + d <= D
    BY <1>7
  <2>2. y \in (p - EarlyBy - (m - d))..p /\ Clamped(y, p) = y /\ ~(d > m)
    BY <1>2, <1>7, <2>1, RoundFacts DEF Clamped
  <2>3. x \in {Scheduled!Clamp(b, u) : u \in (p - EarlyBy - (m - d))..p}
    BY <1>4, <2>1, <2>2
  <2> QED BY <1>1, <1>2, <1>3, <1>7, <2>2, <2>3 DEF Scheduled!RecentPositions
<1> QED BY <1>1, <1>5, <1>6, <1>7 DEF Past

\* Both modules read the gate control list the same way.
LEMMA SameStates == \A gcl, q, d : Scheduled!StatesAt(gcl, q, d) = StatesAt(gcl, q, d)
BY DEF StatesAt, Within, Scheduled!StatesAt, Scheduled!Within

LEMMA GatesAreRecent == HistoryInv => Scheduled!NoGateOutdated
<1> SUFFICES ASSUME HistoryInv, NEW b \in Batch, NEW q \in Queue, gate[b][q] # NoMessage
             PROVE  gate[b][q] \in Scheduled!RecentStates(b, q)
  BY DEF Scheduled!NoGateOutdated, NoMessage
<1>1. PICK pos \in [Batch -> [Queue -> Int]] : Gates(pos)
  BY DEF HistoryInv
<1>2. /\ gate[b][q] \in StatesAt(Gcl[b], q, pos[b][q])
      /\ Past(b, pos[b][q], Age(b, q) * MaxGap)
  BY <1>1 DEF Gates, GatesPast
<1>3. PICK a \in Nat, m \in Nat : a = Age(b, q) /\ m = Round + TmDepth - 1 /\ a <= m
  <2>1. /\ Age(b, q) \in Nat /\ Len(tm) \in Nat /\ Len(tm) <= TmDepth
        /\ Age(b, q) <= Len(tm) + Round - 1
    BY AgeType DEF HistoryInv
  <2> QED BY <2>1, RoundFacts
<1>4. a * MaxGap \in Nat /\ a * MaxGap <= MaxDelay
  BY <1>3, Spans DEF MaxDelay
<1>5. phase[b] \in Int
  BY DEF HistoryInv, IInv, TypeOK
<1>6. pos[b][q] \in Scheduled!RecentPositions(b)
  BY <1>2, <1>3, <1>4, <1>5, PastIsRecent
<1> QED BY <1>2, <1>6, SameStates DEF Scheduled!RecentStates

\* A control packet sets its gate to a state of a recent position.
LEMMA EgressSwitches ==
    ASSUME HistoryInv, EgressControlPacket
    PROVE  \E b \in Batch, q \in Queue : Scheduled!SwitchGate(b, q)
<1>1. IInv /\ 1 \in DOMAIN tm /\ Head(tm) = tm[1] /\ Len(tm) \in Nat
  <2>1. tm \in Seq(ControlPacket) /\ tm # <<>>
    BY DEF HistoryInv, IInv, TypeOK, EgressControlPacket
  <2> QED BY <2>1 DEF HistoryInv
<1>2. PICK b \in Batch, q \in Queue, d \in Nat :
        b = tm[1].batch /\ q = tm[1].queue /\ d = tm[1].diff
  BY <1>1, PacketAges
<1>3. PICK n \in Nat : n = Len(tm) - 1 /\ n <= Round + TmDepth - 1
  <2>1. Len(tm) - 1 \in Nat /\ Len(tm) \in Nat /\ Len(tm) <= TmDepth
    BY <1>1, PacketAges DEF HistoryInv
  <2>2. Len(tm) - 1 <= Round + TmDepth - 1
    BY <2>1, RoundFacts
  <2> QED BY <2>1, <2>2
<1>4. n * MaxGap \in Nat /\ n * MaxGap <= MaxDelay
  <2>1. PICK m \in Nat : m = Round + TmDepth - 1
    BY RoundFacts
  <2> QED BY <1>3, <2>1, Spans DEF MaxDelay
<1>5. Past(b, d, n * MaxGap)
  BY <1>1, <1>2, <1>3 DEF HistoryInv, PacketsPast
<1>6. d \in Scheduled!RecentPositions(b)
  BY <1>1, <1>4, <1>5, PastIsRecent DEF IInv, TypeOK
<1>7. PICK s \in StatesAt(Gcl[b], q, d) : gate' = [gate EXCEPT ![b][q] = s]
  <2>1. StatesAt(Gcl[b], q, d) # {}
    <3>1. d \in 0..Gcl[b].period
      BY <1>1, <1>2, ConstantFacts DEF IInv, PositionInRange, Period
    <3> QED BY <3>1, GclAssumption DEF Answered
  <2> QED BY <1>1, <1>2, <2>1 DEF EgressControlPacket, ApplyGateControlList
<1>8. s \in Scheduled!RecentStates(b, q)
  BY <1>6, <1>7, SameStates DEF Scheduled!RecentStates
<1>9. UNCHANGED <<phase, started>>
  BY DEF EgressControlPacket, ApplyGateControlList
<1> QED BY <1>7, <1>8, <1>9 DEF Scheduled!SwitchGate

\* Every step of the shaper is a step of gates that follow the schedule.
LEMMA StepFollows ==
    ASSUME HistoryInv, Scheduled!NoGateOutdated', [Next]_vars
    PROVE  [Scheduled!Next]_(Scheduled!vars)
<1>1. CASE UNCHANGED vars
  BY <1>1 DEF vars, Scheduled!vars
<1>2. ASSUME NEW b \in Batch, HyperperiodPacket(b) PROVE Scheduled!NewHyperperiod(b)
  BY <1>2 DEF HyperperiodPacket, Scheduled!NewHyperperiod, Period
<1>3. CASE GenerateControlPacket
  <2>1. Scheduled!Advance
    BY <1>3 DEF GenerateControlPacket, Scheduled!Advance
  <2> QED BY <2>1 DEF Scheduled!Next
<1>4. CASE EgressControlPacket
  BY <1>4, EgressSwitches DEF Scheduled!Next
<1> QED BY <1>1, <1>2, <1>3, <1>4 DEF Next, Scheduled!Next

\* The shaper implements gates that follow the schedule: at any time each gate is
\* in a state its gate control list held for the queue at most MaxDelay ns before,
\* for any number of ports, queues and packets in the traffic manager.
THEOREM FollowsSchedule == Spec => GatesFollowSchedule
<1>1. Init => Scheduled!Init
  BY DEF Init, Scheduled!Init, NoMessage
<1> QED
  BY <1>1, HistoryInductive, GatesAreRecent, StepFollows, PTL
     DEF Spec, GatesFollowSchedule, Scheduled!Spec
-----------------------------------------------------------------------------
\* Two gates are open, the one of p no later set than that of q: then the guard
\* bands are too narrow, or a time slice opens both.
LEMMA OpenInTurn ==
    ASSUME HistoryInv, GuardBandsWide, NEW b \in Batch, NEW p \in Queue, NEW q \in Queue,
           p # q, gate[b][p] = Open, gate[b][q] = Open, Age(b, q) <= Age(b, p)
    PROVE  OpenTogether(Gcl[b], p, q)
<1> SUFFICES ASSUME ~OpenTogether(Gcl[b], p, q) PROVE FALSE
  OBVIOUS
<1>1. PICK pos \in [Batch -> [Queue -> Int]] : Gates(pos)
  BY DEF HistoryInv
<1>2. PICK x \in Int, y \in Int : x = pos[b][p] /\ y = pos[b][q]
  OBVIOUS
<1>3. Open \in StatesAt(Gcl[b], p, x) /\ Open \in StatesAt(Gcl[b], q, y)
  BY <1>1, <1>2 DEF Gates, GatesPast, Open, NoMessage
<1>4. PICK j \in DOMAIN Gcl[b].time_slices :
        Within(Gcl[b].time_slices[j], x) /\ Opens(Gcl[b].time_slices[j], p)
  BY <1>3 DEF StatesAt, Opens, Open
<1>5. PICK k \in DOMAIN Gcl[b].time_slices :
        Within(Gcl[b].time_slices[k], y) /\ Opens(Gcl[b].time_slices[k], q)
  BY <1>3 DEF StatesAt, Opens, Open
<1>6. PICK a \in Nat : a = PacketsBetween(p, q) /\ Age(b, p) - Age(b, q) = a
  <2>1. Age(b, p) - Age(b, q) \in Nat
    BY AgeType DEF HistoryInv
  <2> QED BY <2>1, AgeDifference DEF HistoryInv
<1>7. PICK delay \in Nat : delay = a * MaxGap
  BY Spans
<1>8. Reach(b, x, y, delay)
  BY <1>1, <1>2, <1>6, <1>7 DEF Gates, GatesReachGates, Open, NoMessage
<1>9. PICK lj \in Nat, hj \in Nat, lk \in Nat, hk \in Nat :
        /\ lj = Gcl[b].time_slices[j].low /\ hj = Gcl[b].time_slices[j].high
        /\ lk = Gcl[b].time_slices[k].low /\ hk = Gcl[b].time_slices[k].high
  BY <1>4, <1>5, TasAssumption
<1>10. /\ hk < lj \/ lk - hj > delay
       /\ (Period(b) - EarlyBy - hj) + lk > delay
  BY <1>4, <1>5, <1>6, <1>7, <1>9 DEF GuardBandsWide, OpensLater, Period
<1>11. lj <= x /\ x <= hj /\ lk <= y /\ y <= hk
  BY <1>2, <1>4, <1>5, <1>9 DEF Within
<1>12. PICK c \in Nat : c = Period(b)
  BY ConstantFacts
<1>13. (x <= y /\ y - x <= delay) \/ c - EarlyBy - x + y <= delay
  BY <1>8, <1>12 DEF Reach
<1>14. (hk < lj \/ lk - hj > delay) /\ (c - EarlyBy - hj) + lk > delay
  BY <1>10, <1>12
<1> QED BY <1>7, <1>9, <1>11, <1>12, <1>13, <1>14, RoundFacts

\* Queues that no time slice opens together are never open together, whatever
\* the traffic manager delays, if the guard bands are as wide as GuardBandsWide
\* says: MCTasGates checks that of the list it runs.
THEOREM OpenAlone == ASSUME GuardBandsWide PROVE Spec => []GatesExclusive
<1>1. HistoryInv => GatesExclusive
  <2> SUFFICES ASSUME HistoryInv, NEW b \in Batch, NEW p \in Queue, NEW q \in Queue,
                      p # q, gate[b][p] = Open, gate[b][q] = Open
               PROVE  OpenTogether(Gcl[b], p, q)
    BY DEF GatesExclusive
  <2>1. Age(b, p) <= Age(b, q) \/ Age(b, q) <= Age(b, p)
    BY AgeType DEF HistoryInv
  <2>2. OpenTogether(Gcl[b], q, p) => OpenTogether(Gcl[b], p, q)
    BY DEF OpenTogether
  <2> QED BY <2>1, <2>2, OpenInTurn
<1> QED BY <1>1, HistoryInductive, PTL
=============================================================================
