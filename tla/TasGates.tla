------------------------------ MODULE TasGates ------------------------------
(***************************************************************************)
(* The time-aware shaper of P4-TAS, from the packet generator to the gates *)
(* of the traffic manager.                                                 *)
(*                                                                         *)
(*  - For every port with a tGCL a timer of the packet generator emits a   *)
(*    hyperperiod packet once per period; the ingress pipeline stores its  *)
(*    time stamp in the port's register.                                   *)
(*  - The generator fills the remaining time with control packets: one     *)
(*    batch per port, one packet per queue.  The ingress pipeline computes *)
(*    the packet's position in the hyperperiod (module DeltaAdjustment)    *)
(*    and sends it through the traffic manager to a recirculation port.    *)
(*  - In egress the packet is matched against the gate control list and    *)
(*    opens or closes the gate of its queue by advanced flow control.      *)
(***************************************************************************)
EXTENDS DeltaAdjustment, GateControlLists

CONSTANTS NumBatches,   \* ports with a tGCL; batch ids 0..NumBatches-1
          NumQueues,    \* packets per batch: 8 in the code
          Gcl,          \* Gcl[b]: the tGCL in the tables for batch b
          StartTimes,   \* clock values at which packet generation is enabled
          MaxGap,       \* control packets are 1..MaxGap ns apart
          EarlyBy,      \* a hyperperiod timer may fire this much early ...
          LateBy,       \* ... or late
          Skew,         \* a hyperperiod packet's time stamp may be this much
                        \* later than that of a control packet behind it
          TmDepth       \* control packets inside the traffic manager, at most

Batch == 0 .. (NumBatches - 1)
Queue == 0 .. (NumQueues - 1)
Period(b) == Gcl[b].period

ASSUME TasAssumption ==
    /\ NumBatches \in Nat \ {0} /\ NumQueues \in Nat \ {0}
    /\ MaxGap \in Nat \ {0} /\ TmDepth \in Nat \ {0}
    /\ EarlyBy \in Nat /\ LateBy \in Nat /\ Skew \in Nat
    /\ StartTimes \subseteq Timestamp
    /\ DOMAIN Gcl = Batch
    /\ \A b \in Batch : Gcl[b].period \in Nat
    /\ \A b \in Batch : \A k \in DOMAIN Gcl[b].time_slices :
            Gcl[b].time_slices[k].low \in Nat /\ Gcl[b].time_slices[k].high \in Nat

\* The positions the adjustment is built for: a hyperperiod ends before the
\* difference looks like an underflow, and no skew looks like a position.
ASSUME HorizonAssumption ==
    /\ Skew <= SwitchUnderflow
    /\ \A b \in Batch : Gcl[b].period + LateBy < MaxUnderflow

\* Generation starts when the clock shows more than a period, and far enough
\* from its wrap for the first hyperperiod packet to come before it: a register
\* that is still 0 then looks like a hyperperiod that is over.
ASSUME StartAssumption ==
    \A t \in StartTimes, b \in Batch :
        /\ Gcl[b].period <= t
        /\ t + Gcl[b].period + LateBy < ClockMod - SwitchUnderflow

\* The configured slices leave no queue without a state at any position.
ASSUME GclAssumption ==
    \A b \in Batch : Answered(Gcl[b], Queue)

VARIABLES now,           \* ingress MAC time stamps are taken from this clock
          phase,         \* phase[b]: time since the hyperperiod time stamp of b
          started,       \* started[b]: a hyperperiod packet of b was processed
          hyperperiodTs, \* register tas_lower/higher_last_ts, per port
          next,          \* number of the next control packet within all batches
          tm,            \* control packets between ingress and egress
          gate           \* gate[b][q]: the state of the queue's gate

vars == <<now, phase, started, hyperperiodTs, next, tm, gate>>

Open == 0
Closed == 1
NoMessage == 2       \* no flow control message has reached the gate yet

ControlPacket == [batch : Batch, queue : Queue, diff : Nat]
-----------------------------------------------------------------------------
\* Packet generation has been enabled.  The registers were cleared by
\* reset_packet_generator.
Init ==
    /\ now \in StartTimes
    /\ phase = [b \in Batch |-> 0]
    /\ started = [b \in Batch |-> FALSE]
    /\ hyperperiodTs = [b \in Batch |-> 0]
    /\ next = 0
    /\ tm = <<>>
    /\ gate = [b \in Batch |-> [q \in Queue |-> NoMessage]]

\* Mutant: only the lower half of the time stamp is stored.
MutWriteHyperperiodTsHalf(b, ts) ==
    hyperperiodTs' = [hyperperiodTs EXCEPT ![b] = ts % (ClockMod \div 2)]

\* tas_get_and_set_lower_last_ts and tas_get_and_set_higher_last_ts.
WriteHyperperiodTs(b, ts) == hyperperiodTs' = [hyperperiodTs EXCEPT ![b] = ts]

\* The timer of port b has fired: its time stamp goes to the port's register,
\* and the packet is dropped.
HyperperiodPacket(b) ==
    /\ phase[b] >= Period(b) - EarlyBy
    /\ \E s \in 0..Skew :
         /\ WriteHyperperiodTs(b, (now + s) % ClockMod)
         /\ phase' = [phase EXCEPT ![b] = -s]
    /\ started' = [started EXCEPT ![b] = TRUE]
    /\ UNCHANGED <<now, next, tm, gate>>

\* Mutant: packets of all batches look up the register of the first port.
MutEnterPipelineFirstPort(b, q, ts) ==
    tm' = Append(tm, [batch |-> b, queue |-> q,
                      diff |-> DiffTs(ts, hyperperiodTs[0], Period(b))])

\* Ingress: the batch id selects register and duration, the position is put
\* into the gcl_time header, the traffic manager takes the packet.
EnterPipeline(b, q, ts) ==
    tm' = Append(tm, [batch |-> b, queue |-> q,
                      diff |-> DiffTs(ts, hyperperiodTs[b], Period(b))])

\* Mutant: packets_per_batch_cfg = NumQueues - 2, one packet short.
MutQueueOfShort(n) == n % (NumQueues - 1)

\* packet_id and batch_id of the n-th control packet: one batch per port, one
\* packet per queue.
QueueOf(n) == n % NumQueues
BatchOf(n) == n \div NumQueues

\* The generator emits the next control packet, before any timer is overdue.
GenerateControlPacket ==
    /\ Len(tm) < TmDepth
    /\ \E g \in 1..MaxGap :
         /\ \A b \in Batch : phase[b] + g <= Period(b) + LateBy
         /\ now' = (now + g) % ClockMod
         /\ phase' = [b \in Batch |-> phase[b] + g]
    /\ EnterPipeline(BatchOf(next), QueueOf(next), now')
    /\ next' = (next + 1) % (NumBatches * NumQueues)
    /\ UNCHANGED <<started, hyperperiodTs, gate>>

\* Mutant: only opening is signalled.
MutApplyGclOpensOnly(p) ==
    /\ tm' = Tail(tm)
    /\ \E s \in StatesAt(Gcl[p.batch], p.queue, p.diff) :
            gate' = IF s = Closed THEN gate
                    ELSE [gate EXCEPT ![p.batch][p.queue] = s]
    /\ UNCHANGED <<now, phase, started, hyperperiodTs, next>>

\* Egress: gate_control_list sets the gate by open_queue or close_queue; on a
\* miss, missed_time_slot leaves it alone.  The packet is dropped.
ApplyGateControlList(p) ==
    /\ tm' = Tail(tm)
    /\ \/ \E s \in StatesAt(Gcl[p.batch], p.queue, p.diff) :
            gate' = [gate EXCEPT ![p.batch][p.queue] = s]
       \/ /\ StatesAt(Gcl[p.batch], p.queue, p.diff) = {}
          /\ gate' = gate
    /\ UNCHANGED <<now, phase, started, hyperperiodTs, next>>

EgressControlPacket ==
    /\ tm # <<>>
    /\ ApplyGateControlList(Head(tm))

Next ==
    \/ \E b \in Batch : HyperperiodPacket(b)
    \/ GenerateControlPacket
    \/ EgressControlPacket

\* The timers, the generator and the traffic manager never stop.
Fairness ==
    /\ \A b \in Batch : WF_vars(HyperperiodPacket(b))
    /\ WF_vars(GenerateControlPacket)
    /\ WF_vars(EgressControlPacket)

Spec == Init /\ [][Next]_vars
FairSpec == Spec /\ Fairness
-----------------------------------------------------------------------------
TypeOK ==
    /\ now \in Timestamp
    /\ phase \in [Batch -> Int]
    /\ started \in [Batch -> BOOLEAN]
    /\ hyperperiodTs \in [Batch -> Timestamp]
    /\ next \in 0 .. (NumBatches * NumQueues - 1)
    /\ tm \in Seq(ControlPacket)
    /\ gate \in [Batch -> [Queue -> {Open, Closed, NoMessage}]]

\* The position in the hyperperiod of port b by the true time: the end of the
\* period until the first hyperperiod packet and whenever the next is late.
Position(b) ==
    IF ~started[b] \/ phase[b] > Period(b) THEN Period(b)
    ELSE IF phase[b] < 0 THEN 0
    ELSE phase[b]

\* The position a control packet is given, out of two wrapping time stamps, is
\* the true one: across the wrap of the clock, before the first hyperperiod
\* packet, with a hyperperiod packet that is late, early, or stamped later than
\* the control packet behind it (DeltaAdjustment.p4).
DiffIsPosition ==
    [][ \A b \in Batch, q \in Queue :
          Len(tm') > Len(tm) /\ tm'[Len(tm')].batch = b =>
            tm'[Len(tm')].diff = Position(b)' ]_vars

\* No control packet misses the gate control list, so that each one sets its
\* gate (the default action missed_time_slot, TAS.p4:42-44, 60).
NoMissedTimeSlot ==
    \A k \in DOMAIN tm : StatesAt(Gcl[tm[k].batch], tm[k].queue, tm[k].diff) # {}

\* Queues that no time slice opens together are never open together.  A gate
\* closes only when the next control packet of its queue comes, so this rests
\* on the guard bands (insert_tas_gsi, TAS.p4).
GatesExclusive ==
    \A b \in Batch : \A p, q \in Queue :
        p # q /\ gate[b][p] = Open /\ gate[b][q] = Open => OpenTogether(Gcl[b], p, q)

\* The guard bands that takes: a slice that opens queue q comes later after one
\* that opens queue p than the next control packet of q after one of p.
PacketsBetween(p, q) == (q - p) % (NumBatches * NumQueues)

GuardBandsWide ==
    \A b \in Batch : \A p, q \in Queue : p # q /\ ~OpenTogether(Gcl[b], p, q) =>
        OpensLater(Gcl[b], p, q, PacketsBetween(p, q) * MaxGap, EarlyBy)

\* Each gate takes each state that a time slice or guard band holds for it, in
\* every period again.
GatesKeepSwitching ==
    \A b \in Batch, q \in Queue :
        \A s \in UNION {StatesAt(Gcl[b], q, d) : d \in 0..Period(b)} :
            []<>(gate[b][q] = s)
-----------------------------------------------------------------------------
\* The shaper implements gates that follow the schedule with a bounded delay:
\* the time between two packets of a queue, and in the traffic manager.
Scheduled == INSTANCE ScheduledGates
                 WITH Latency <- (NumBatches * NumQueues + TmDepth - 1) * MaxGap

GatesFollowSchedule == Scheduled!Spec
=============================================================================
