--------------------------- MODULE TasMeasurement ---------------------------
(***************************************************************************)
(* The measurement in the egress pipeline of how long the first frame      *)
(* takes after its queue was opened (TAS.p4).  Control packets note        *)
(* changes of the queue state, frames take a sample.  The registers have   *)
(* 256 entries, but control packets of every queue and port use entry 0.   *)
(***************************************************************************)
EXTENDS TasGates

VARIABLES queueState,  \* queue_state[0]: 1 after a control packet that opens
          measure,     \* reg_dequeue_ts_measurement[pcp]: take a sample
          samples      \* samples since the gate of queue 0 last opened

mvars == <<vars, queueState, measure, samples>>

MInit ==
    /\ Init
    /\ queueState = 0
    /\ measure = [q \in Queue |-> FALSE]
    /\ samples = 0

\* read_and_set_queue_state, set_lower_last_ts, activate_dequeue_measurement.
RecordQueueState(new) ==
    /\ queueState' = new
    /\ measure' = IF queueState # new /\ new = 1
                  THEN [measure EXCEPT ![0] = TRUE] ELSE measure

\* A control packet in egress.  eg_md.new_queue_state stays 0 on a miss.
MEgressControlPacket ==
    /\ tm # <<>>
    /\ LET p == Head(tm) IN
         /\ ApplyGateControlList(p)
         /\ RecordQueueState(
              IF /\ StatesAt(Gcl[p.batch], p.queue, p.diff) # {}
                 /\ gate'[p.batch][p.queue] = Open
              THEN 1 ELSE 0)
    /\ samples' = IF gate'[0][0] = Open /\ gate[0][0] # Open THEN 0 ELSE samples

\* A frame leaves through an open gate: it clears the mark of its priority, and
\* for priority 0 the time since the opening goes into the time series.
FrameDequeued(b, q) ==
    /\ gate[b][q] = Open
    /\ measure' = [measure EXCEPT ![q] = FALSE]
    /\ samples' = IF measure[q] /\ q = 0 /\ samples < 2 THEN samples + 1 ELSE samples
    /\ UNCHANGED <<vars, queueState>>

MNext ==
    \/ /\ \/ \E b \in Batch : HyperperiodPacket(b)
          \/ GenerateControlPacket
       /\ UNCHANGED <<queueState, measure, samples>>
    \/ MEgressControlPacket
    \/ \E b \in Batch, q \in Queue : FrameDequeued(b, q)

MSpec == MInit /\ [][MNext]_mvars
-----------------------------------------------------------------------------
\* TAS.p4:163: "Write the difference to the register, only for the first packet
\* after queue opened".
FirstPacketOnly == samples <= 1
=============================================================================
