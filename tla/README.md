# P4-TAS in TLA+

P4-TAS makes a time-aware shaper (IEEE 802.1Qbv) and per-stream filtering and
policing (IEEE 802.1Qci, PSFP) out of a Tofino 2 switch: a P4 program, and a
controller in Rust that fills its tables and keeps its clock in step with a PTP
master. This directory holds TLA+ models of the program, TLC configurations that
check them on small instances, and TLAPS proofs of what matters most for every
value of the constants.

Paths are relative to `src/implementation/`. `tlc -config X.cfg M` repeats a run,
`tlapm M.tla` a proof; `PROJECT.json` names the lines each definition models.

## The system

| Component | State | Operations | Models |
|---|---|---|---|
| Range splitting: `tas.rs` 46-97, the same loop in `stream_gate_schedule.rs` 14-71 | `cur`, the entries so far | one iteration per ternary entry | `RangeToTernary`, called by `GateTables` |
| Hyperperiod table: `delta_adjustment.rs` 34-74 | bit index, entries | one iteration per bit | `HyperperiodExceeded`, called by `GateTables` |
| Configuration: `configuration.rs`, `types.rs` | tGCLs, sGCLs, app ids, batch mappings | insert guard bands, hand out app ids, build entries | `GuardBands`, `GateControlLists`; ids and mappings in `Startup` |
| Gate control list of the tables: `tas.rs` 181-244, `afc.rs` | table `gate_control_list` | write the entries of every slice and queue | `GateTables`; what they answer, in `GateControlLists` |
| Packet generator: `packet_generator.rs` | applications, port configuration | reset, activate, configure ids, enable | `Startup`; what it emits, in `TasGates` and `Psfp` |
| Position in the hyperperiod: `TSN.p4`, `DeltaAdjustment.p4` | 48-bit time stamp register per port and per stream gate | hyperperiod packet writes, every other packet reads and subtracts | `DeltaAdjustment`, `TasGates`, `Psfp` |
| Shaper in egress: `TAS.p4` | gates of the traffic manager, measurement registers | a control packet sets a gate; a frame takes a sample | `TasGates`, `TasMeasurement` |
| PTP monitor: `ptp.rs` 600-1290 | `SyncState`, `SyncTimes`, `TimestampTracker`, sequence number | Sync, Follow_Up, Delay_Resp, Delay_Req, polling for T3, expiry | `PtpExchange` |
| PTP servo: `ptp.rs` 1290-1472 | base epoch, sample counter, correction, increment | a sample | `PtpServo` (offset and status), `FrequencyTuning` (frequency) |
| Activation: `ptp.rs` 1474-1593 | deadline | status, wake-up, end of the channel | `PktgenActivation` |
| PTP in the data plane: `PTP.p4`, `egress.p4` | TX time stamp register | append the receive time, capture the sending time, correct passing messages | `PtpExchange`, `PtpTransparentClock` |
| PSFP: `StreamIdentification.p4`, `StreamGate.p4`, `FlowMeter.p4`, filled by the controller's PSFP controls | bits that block a gate or a meter, octets, meters | one frame | `Psfp`, `ScheduledPolicer`, `PsfpOctets` (the octet registers abstracted) |
| Start-up: `main.rs` 35-376 | all tables, registers and applications | clear, load, reset, activate, write, spawn the tasks | `Startup`; the tasks in `PktgenActivation` |
| Evaluation program: `bin/evaluate_ternary_entries.rs` | | count the entries of equal slices | `TernaryEvaluation` |
| Parser, forwarding, unused controls (`IPv4.p4`, `StreamFilter.p4`, `ControlTrafficMeasurement.p4`), debug readers (`main.rs` 434-628) | | | not modelled |
| Measurement program: `p4-tas-measurement/` | time stamps on another switch | | not modelled |

How they interact: the controller turns the configuration into ternary entries
(range splitting, hyperperiod table) after it inserted the guard bands. It
configures the packet generator, but leaves it off. A run of the
controller finds the switch as the run before left it, its generator still sending. The PTP monitor feeds samples
to the servo; the servo publishes a status on a watch channel; the activation task
reads it and switches the generator on at the configured time. From then on the
data plane runs by itself: hyperperiod packets stamp registers, control packets
read them, compute a position, pass the traffic manager and switch gates. A frame is
identified as part of a stream, is given its position in the hyperperiod of the
stream's gate, meets the gate and then the flow meter; what frames share are the
registers.

What is hard here: two clocks that wrap and are compared by ternary matches
without priorities; packets of many ports interleaved in one pipeline; a position
that is computed before a queue and used behind it; lost, late and foreign PTP
messages; a register that is polled and may be stale; a watch channel that drops
intermediate values; a deadline computed from an old sample; a controller that may die
between any two steps of its start and is started again on a live switch. `PROJECT.json` lists
these hazards at the lines where they bite.

## Modules

| Module | What it is |
|---|---|
| `RangeToTernary` | The loop that splits a closed range into aligned blocks. A mask `!(size-1)` is modelled by the block it keeps. Overflow that a debug build stops at is the state `"panic"`. |
| `HyperperiodExceeded` | The loop over the bits of a duration. An entry is a value and the bit its mask ends at. |
| `GateControlLists` | A tGCL, the step of `insert_tas_gsi` for one slice, the fold over all slices, and `StatesAt`: the states that matching entries carry. Slices share end points and entries have no priority, so it is a set. `Answered` and `OpensLater`: what the shaper needs of a tGCL with its guard bands. |
| `GuardBands` | `insert_tas_gsi` as the loop it is. |
| `GateTables` | Composes the three loops: a tGCL of the file to the entries of both tables, and what they answer to a position. |
| `TernaryEvaluation` | The evaluation program's counts, next to the tables of `GateTables`. |
| `Startup` | The controller from its start to the running generator, with restarts, next to the packets of the generator of the run before. |
| `DeltaAdjustment` | The position in the hyperperiod out of two time stamps, as operators. |
| `TasGates` | The shaper: composes `DeltaAdjustment` and `GateControlLists` with the generator, the registers and the traffic manager. |
| `ScheduledGates` | Abstract: a gate is in a state that the schedule holds for it now, or held at most `Latency` ns ago. |
| `TasMeasurement` | `TasGates` with the measurement of the first frame. |
| `Psfp` | PSFP on top of `DeltaAdjustment`. The life of a frame in ingress is one action, since frames pass the pipeline one behind the other; `StreamGate` and `FlowMeter` are operators named for their branches. |
| `ScheduledPolicer` | Abstract: a frame passes or not by the schedule of its gate at the true time, by what gate and meter have seen, and by its color. It has no clock, registers, tables or widths. |
| `PsfpOctets` | `MCPsfp` with the octets that passed a gate in its interval. |
| `PtpExchange` | The PTP monitor with the master, another slave, the network and the egress MAC. A time is modelled by the message it belongs to and by whether its upper bits are right. |
| `PtpServo`, `PktgenActivation` | The servo, and the activation task composed with it through the channel. |
| `FrequencyTuning` | The other half of the servo: the increment of the clock, tuned by a moving average of offsets. |
| `PtpTransparentClock` | A slave behind the switch, whose messages are corrected by the two PTP tables. |
| `MC...` | Instances for TLC. |
| `NumberLemmas`, `..._proofs` | Lemmas on division and powers of two; the proofs of a module. |

How the state of the code is represented:

* `TasGates`: `hyperperiodTs[b]` is the pair of registers `tas_lower_last_ts` and
  `tas_higher_last_ts`; `next` is the generator's place in its batches; `tm` the
  control packets between ingress and egress; `gate[b][q]` what the last message
  of advanced flow control said. `phase` and `started` are history: the true time
  since the hyperperiod began. Batch, port and register index stand for one
  another, as in `batch_id_to_port`. The timer jitters by `EarlyBy` and `LateBy`;
  `Skew` is how much later a hyperperiod packet may be stamped than a control
  packet behind it.
* `Psfp`: `gateBlocked` and `meterBlocked` are `reg_gate_blocked` and
  `reg_meter_blocked`, `hyperperiodTs` the pair `lower_last_ts` and
  `higher_last_ts`. `out` is the frame that came last, with its fate; `phase`,
  `conduct` (how the frames of a gate kept to its schedule) and `sawRed` are
  history. Id 0 is the gate and the meter of a frame of no stream, and may be that
  of a configured gate as well. Values and masks of `stream_gate_instance` have 32
  bits (`MatchRange`). The meter of the switch answers any colour that the
  pre-colour allows. The registers that count octets take period and length
  out of the header `recirc`, which no packet carries: their comparison may come out
  either way. A missing key of the configuration is a key that is not in the record.
  As a `ScheduledPolicer` the position of a gate is `Position(g)`, its gates and meters are shut
  and red where the two registers say so, and a verdict is the fate of the frame in `out`,
  its queue and color included if it passes; color and computed position of a dropped frame are forgotten.
* `PtpExchange`: `attempt` is the place in `send_delay_request`, which holds up
  the frame loop while it polls. A *disturbance* is what the monitor cannot
  expect for ever: a Sync before the previous exchange is over, a one-step Sync, a
  Follow_Up after the time-out, a Delay_Req that leaves after the last read, a
  failed call. There is a bounded number of them, and properties say whether they
  hold only without.
* `PtpServo`: a sample is the offset its four times give and the master's time of
  its Sync. The clock may drift either way at any time, which includes what tuning
  can do within `MaxDrift`.
* `FrequencyTuning`: increments are counted from the one at which the clock keeps
  step. `gain` is what one of them makes between two samples; it differs between
  networks and is the same throughout a behaviour. An offset is measured with an error of `Noise`.
* `GateTables`: `table` has the entries of `gate_control_list` with the slice and the
  queue they were written for, so that two equal keys are two rows. The loop gives the same
  entries for every queue of a slice and therefore runs once per slice. Values and masks of `table` have
  W bits, positions N > W.
* `Startup`: an entry is its table, its key and its action data. All entries of a schedule
  or a tGCL are one, and so are those that are the same in every run ("fixed"). `pc` is the place in `run`;
  a step is a call that reaches the switch, and may also fail in the middle, after some of its
  writes, or be the last. `tasTs` and `gateTs` hold who stamped a register, a run and a timer,
  in the place of times; `setting` says by which register and duration the last control packet set a gate. Calls fail in every
  run but the last of `MaxRuns`, so that one run at least may come through.
* `PtpTransparentClock`: `cf` is the correction field, less the time of arrival while the
  message is in the switch. The master hands the field of a Delay_Req back in
  its Delay_Resp (IEEE 1588).
* `PktgenActivation`: `fresh` is whether the receiver has seen the channel's
  value. Time does not pass while the task has something to do.

## Runs

| Run | Expect | What it shows | Bounds |
|---|---|---|---|
| `gate_tables` | pass | guard bands keep cover, open time and separation; ranges are covered exactly, without overlap, by the fewest entries; keys are distinct; the table of the period is the comparison `>`; both tables together answer what the tGCL says, for every difference of time stamps; the evaluation counts them; the conversion ends | all tGCLs of 1-2 slices, end points 0..4, gaps and overlaps included, guard bands 0..2, periods 4 and 5; one slice of any range of 5-bit words; any period of 5 bits; positions of 6 bits |
| `tas_gates` | pass | true positions, no missed slot, exclusive gates, refinement, gates keep switching | 2 ports with periods 14 and 22, 2 queues each, 6-bit clock, jitter 1, skew 2, gap 1, 2 packets in the traffic manager |
| `tas_measurement` | violation | a second sample for one opening of a queue | 1 port, 2 queues, 4 slices, gap 1..2 |
| `psfp` | pass | frames of known streams pass only in open intervals and to their queue, gates and meters stay shut, conforming frames pass; the pipeline implements `ScheduledPolicer` (`PolicesFrames`): no frame is dropped or a bit set for another reason, a yellow frame stays yellow where colors count, and no frame of an unknown stream sets a bit | 2 gates of periods 6 and 5, 2 meters, 3 streams and an unknown one, 5-bit clock, jitter 1, skew 2 |
| `psfp_octets` | violation | the key of the example configuration does not bound the octets of an interval | as `psfp`, frames of 1 octet, 2 octets per interval |
| `ptp` | pass | no half sample, samples from one exchange, exact times, sampling never stops | 2-bit ids, 3-bit clock, 1 loss, 2 disturbances, 2 queued frames, 2 read attempts |
| `ptp_stale` | violation | a stale T3 is paired with a fresh T4 | no loss |
| `activation` | pass | generator on time, in synchronization, in the end; corrections converge | units of 50 ns, warm-up 1, target 5, time up to 7, noise 1, lag 1 |
| `servo_stuck` | violation | a lasting offset above the limit is never corrected | one epoch, no noise |
| `frequency_tuning` | pass | after the warm-up every offset is below the limit of synchronization | the numbers of the code; 1 or 5 ns per increment and sample, errors of -1200, 90 and 600 increments, noise 20 ns, 1 failing call |
| `startup` | pass | generation starts on a clean switch; nothing happens before; stamps and settings are a port's own; what can be served is | 3 runs, 8 configurations, 5 applications, 3 ports, 2 stream gates |
| `transparent_clock` | violation | a corrected Delay_Resp falsifies the slave's offset | one exchange, every message 10 in the switch |

Why the bounds are enough. The algorithms on words have no constant that depends on
the width but the width itself, and their theorems hold for all widths. In `gate_tables`
positions are one bit wider than words, which is all that a mask that ends early can show;
one slice after a guarded one has every kind of neighbour. In
`tas_gates` the periods are 14 and 22 and the clock counts to 64, so that every position
meets a wrap, and the least guard band that works is used: one ns less and
`GatesExclusive` fails (it must exceed `(NumBatches * NumQueues - 1) * MaxGap`). The gap between
control packets is constant there; the proofs are for any gap.
In `startup` the first two runs may leave the switch in any state a run can leave, and the third
shows what becomes of it; the configurations move an application id from a port to a stream gate
and swap batches, and the ones that cannot be served are one of each kind. In `frequency_tuning`
errors of 1200 ns per sample are tuned away in time and 1250 are not: the limit is that of the code.
In `psfp` the clock counts to 32, so that every position meets a wrap; the schedules
have a gap and intervals that share an end point; between them the gates, meters and
streams have each flag set and cleared, and two streams share a gate and two a
meter. Positions of frames of unknown streams exceed `MatchRange`.
In `ptp` two read attempts have a first and a last one, which is all the code
distinguishes; ids of two bits wrap within a trace; two disturbances allow a second
one while the first has its effects. In `activation` the limits of the code, 100
and 150 ns, keep their ratio, and the time allows losing synchronization and
finding it again before and after the target.

Fairness. `tas_gates`: the timers, the generator and the traffic manager, which are
hardware, do not stop. `ptp`: the master keeps sending and answering, the switch
forwards, the monitor's task is scheduled; losses and disturbances are bounded,
so the master gets through again and again. `activation` and `servo_stuck`: time
passes, samples keep coming while the monitor runs, the task is scheduled; nothing
makes the monitor stay, nor any call succeed. `startup`: the controller goes on and the timers of
the generator do not stop; no run is made to start, to live or to be lucky, but a last one that
read a configuration it can serve has nothing against it. `gate_tables`: the program goes on.

Deadlock is checked except where the modelled call returns (`gate_tables`), the controller
has died for the last time (`startup`) or the exchange is over (`transparent_clock`).

Every property of a passing run has a mutant in its module: an operator `Mut...`
that changes one definition the way a bug would, under which TLC finds the property
violated.

## Where the code differs from what it says

* `TAS.p4:163`: a measurement only for the first frame. One entry of `queue_state`
  serves all queues (`tas_measurement`).
* `ptp.rs:399`: the sequence number verifies the Delay_Resp. In the last attempt a
  stale T3 is stored with the new number (`ptp_stale`).
* `ptp.rs:1354`: outliers are transient. After the warm-up a lasting offset is skipped
  for ever (`servo_stuck`).
* `egress.p4:86`, `PTP.p4:22-24`: the field of a Delay_Resp is left as it is. `ptp.rs:131-143` and
  186-200 write entries that correct it for its own time in the switch, though it carries the correction of its Delay_Req
  (`transparent_clock`); the action meant for it, `nop`, has no entry. With the entries left out the
  slave's offset is right.
* `configuration.json:149`: `gate_closed_due_to_octets_exceeded_enable`. `types.rs:90`
  reads `..._emable`, so the flag never reaches the switch (`psfp_octets`). Spelt
  as `types.rs` has it, the comparison is of numbers that no packet carries.

Observations that no run is about:

* `evaluate_ternary_entries.rs:20-22` calls the decomposition that of the controller. It is the one before the two
  corrections of lines 56-67; `OptimizedCounts` says which of the two the controller writes.
* `main.rs:84` clears tables before `packet_generator.rs:95` stops the generator of the run before. After
  `batch_id_to_port` has gone and before `gate_control_list` has, control packets set gates by the register of port 0;
  a run that fails in between leaves it so. `SettingsAreOwn` therefore speaks of complete tables.
* A configuration cannot be served if two tGCLs or stream gates in use have the same period after the guard bands
  (equal entries of `hyperperiod_exceeded_detection`, so that the write fails), if there are more than 15 of them, or if
  there is no tGCL (`packet_generator.rs:52`). Two stream gates with one schedule both have it written for the first
  (`stream_gate_schedule.rs:156`).
* The Sync that passes has its field reset (no entry of `egress.ptp`), and the Follow_Up carries its own time
  in the switch in its place: right as far as both take the same time.
* `ptp.rs:1447`: `current_increment` moves although the call that sets it fails.
* `configuration.rs:218-219` closes all queues between slices, but a guard band shares
  its end points with its neighbours, whose entries match there too. The
  properties of the shaper hold nevertheless: such an entry opens only the queue whose slice
  ends or begins there.
* `ptp.rs:370`: T3 may be combined with the wraps counted so far before the T2 of a Sync that is
  still queued; that older T2 then counts as a wrap. `TimesExact` says when times
  are exact all the same.
* A position before the first hyperperiod packet is the end of the period. A frame that comes
  before the activation of the generator is thus judged by the last interval, and may shut a
  gate for good.
* A slice with `low = high` at an odd value would get the same entry as the beginning of the slice behind it, and the second write
  would fail. Nothing checks it; `KeysAreDistinct` therefore says so in its hypothesis.
* `packet_generator.rs:124-133` clears the registers of the hyperperiods, not the
  bits that shut gates and meters: these survive a restart of the controller, and so do the states
  of the queues, which stay as the last control packet set them until generation starts again.
* A frame of an unknown stream has gate 0, meter 0 and a position that is bounded by
  no period. If a gate 0 is configured, it may pass outside the schedule;
  `PassesOnlyWhenOpen` is about known streams.

## Proofs

| Module | Theorems | Inductive invariant |
|---|---|---|
| `GateTables_proofs`: one range | `RangeTypeCorrect`, `EveryValueCovered`, `EntriesDisjoint`, `PanicOnlyForLargestWord`, `FewestEntriesWritten` | `RangeIInv`: type, cover of `start..cur-1` so far, entries below `cur`, and the properties; `FewestSoFar` |
| the table of the period | `ExceededTypeCorrect`, `TableIsComparison`, `PrioritiesDoNotMatter` | `ExceededIInv`: type, comparison of the bits from `i` up, uniqueness |
| the tables of a tGCL | `TypeCorrect`, `TablesAnswerTheSchedule`, `KeysAreDistinct`, `CoverageIsKept`, `SendingTimeIsKept`, `SlicesAreSeparated`, `EveryPositionAnswered`, `GuardBandsSuffice`, `LoopsAreSound` | `TablesIInv`: the invariants above and `GuardIInv`; the table has the rows of the largest blocks of each slice converted so far |
| the evaluation program | `OptimizedCountIsTheTable` | `TablesIInv` |
| `DeltaAdjustment_proofs` | lemmas on the two match tables, used by `TasGates_proofs` and `Psfp_proofs` | |
| `TasGates_proofs` | `TypeCorrect`, `EveryPacketMatches`, `PositionsAreTrue`, `FollowsSchedule`, `OpenAlone` | `IInv`: type, every position in the traffic manager within the period, and per port: the clock is its register plus the time since, modulo the range. `HistoryInv`: where a port was when each packet was generated, the ones that set the gates included |
| `Psfp_proofs` | `TypeCorrect`, `GatesKeepSchedules`, `GatesStayShut`, `MetersStayRed`, `ConformingStreamsPass`, `ColorsAreKept`, `Polices` | type, the same link of clock and register per gate, and `Bits`: a gate is blocked if a frame was certainly out of schedule and only if one possibly was, a meter exactly if it saw red |
| `PtpExchange_proofs` | `TypeCorrect`, `NeverHalf`, `OneExchangePerSample`, `NoWrapMissed` | `Base`: type, what each state of the exchange knows. `ExchangeInv`: which messages and times belong to the exchange under way. `ExactInv`: the times on their way to the tracker are in order and less than a wrap apart |
| `PktgenActivation_proofs` | `TypeCorrect`, `StartsOnTime`, `StartsInSync`, `Converges` | type; a status the task has not seen is as old as its sample; a deadline is in the future and as far from the target as its estimate |
| `Startup_proofs` | `TypeCorrect`, `CleanStart`, `Quiet`, `StampsOfThisRun`, `OwnSettings` | type, and what is done by each place of `run`: tables cleared, generator off, registers clear, configuration read, applications those of the configuration |

The properties are not inductive alone. What each argument rests on:

* Ranges: that the finished entries match the range needs that the unfinished ones match
  what is below `cur`; it rests on a block being
  aligned (`AlignSizeDivides`, `BlockSizeFits`), so that a mask keeps just the block
  (`HitBlock`). The block is a largest one, since a larger one that contains it would contain an entry below `cur`
  (`FewestSoFar`). The table of a duration needs the comparison in the bits seen so far
  (`ExceedsInOneMoreBit`).
* Guard bands: after `k` iterations the list is that of the first `k` slices, each moved to `Ends(gcl)[k]`,
  and a guard band behind each (`Expansion`). `Ends` and `Sums` are recursive functions; that there
  is a function that satisfies their equation is proved by taking the least index for which
  there would be none. Neighbours then share an end point, from which cover, separation and the sums follow.
* Keys: two rows of different slices with one entry match the same values, so the slices share their end point `v` and
  the entry is the block of `v` alone. The slice that ends with it has it because `v` is even, the one that begins with it because `v` is odd.
* Evaluation: the first block of what is left of a range is a largest one, and the other largest ones are those of what is
  left behind it (`FirstLargest`). A count from a value on is therefore that of the largest blocks, or not less if its blocks are
  smaller (`CountsStep`, downwards from the end of the range). The rows of a slice are its blocks times the queues it names, and rows of
  different slices differ (`TableCounted`).
* Positions: the link between clock, register and true
  time (`PhaseInv`); `DiffOfTime` and `DiffBeforeStart` are the arithmetic of the two
  match tables with wrapping time stamps, `StoredAhead` and `ClockInStep` keep the link in
  a step.
* Gates: time is counted in control packets, which are at most `MaxGap` apart. A gate is as old as the packets generated after the one that
  set it (`Age`), and from the position of the older of two packets the port got to that of the younger in the time between
  (`Reach`). The guard bands are longer than that time, so of two exclusive queues the first is
  closed when the second opens. What `TasGates` takes of the tGCL of a port is proved of the tGCLs that `GuardBands` makes:
  that no position is without a state (`EveryPositionAnswered`, of slices that follow each other and name every queue) and
  that exclusive queues are apart (`GuardBandsSuffice`, of guard bands longer than the delay of a control packet and `EarlyBy`).
* `Psfp`: the properties are about the frame that came last; they follow from what
  the step found in the registers before it: `GateCases` and `MeterCases` reduce the
  branches of the two controls to whether a frame is dropped and a bit is set, and
  `PositionOfKnown` and `MatchOfKnown` say that the entries a frame matches are the
  intervals of the true time. `ColorsAreKept` is only proved: a run checks it as a part of `PolicesFrames`.
* The refinement of the policer (`Polices`) has the invariant as its hypothesis and one lemma per action:
  `PositionStep` says that a step of the clock moves a position on or leaves it where a hyperperiod waits, `ArrivedAs`
  collects what is left of a frame's arrival once clocks and tables are gone, and `DropRefines`, `PassRefines` and
  `UnknownRefines` find the action of the policer it is. Early hyperperiods are steps of the policer
  (`EarlyBy`); enabling generation and standing still are not.
* PTP: without a disturbance the queues hold at most the messages of the exchange under way, in their order. A wrap is
  counted right if less than a whole range lies between two times the tracker is given (`CombineExact`), and the chain of
  times that wait for it grows only in that order (`ChainGrows`).
* Start-up: the requests of a configuration are split into their parts (`RequestsAre`, `ActivationsAre`), so that
  application `n` is known to be that of the `n`-th gate or port; registers stay clear because the generator is off until the tables are complete.

What the proofs assume, beyond types, is in named assumptions that TLC evaluates on the
instances: powers of two (`WordAssumption`, `BitAssumption`), masks that leave room
(`ClockAssumption`), tGCLs whose end points and periods are words with their guard bands
(`WidthAssumption`) and whose slices do not end before they begin if they are guarded, a finite number of queues (`InputAssumption`),
periods shorter than 2^33 ns and skews of at most 128 ns
(`HorizonAssumption`), a generator that starts when the clock shows more than a period
and is not about to wrap (`StartAssumption`), and slices that leave no position
without a state (`GclAssumption`). For PSFP: streams that name existing gates
and gates with schedules of their own (`ConfigurationAssumption`), without which the
controller stops or the switch refuses an entry. For PTP: fewer losses in a row than make the hardware
counter pass its range unseen (`CounterAssumption`), more than one sequence number, and a `None` that is no value
(`NoneAssumption`); for the servo a bounded error of measurement (`NoiseAssumption`). For start-up one tGCL per port (`StartupAssumption`).
Two theorems have a hypothesis on the configuration that the code does not check and that the
instances of TLC satisfy: `OpenAlone` that guard bands are as wide as `GuardBandsWide` says,
`KeysAreDistinct` that no slice is empty (`NoEmptySlices`).

Only model-checked: liveness (`TablesFinish`, `GatesKeepSwitching`, `KeepsSampling`, `ActivationHappens`,
`ValidServes`), which is out of the prover's reach; `LockedAfterWarmUp`, which is about the
numbers of the code and not about every value of them (errors of 1250 ns per sample are not tuned away).

## Not modelled

Layouts and look-ups without control flow (`afc.rs`, `get_afc_value`, parser, headers),
JSON parsing, logging, offset logs, debug readers, forwarding and multicast entries,
and controls that are not instantiated. The stream filter
has no instance; the call of the control traffic measurement is commented out. The measurement
program (`p4-tas-measurement/`) is another P4 program on another switch: it stores time stamps in
registers that its controller prints. Of the evaluation program the output is left out
(tables of fixed periods, `verify_cyclic_prios`, the export), and the intervals of stream gates, which are counted
by the same two functions. The registers that count octets in `StreamGate.p4` are a free
choice in `Psfp`, since what they compare with is the content of a header that is never valid.

## Plan

Done, in this order: range splitting and hyperperiod table, guard bands, shaper with
its refinement, measurement, PTP exchange, servo and activation, PSFP; proofs of the first
two, of the positions of the shaper and of PSFP; start-up with restarts, the tables of a tGCL as a whole, the
frequency tuning, the transparent clock; an abstract policer and the proof that PSFP implements it; proofs of the refinement and the exclusive gates of the shaper, of the PTP exchange, of the
activation, of start-up, of the tables of a tGCL and of what the shaper and the evaluation take of them.

1. Jumps of the master's time in `PtpServo`, after which any sample may become the base offset.
2. Two ports with varying gaps between control packets in `tas_gates`.
