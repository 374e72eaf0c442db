----------------------- MODULE PktgenActivation_proofs -----------------------
(***************************************************************************)
(* The packet generator starts in time and in sync, whatever the statuses  *)
(* that come and go, for every error of measurement, drift of the clock,   *)
(* difference of the epochs and time asked for.                            *)
(*                                                                         *)
(* Two things make it so: a status that the task has not seen holds the    *)
(* time back, so that it is not older than its sample, and so does a       *)
(* deadline that is due.                                                   *)
(***************************************************************************)
EXTENDS PktgenActivation, TLAPS

\* The status is Synchronized: the task will compute a deadline from its time.
Synchronized == status.state = "Synchronized"

TypeOK ==
    /\ ptpTime \in 0..MaxTime
    /\ ticked \in BOOLEAN /\ fresh \in BOOLEAN /\ monitor \in BOOLEAN
    /\ epoch \in Int /\ drift \in Int
    /\ base = None \/ base \in Int
    /\ sync_counter \in Nat
    /\ status.state \in {"Initializing", "Syncing", "Synchronized"}
    /\ Synchronized => status.ptp_time \in Nat
    /\ task \in {"wait", "spin", "ended"}
    /\ deadline = None \/ deadline \in Int
    /\ pktgen \in {"off", "on", "failed"}

\* The time in a status is that of the sample, but for the age of the sample's
\* Sync and the error of the measurement, until the task has seen it.
StatusTimely ==
    Synchronized /\ task = "wait" /\ fresh =>
        /\ ptpTime - MaxLag - MaxNoise <= status.ptp_time
        /\ status.ptp_time <= ptpTime + MaxNoise

\* A deadline is in the future, and as far from the target as its estimate was.
DeadlineTimely ==
    task # "ended" /\ deadline # None =>
        /\ ptpTime <= deadline
        /\ Target - MaxNoise <= deadline
        /\ deadline <= Target + MaxLag + MaxNoise

\* The task spins with a deadline only, and has one only when the last status
\* it has seen is Synchronized.
ArmedInSync ==
    /\ task = "spin" => deadline # None
    /\ task = "wait" /\ ~fresh /\ deadline # None => Synchronized

IInv == TypeOK /\ StatusTimely /\ DeadlineTimely /\ ArmedInSync
-----------------------------------------------------------------------------
\* The bound of the errors is one of them, and bounds them all.
LEMMA NoiseIsBounded ==
    /\ MaxNoise \in Nat
    /\ \A m \in Noise : m \in Int /\ -MaxNoise <= m /\ m <= MaxNoise
<1>1. /\ MaxNoise \in {Abs(m) : m \in Noise}
      /\ \A m \in Noise : Abs(m) <= MaxNoise
  BY NoiseAssumption DEF MaxNoise
<1>2. \A m \in Int : Abs(m) \in Nat /\ -Abs(m) <= m /\ m <= Abs(m)
  BY DEF Abs
<1>3. Noise \subseteq Int
  BY ServoAssumption
<1>4. MaxNoise \in Nat
  BY <1>1, <1>2, <1>3
<1>5. ASSUME NEW m \in Noise PROVE m \in Int /\ -MaxNoise <= m /\ m <= MaxNoise
  <2>1. PICK n \in Nat : n = MaxNoise
    BY <1>4
  <2>2. m \in Int /\ Abs(m) \in Nat /\ -Abs(m) <= m /\ m <= Abs(m) /\ Abs(m) <= n
    BY <1>1, <1>2, <1>3, <2>1
  <2> QED BY <2>1, <2>2
<1> QED BY <1>4, <1>5

LEMMA ConstantFacts ==
    /\ MaxNoise \in Nat /\ MaxLag \in Nat /\ MaxTime \in Nat /\ WarmUp \in Nat
    /\ Target \in Nat /\ SpinWindow \in Nat
BY NoiseIsBounded, ServoAssumption, ActivationAssumption

\* What a sample does, as far as it concerns the task and the clock: it leaves
\* the status alone or publishes one whose time is close to the master's.
LEMMA SampleEffect ==
    ASSUME IInv, ProcessServoSample
    PROVE  /\ ptpTime' = ptpTime /\ epoch' = epoch /\ ticked' = FALSE
           /\ drift' \in Int /\ sync_counter' \in Nat
           /\ base' = None \/ base' \in Int
           /\ \/ status' = status /\ fresh' = fresh
              \/ /\ fresh' = TRUE
                 /\ status'.state \in {"Syncing", "Synchronized"}
                 /\ status'.ptp_time \in Nat
                 /\ ptpTime - MaxLag - MaxNoise <= status'.ptp_time
                 /\ status'.ptp_time <= ptpTime + MaxNoise
           /\ outcome' = "adjusted" =>
                Abs(epoch + drift' - (IF base = None THEN 0 ELSE base)) <= MaxNoise
<1>1. PICK noise \in Noise, lag \in 0..MaxLag :
        LET raw_offset == epoch + drift + noise
            offset == Offset(raw_offset)
            ptp_time == (ptpTime - lag) + (epoch + drift) - raw_offset
        IN /\ lag <= ptpTime
           /\ \/ StoreBase(raw_offset)
              \/ /\ base # None \/ Abs(raw_offset) <= BaseLimit
                 /\ \/ IsOutlier(offset) /\ SkipOutlier
                    \/ ~IsOutlier(offset) /\ AdjustSlaveClock(offset, AtLeast0(ptp_time))
  BY DEF ProcessServoSample
<1>2. PICK e \in Int, d \in Int, n \in Int, t \in Nat, l \in Nat :
        e = epoch /\ d = drift /\ n = noise /\ t = ptpTime /\ l = lag
  BY NoiseIsBounded, ConstantFacts DEF IInv, TypeOK
<1>3. PICK m \in Nat, g \in Nat : m = MaxNoise /\ g = MaxLag /\ -m <= n /\ n <= m /\ l <= g
  BY <1>2, NoiseIsBounded, ConstantFacts
<1> DEFINE raw_offset == e + d + n
           offset == Offset(raw_offset)
           ptp_time == AtLeast0((t - l) + (e + d) - raw_offset)
<1>4. /\ l <= t
      /\ \/ StoreBase(raw_offset)
         \/ SkipOutlier
         \/ AdjustSlaveClock(offset, ptp_time)
  BY <1>1, <1>2
<1>5. ptp_time \in Nat /\ t - g - m <= ptp_time /\ ptp_time <= t + m
  BY <1>3, <1>4 DEF AtLeast0
<1>6. raw_offset \in Int
  OBVIOUS
<1>7. PICK b \in Int : b = IF base = None THEN 0 ELSE base
  BY DEF IInv, TypeOK
<1>8. offset = raw_offset - b
  BY <1>6, <1>7 DEF Offset
<1>9. ptpTime' = ptpTime /\ epoch' = epoch /\ ticked' = FALSE
  BY DEF ProcessServoSample
<1>10. sync_counter \in Nat /\ (CountSample => sync_counter' \in Nat)
  BY ConstantFacts DEF IInv, TypeOK, CountSample
<1>11. drift \in Int /\ (base = None \/ base \in Int)
  BY DEF IInv, TypeOK
<1> HIDE DEF raw_offset, offset, ptp_time
<1>12. CASE StoreBase(raw_offset)
  BY <1>6, <1>9, <1>10, <1>11, <1>12 DEF StoreBase
<1>13. CASE SkipOutlier
  BY <1>9, <1>10, <1>11, <1>13 DEF SkipOutlier
<1>14. CASE AdjustSlaveClock(offset, ptp_time)
  <2>1. CountSample /\ base' = base
    BY <1>14 DEF AdjustSlaveClock
  <2>2. CASE outcome' = "failed" /\ UNCHANGED <<drift, status, fresh>>
    BY <1>9, <1>10, <1>11, <2>1, <2>2
  <2>3. CASE /\ drift' = Corrected(offset) /\ Publish(StatusOf(offset, ptp_time))
             /\ outcome' = "adjusted"
    <3>1. drift' = d - (e + d + n - b)
      BY <1>2, <1>8, <2>3 DEF Corrected, raw_offset
    <3>2. drift' \in Int /\ e + drift' - b = -n
      BY <3>1
    <3>3. Abs(-n) <= m
      BY <1>3 DEF Abs
    <3>4. Abs(epoch + drift' - (IF base = None THEN 0 ELSE base)) <= MaxNoise
      BY <1>2, <1>3, <1>7, <3>2, <3>3
    <3>5. /\ fresh' = TRUE /\ status'.state \in {"Syncing", "Synchronized"}
          /\ status'.ptp_time = ptp_time
      BY <2>3 DEF Publish, StatusOf
    <3> QED BY <1>2, <1>3, <1>5, <1>9, <1>10, <1>11, <2>1, <3>2, <3>4, <3>5
  <2> QED BY <1>14, <2>2, <2>3 DEF AdjustSlaveClock
<1> QED BY <1>4, <1>12, <1>13, <1>14
-----------------------------------------------------------------------------
LEMMA InitIInv == Init => IInv
<1> SUFFICES ASSUME Init PROVE IInv
  OBVIOUS
<1>1. status.state = "Initializing" /\ ~Synchronized
  BY DEF Init, ServoInit, Initializing, Synchronized
<1>2. TypeOK
  <2>1. epoch \in Int /\ drift \in Int
    BY ServoAssumption DEF Init, ServoInit
  <2>2. ptpTime \in 0..MaxTime
    BY ConstantFacts DEF Init, ServoInit
  <2> QED BY <1>1, <2>1, <2>2 DEF Init, ServoInit, TypeOK
<1> QED BY <1>1, <1>2 DEF Init, ServoInit, IInv, StatusTimely, DeadlineTimely, ArmedInSync

\* Time stands still while the task has something to do.
LEMMA TimePassesIInv == ASSUME IInv, TimePasses PROVE IInv'
<1>1. /\ ~WakeUpDue /\ ~SpinDue /\ ~StatusDue
      /\ ticked' = TRUE
      /\ UNCHANGED <<epoch, drift, base, sync_counter, status, fresh>>
      /\ UNCHANGED <<task, deadline, monitor, pktgen>>
  BY DEF TimePasses, Tick
<1>2. /\ ptpTime' \in 0..MaxTime
      /\ ptpTime' = ptpTime \/ ptpTime' = ptpTime + 1
  BY ConstantFacts DEF TimePasses, Tick, IInv, TypeOK
<1>3. TypeOK'
  BY <1>1, <1>2 DEF IInv, TypeOK, Synchronized
<1>4. StatusTimely'
  BY <1>1 DEF StatusDue, StatusTimely
<1>5. DeadlineTimely'
  <2> SUFFICES ASSUME task # "ended", deadline # None
               PROVE  /\ ptpTime' <= deadline
                      /\ Target - MaxNoise <= deadline
                      /\ deadline <= Target + MaxLag + MaxNoise
    BY <1>1 DEF DeadlineTimely
  <2>1. deadline \in Int /\ ptpTime \in Nat
    BY DEF IInv, TypeOK
  <2>2. ptpTime < deadline
    BY <1>1, <2>1, ConstantFacts DEF WakeUpDue, SpinDue, IInv, TypeOK
  <2> QED BY <1>2, <2>1, <2>2 DEF IInv, DeadlineTimely
<1>6. ArmedInSync'
  BY <1>1 DEF IInv, ArmedInSync, Synchronized
<1> QED BY <1>3, <1>4, <1>5, <1>6 DEF IInv

LEMMA ClockDriftsIInv == ASSUME IInv, ClockDrifts PROVE IInv'
<1>1. /\ drift' \in Int
      /\ UNCHANGED <<ptpTime, ticked, epoch, base, sync_counter, status, fresh>>
      /\ UNCHANGED <<task, deadline, monitor, pktgen>>
  BY DEF ClockDrifts, Drift, IInv, TypeOK
<1> QED BY <1>1 DEF IInv, TypeOK, StatusTimely, DeadlineTimely, ArmedInSync, Synchronized

\* A status is published while the task has seen the one before.
LEMMA ServoSampleIInv == ASSUME IInv, ServoSample PROVE IInv'
<1>1. /\ ~StatusDue /\ ProcessServoSample
      /\ UNCHANGED <<task, deadline, monitor, pktgen>>
  BY DEF ServoSample
<1>2. /\ ptpTime' = ptpTime /\ epoch' = epoch /\ ticked' = FALSE
      /\ drift' \in Int /\ sync_counter' \in Nat
      /\ base' = None \/ base' \in Int
  BY <1>1, SampleEffect
<1>3. CASE status' = status /\ fresh' = fresh
  BY <1>1, <1>2, <1>3
     DEF IInv, TypeOK, StatusTimely, DeadlineTimely, ArmedInSync, Synchronized
<1>4. CASE /\ fresh' = TRUE
           /\ status'.state \in {"Syncing", "Synchronized"}
           /\ status'.ptp_time \in Nat
           /\ ptpTime - MaxLag - MaxNoise <= status'.ptp_time
           /\ status'.ptp_time <= ptpTime + MaxNoise
  BY <1>1, <1>2, <1>4
     DEF IInv, TypeOK, StatusTimely, DeadlineTimely, ArmedInSync, Synchronized
<1> QED BY <1>1, <1>3, <1>4, SampleEffect

LEMMA MonitorExitsIInv == ASSUME IInv, MonitorExits PROVE IInv'
BY DEF MonitorExits, servoVars, IInv, TypeOK, StatusTimely, DeadlineTimely, ArmedInSync,
       Synchronized

\* A deadline is computed when the time is still that of the sample.
LEMMA SeeStatusIInv == ASSUME IInv, SeeStatus PROVE IInv'
<1>1. /\ task = "wait" /\ fresh /\ fresh' = FALSE
      /\ UNCHANGED <<ptpTime, ticked, epoch, drift, base, sync_counter, status, monitor>>
  BY DEF SeeStatus
<1>2. CASE LoseSync /\ UNCHANGED <<task, pktgen>>
  BY <1>1, <1>2
     DEF LoseSync, IInv, TypeOK, StatusTimely, DeadlineTimely, ArmedInSync, Synchronized
<1>3. CASE EnablePktGen
  BY <1>1, <1>3
     DEF EnablePktGen, IInv, TypeOK, StatusTimely, DeadlineTimely, ArmedInSync, Synchronized
<1>4. CASE /\ Synchronized /\ status.ptp_time < Target
           /\ deadline' = Deadline(status.ptp_time) /\ UNCHANGED <<task, pktgen>>
  <2>1. PICK t \in Nat, e \in Nat : t = ptpTime /\ e = status.ptp_time
    BY <1>4 DEF IInv, TypeOK
  <2>2. t - MaxLag - MaxNoise <= e /\ e <= t + MaxNoise /\ e < Target
    BY <1>1, <1>4, <2>1 DEF IInv, StatusTimely
  <2>3. deadline' = t + (Target - e)
    BY <1>4, <2>1 DEF Deadline
  <2>4. /\ deadline' \in Int /\ t <= deadline' /\ Target - MaxNoise <= deadline'
        /\ deadline' <= Target + MaxLag + MaxNoise
    BY <2>2, <2>3, ConstantFacts
  <2>5. TypeOK'
    BY <1>1, <1>4, <2>4 DEF IInv, TypeOK, Synchronized
  <2> QED BY <1>1, <1>4, <2>1, <2>4, <2>5
          DEF IInv, StatusTimely, DeadlineTimely, ArmedInSync, Synchronized
<1> QED BY <1>2, <1>3, <1>4 DEF SeeStatus, Synchronized

LEMMA ChannelClosedIInv == ASSUME IInv, ChannelClosed PROVE IInv'
BY DEF ChannelClosed, servoVars, IInv, TypeOK, StatusTimely, DeadlineTimely, ArmedInSync,
       Synchronized

LEMMA StartSpinningIInv == ASSUME IInv, StartSpinning PROVE IInv'
BY DEF StartSpinning, WakeUpDue, servoVars, IInv, TypeOK, StatusTimely, DeadlineTimely,
       ArmedInSync, Synchronized

LEMMA DeadlineReachedIInv == ASSUME IInv, DeadlineReached PROVE IInv'
BY DEF DeadlineReached, EnablePktGen, servoVars, IInv, TypeOK, StatusTimely, DeadlineTimely,
       ArmedInSync, Synchronized

LEMMA NextIInv == IInv /\ [Next]_vars => IInv'
<1> SUFFICES ASSUME IInv, [Next]_vars PROVE IInv'
  OBVIOUS
<1>1. CASE UNCHANGED vars
  BY <1>1 DEF vars, servoVars, IInv, TypeOK, StatusTimely, DeadlineTimely, ArmedInSync,
              Synchronized
<1> QED
  BY <1>1, TimePassesIInv, ClockDriftsIInv, ServoSampleIInv, MonitorExitsIInv,
     SeeStatusIInv, ChannelClosedIInv, StartSpinningIInv, DeadlineReachedIInv
     DEF Next, Task

LEMMA Inductive == Spec => []IInv
BY InitIInv, NextIInv, PTL DEF Spec

\* Type correctness for every error of measurement, drift, epoch and target.
THEOREM TypeCorrect == Spec => []TypeOK
<1>1. IInv => TypeOK
  BY DEF IInv
<1> QED BY <1>1, Inductive, PTL
-----------------------------------------------------------------------------
\* Only the task enables the generator.
LEMMA OnlyTaskEnables ==
    ASSUME [Next]_vars, pktgen' # pktgen
    PROVE  SeeStatus \/ DeadlineReached
BY DEF Next, Task, vars, TimePasses, ClockDrifts, ServoSample, MonitorExits, ChannelClosed,
       StartSpinning

\* The generator never starts before the time asked for, but for the error of
\* the measurement, and at a deadline not later than the age of a sample and
\* that error, however often synchronization was lost and found again.
THEOREM StartsOnTime == Spec => EnabledOnTime
<1>1. ASSUME IInv, [Next]_vars, pktgen' = "on", pktgen = "off"
      PROVE  /\ ptpTime >= Target - MaxNoise
             /\ task = "spin" => ptpTime <= Target + MaxLag + MaxNoise
  <2>1. PICK t \in Nat : t = ptpTime
    BY <1>1, ConstantFacts DEF IInv, TypeOK
  <2>2. CASE SeeStatus
    <3>1. task = "wait" /\ fresh /\ Synchronized /\ status.ptp_time >= Target
      BY <1>1, <2>2 DEF SeeStatus, Synchronized
    <3>2. PICK e \in Nat : e = status.ptp_time /\ e <= t + MaxNoise /\ e >= Target
      BY <1>1, <2>1, <3>1 DEF IInv, TypeOK, StatusTimely
    <3> QED BY <2>1, <3>1, <3>2, ConstantFacts
  <2>3. CASE DeadlineReached
    <3>1. task = "spin" /\ ptpTime >= deadline
      BY <2>3 DEF DeadlineReached, SpinDue
    <3>2. PICK d \in Int : /\ d = deadline /\ t <= d /\ d <= t
                           /\ Target - MaxNoise <= d /\ d <= Target + MaxLag + MaxNoise
      BY <1>1, <2>1, <3>1 DEF IInv, TypeOK, DeadlineTimely, ArmedInSync
    <3> QED BY <2>1, <3>2, ConstantFacts
  <2> QED BY <1>1, <2>2, <2>3, OnlyTaskEnables
<1> QED BY <1>1, Inductive, PTL DEF Spec, EnabledOnTime

\* The task begins to spin only if the last status it has seen is Synchronized.
THEOREM StartsInSync == Spec => EnabledOnlyInSync
<1>1. ASSUME IInv, [Next]_vars, task = "wait", task' = "spin", ~fresh
      PROVE  Synchronized
  <2>1. StartSpinning
    BY <1>1 DEF Next, Task, vars, TimePasses, ClockDrifts, ServoSample, MonitorExits,
                SeeStatus, EnablePktGen, ChannelClosed, DeadlineReached
  <2> QED BY <1>1, <2>1 DEF StartSpinning, WakeUpDue, IInv, ArmedInSync
<1> QED BY <1>1, Inductive, PTL DEF Spec, EnabledOnlyInSync, Synchronized

\* A correction of the clock leaves no more than the error of the measurement,
\* and never takes the difference of the epochs out.
THEOREM Converges == Spec => CorrectionConverges
<1>1. ASSUME IInv, [Next]_vars, ticked, ~ticked', outcome' = "adjusted"
      PROVE  Abs(epoch + drift' - (IF base = None THEN 0 ELSE base)) <= MaxNoise
  <2>1. ProcessServoSample
    BY <1>1 DEF Next, Task, vars, servoVars, TimePasses, Tick, ClockDrifts, Drift,
                ServoSample, MonitorExits, SeeStatus, ChannelClosed, StartSpinning,
                DeadlineReached
  <2> QED BY <1>1, <2>1, SampleEffect
<1> QED BY <1>1, Inductive, PTL DEF Spec, CorrectionConverges
=============================================================================
