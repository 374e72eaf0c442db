-------------------------- MODULE PktgenActivation --------------------------
(***************************************************************************)
(* The task wait_for_ptp_sync_and_enable_pktgen (libs/ptp.rs) next to the  *)
(* servo (module PtpServo) that tells it the state of the clock through a  *)
(* watch channel: the packet generator, and with it the time-aware shaper, *)
(* is to start when the time of the master reaches a configured value.     *)
(*                                                                         *)
(* The two run on different threads.  Time does not pass while the task    *)
(* has something to do, and a sample is not complete before the task has   *)
(* seen the status of the one before: samples are 125 ms apart.  While the *)
(* task spins, in the last 50 us, it sees nothing.                         *)
(***************************************************************************)
EXTENDS PtpServo

CONSTANTS Target,      \* pktgen_activation_gm_time + 120 s, in the master's time
          SpinWindow   \* PTP_ACTIVATION_SPIN_WINDOW_NS

ASSUME ActivationAssumption ==
    /\ Target \in Nat /\ SpinWindow \in Nat
    /\ Target + MaxLag + MaxNoise <= MaxTime

VARIABLES task,      \* "wait", "spin" or "ended"
          deadline,  \* activation_deadline, on the master's time scale
          monitor,   \* monitor_ptp_l2 is running
          pktgen     \* "off", "on", or "failed": enable_pkt_gen has failed

vars == <<servoVars, task, deadline, monitor, pktgen>>

Init ==
    /\ ServoInit
    /\ task = "wait"
    /\ deadline = None
    /\ monitor = TRUE
    /\ pktgen = "off"

\* The arm of select! for the deadline is ready.
WakeUpDue == task = "wait" /\ deadline # None /\ ptpTime >= deadline - SpinWindow
SpinDue == task = "spin" /\ ptpTime >= deadline
StatusDue == task = "wait" /\ (fresh \/ ~monitor)

TimePasses ==
    /\ ~WakeUpDue /\ ~SpinDue /\ ~StatusDue
    /\ Tick
    /\ UNCHANGED <<task, deadline, monitor, pktgen>>

ClockDrifts ==
    /\ Drift
    /\ UNCHANGED <<task, deadline, monitor, pktgen>>

ServoSample ==
    /\ monitor
    /\ ~StatusDue
    /\ ProcessServoSample
    /\ UNCHANGED <<task, deadline, monitor, pktgen>>

\* recv_frame returns an error: monitor_ptp_l2 returns, the channel is closed.
MonitorExits ==
    /\ monitor
    /\ monitor' = FALSE
    /\ UNCHANGED <<servoVars, task, deadline, pktgen>>

\* Mutant: the task returns without enabling.
MutEnablePktGen ==
    /\ task' = "ended"
    /\ UNCHANGED <<pktgen, deadline>>

\* enable_pkt_gen, which is not tried again; the task returns.
EnablePktGen ==
    /\ pktgen' \in {"on", "failed"}
    /\ task' = "ended"
    /\ UNCHANGED deadline

\* Mutant: the estimate is mistaken for the time that is left.
MutDeadline(ptp_time) == ptpTime + ptp_time

\* Instant::now() + remaining_ns: the estimate is as old as the sample's Sync.
Deadline(ptp_time) == ptpTime + (Target - ptp_time)

\* Mutant: a Syncing status leaves the deadline armed.
MutLoseSync == UNCHANGED deadline

LoseSync == deadline' = None

\* The arm of select! for the channel, and the match on the status.
SeeStatus ==
    /\ task = "wait"
    /\ fresh
    /\ fresh' = FALSE
    /\ \/ /\ status.state # "Synchronized"
          /\ LoseSync
          /\ UNCHANGED <<task, pktgen>>
       \/ /\ status.state = "Synchronized" /\ status.ptp_time >= Target
          /\ EnablePktGen
       \/ /\ status.state = "Synchronized" /\ status.ptp_time < Target
          /\ deadline' = Deadline(status.ptp_time)
          /\ UNCHANGED <<task, pktgen>>
    /\ UNCHANGED <<ptpTime, ticked, epoch, drift, base, sync_counter, status,
                   outcome, monitor>>

\* changed() fails when the sender is gone and its last value has been seen.
ChannelClosed ==
    /\ task = "wait" /\ ~monitor /\ ~fresh
    /\ task' = "ended"
    /\ UNCHANGED <<servoVars, deadline, monitor, pktgen>>

\* sleep_until(wake_at) wins the select!.
StartSpinning ==
    /\ WakeUpDue
    /\ task' = "spin"
    /\ UNCHANGED <<servoVars, deadline, monitor, pktgen>>

DeadlineReached ==
    /\ SpinDue
    /\ EnablePktGen
    /\ UNCHANGED <<servoVars, monitor>>

Task == SeeStatus \/ ChannelClosed \/ StartSpinning \/ DeadlineReached

Next == TimePasses \/ ClockDrifts \/ ServoSample \/ MonitorExits \/ Task

\* Time passes, the master keeps answering, the task is scheduled.
Spec == Init /\ [][Next]_vars
FairSpec == Spec /\ WF_vars(TimePasses) /\ WF_vars(ServoSample) /\ WF_vars(Task)
-----------------------------------------------------------------------------
\* The generator never starts before the time asked for, and if it starts at a
\* deadline then at most the age of a sample too late, however often
\* synchronization was lost and found again.
EnabledOnTime ==
    [][ pktgen' = "on" /\ pktgen = "off" =>
          /\ ptpTime >= Target - MaxNoise
          /\ task = "spin" => ptpTime <= Target + MaxLag + MaxNoise ]_vars

\* The generator starts at a deadline only if the clock was synchronized as far
\* as the task could see when it began to spin.
EnabledOnlyInSync ==
    [][ task = "wait" /\ task' = "spin" /\ ~fresh => status.state = "Synchronized" ]_vars

\* A correction leaves no more than the error of the measurement, and it never
\* takes the difference of the epochs out of the clock.
CorrectionConverges ==
    [][ ticked /\ ~ticked' /\ outcome' = "adjusted" =>
          Abs(epoch + drift' - (IF base = None THEN 0 ELSE base)) <= MaxNoise ]_vars

\* Enabling is tried in the end if the clock is found synchronized again and
\* again, whatever statuses come between.
ActivationHappens ==
    []<>(fresh /\ status.state = "Synchronized") => <>(pktgen # "off")

\* ptp.rs:1353-1354: outliers are skipped "to avoid transient spikes".  Here the
\* measurements are exact (Noise is {0}), so an offset that stays is no spike.
OutliersTransient ==
    outcome = "outlier" /\ Abs(drift) > OutlierLimit ~>
        outcome # "outlier" \/ Abs(drift) <= OutlierLimit \/ ~monitor
=============================================================================
