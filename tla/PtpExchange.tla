---------------------------- MODULE PtpExchange -----------------------------
(***************************************************************************)
(* The exchange of PTP messages by which the switch follows a master       *)
(* clock: monitor_ptp_l2 and its handlers (libs/ptp.rs).                   *)
(*                                                                         *)
(*  - The master sends a Sync and a Follow_Up with its sending time T1.    *)
(*    The data plane appends its 48-bit receive time to the Sync: T2.      *)
(*  - The monitor answers a Follow_Up with a Delay_Req.  The egress MAC    *)
(*    keeps its sending time T3 in a register, which the monitor polls     *)
(*    while it handles no frames.  The master returns its receive time T4  *)
(*    in a Delay_Resp.                                                     *)
(*  - When it has all four times the monitor hands a sample to its servo.  *)
(*                                                                         *)
(* A time is modelled by the message whose time it is and by whether the   *)
(* upper bits, which the monitor counts on its own, are the right ones: it *)
(* takes their start from the system time, here 0, and then counts wraps.  *)
(* Every Sync carries the appended time, since the table that adds it is   *)
(* written before the monitor starts: there is always a T2 and a template  *)
(* for the Delay_Req.                                                      *)
(***************************************************************************)
EXTENDS Integers, Sequences

CONSTANTS SeqMod,        \* 2^16: sequence ids count modulo this
          HwMod,         \* 2^48: range of hardware time stamps
          UpperMod,      \* 2^16: range of the upper bits
          ReadAttempts,  \* 5: reads of the egress time stamp per Delay_Req
          MaxDisturbances, \* bound: see Disturbance
          MaxQueued,     \* bound: a Sync is sent if fewer frames wait
          MaxLosses,     \* bound: messages lost
          None           \* Option::None

ASSUME PtpAssumption ==
    /\ SeqMod \in Nat \ {0, 1} /\ HwMod \in Nat \ {0} /\ UpperMod \in Nat \ {0}
    /\ ReadAttempts \in Nat \ {0}
    /\ MaxQueued \in Nat /\ MaxLosses \in Nat /\ MaxDisturbances \in Nat

\* The hardware counter does not pass its whole range between two times that
\* reach the monitor: 78 hours, here counted in times that are taken.
ASSUME CounterAssumption == MaxLosses + 1 < HwMod

VARIABLES
    clock,       \* clock of the switch, with the upper bits
    master,      \* [seq |-> id of its next Sync, owes |-> a Follow_Up]
    inbox,       \* frames for the monitor, in the order of arrival
    requests,    \* Delay_Reqs between the monitor and the egress MAC
    wire,        \* Delay_Reqs between the egress MAC and the master's answer
    register,    \* TX time stamp register of the port to the master
    state,       \* SyncState
    times,       \* SyncTimes
    tracker,     \* TimestampTracker
    nextReq,     \* delay_req_seq of monitor_ptp_l2
    attempt,     \* 0 in the frame loop; n: before the n-th read of T3
    sample,      \* the last sample the servo was given
    losses,      \* messages lost so far
    disturbed    \* disturbances so far, see Disturbance

vars == <<clock, master, inbox, requests, wire, register, state, times,
          tracker, nextReq, attempt, sample, losses, disturbed>>

SeqId == 0 .. (SeqMod - 1)
PtpTime(n, exact) == [of |-> n, exact |-> exact]
Sync(seq, two_step, at) ==
    [type |-> "Sync", seq |-> seq, two_step |-> two_step, at |-> at]
FollowUp(seq) == [type |-> "Follow_Up", seq |-> seq]
DelayResp(seq, own) == [type |-> "Delay_Resp", seq |-> seq, own |-> own]

ASSUME NoneAssumption ==
    /\ None \notin Nat
    /\ \A n \in SeqId, exact \in BOOLEAN : PtpTime(n, exact) # None

Init ==
    /\ clock = 0
    /\ master = [seq |-> 0, owes |-> FALSE]
    /\ inbox = <<>> /\ requests = <<>> /\ wire = <<>>
    /\ register = [valid |-> FALSE, id |-> 0, req |-> 0, at |-> 0]
    /\ state = [waiting |-> FALSE]
    /\ times = [t1 |-> None, t2 |-> None, t3 |-> None, t4 |-> None,
                delay_req_seq |-> None, last_id |-> None]
    /\ tracker = [upper |-> 0, last |-> None]
    /\ nextReq = 1
    /\ attempt = 0
    /\ sample = None
    /\ losses = 0 /\ disturbed = 0
-----------------------------------------------------------------------------
\* The master, the wire and the switch.

Deliver(m) == inbox' = Append(inbox, m)

\* A message may be lost instead; Send is what happens if it is not.
OrLose(Send, channel) ==
    \/ Send /\ UNCHANGED losses
    \/ losses < MaxLosses /\ losses' = losses + 1 /\ UNCHANGED channel

\* Disturbances are what the monitor cannot expect of its surroundings for ever:
\* there are MaxDisturbances of them at most.
Disturbance == disturbed < MaxDisturbances /\ disturbed' = disturbed + 1
Expect(cond) == IF cond THEN UNCHANGED disturbed ELSE Disturbance

\* A two-step Sync, sent when the Delay_Resp of the exchange before has been.
SyncInTime ==
    /\ requests = <<>> /\ wire = <<>> /\ attempt = 0
    /\ \A k \in DOMAIN inbox : inbox[k].type # "Follow_Up"

\* A Follow_Up comes before the monitor stops waiting for it.
FollowUpLost ==
    /\ ~master.owes
    /\ \A k \in DOMAIN inbox : inbox[k].type # "Follow_Up"

\* A Delay_Req leaves the switch before the last read.
EgressInTime == attempt = ReadAttempts => requests = <<>>

\* A Sync, stamped by add_ingress_ts.
MasterSync ==
    /\ ~master.owes
    /\ Len(inbox) < MaxQueued
    /\ clock' = (clock + 1) % (UpperMod * HwMod)
    /\ \E two_step \in BOOLEAN :
         /\ Expect(SyncInTime /\ two_step)
         /\ OrLose(Deliver(Sync(master.seq, two_step, clock')), inbox)
         /\ master' = [seq |-> IF two_step THEN master.seq ELSE (master.seq + 1) % SeqMod,
                       owes |-> two_step]
    /\ UNCHANGED <<requests, wire, register, state, times, tracker, nextReq,
                   attempt, sample>>

MasterFollowUp ==
    /\ master.owes
    /\ OrLose(Deliver(FollowUp(master.seq)), inbox)
    /\ master' = [seq |-> (master.seq + 1) % SeqMod, owes |-> FALSE]
    /\ UNCHANGED <<clock, requests, wire, register, state, times, tracker,
                   nextReq, attempt, sample, disturbed>>

\* enable_tstamp_capture: the Delay_Req leaves, its time goes to the register.
EgressDelayReq ==
    /\ requests # <<>>
    /\ clock' = (clock + 1) % (UpperMod * HwMod)
    /\ register' = [valid |-> TRUE, id |-> (register.id + 1) % SeqMod,
                    req |-> Head(requests), at |-> clock']
    /\ requests' = Tail(requests)
    /\ OrLose(wire' = Append(wire, Head(requests)), wire)
    /\ UNCHANGED <<master, inbox, state, times, tracker, nextReq, attempt, sample,
                   disturbed>>

MasterDelayResp ==
    /\ wire # <<>>
    /\ wire' = Tail(wire)
    /\ OrLose(Deliver(DelayResp(Head(wire), TRUE)), inbox)
    /\ UNCHANGED <<clock, master, requests, register, state, times, tracker,
                   nextReq, attempt, sample, disturbed>>

\* The answer to another slave, which numbers its Delay_Reqs on its own.
OtherDelayResp ==
    /\ inbox = <<>>
    /\ \E s \in SeqId : Deliver(DelayResp(s, FALSE))
    /\ UNCHANGED <<clock, master, requests, wire, register, state, times,
                   tracker, nextReq, attempt, sample, losses, disturbed>>
-----------------------------------------------------------------------------
\* The monitor.

\* Mutant: the largest time stamp is kept, not the last one.
MutCombineKeepsLargest(hw) ==
    [upper |-> IF tracker.last # None /\ hw < tracker.last
               THEN (tracker.upper + 1) % UpperMod ELSE tracker.upper,
     last |-> IF tracker.last # None /\ hw < tracker.last THEN tracker.last ELSE hw]

\* TimestampTracker::combine: a smaller time stamp than the one before it means
\* that the hardware counter has wrapped.
Combine(hw) ==
    [upper |-> IF tracker.last # None /\ hw < tracker.last
               THEN (tracker.upper + 1) % UpperMod ELSE tracker.upper,
     last |-> hw]

\* The time combined from the lower bits of `at', a time of message n.
Combined(n, at) ==
    PtpTime(n, Combine(at % HwMod).upper = at \div HwMod)

\* handle_frame for a Sync: reconstruct_t2, handle_sync.
HandleSync(m) ==
    /\ m.type = "Sync"
    /\ tracker' = Combine(m.at % HwMod)
    /\ times' = [times EXCEPT !.t2 = Combined(m.seq, m.at)]
    /\ state' = IF m.two_step
                THEN [waiting |-> TRUE, seq |-> m.seq, t2 |-> Combined(m.seq, m.at)]
                ELSE [waiting |-> FALSE]
    /\ UNCHANGED <<requests, nextReq, attempt, sample, disturbed>>

\* handle_frame for a Follow_Up that does not match.
IgnoreFollowUp(m) ==
    /\ m.type = "Follow_Up"
    /\ state.waiting => state.seq # m.seq
    /\ UNCHANGED <<requests, state, times, tracker, nextReq, attempt, sample,
                   disturbed>>

\* Mutant: T2 is not restored from the state.
MutTakeFollowUp(m) ==
    /\ times' = [times EXCEPT !.t1 = PtpTime(m.seq, TRUE)]
    /\ state' = [waiting |-> FALSE]

\* handle_follow_up for one that matches.
TakeFollowUp(m) ==
    /\ times' = [times EXCEPT !.t1 = PtpTime(m.seq, TRUE),
                              !.t2 = state.t2]
    /\ state' = [waiting |-> FALSE]

\* Then monitor_ptp_l2 calls send_delay_request, whose transmission may fail.
HandleFollowUp(m) ==
    /\ m.type = "Follow_Up"
    /\ state.waiting /\ state.seq = m.seq
    /\ TakeFollowUp(m)
    /\ \/ /\ requests' = Append(requests, nextReq)
          /\ attempt' = 1
          /\ UNCHANGED disturbed
       \/ Disturbance /\ UNCHANGED <<requests, attempt>>
    /\ UNCHANGED <<tracker, nextReq, sample>>

\* Mutant: compared with the counter, which is one ahead by then.
MutExpectedNext(m) == m.own /\ m.seq = nextReq

\* Mutant: Delay_Resps to other slaves are accepted.
MutExpectedForeign(m) == times.delay_req_seq = m.seq

Expected(m) == m.own /\ times.delay_req_seq = m.seq

Complete(t) == None \notin {t.t1, t.t2, t.t3, t.t4}

\* take_complete_sample.
TakeCompleteSample(t) ==
    /\ sample' = [t1 |-> t.t1, t2 |-> t.t2, t3 |-> t.t3, t4 |-> t.t4]
    /\ times' = [t EXCEPT !.t1 = None, !.t2 = None, !.t3 = None, !.t4 = None,
                          !.delay_req_seq = None]

\* handle_delay_resp: T4, and the sample if it is complete with it.
HandleDelayResp(m) ==
    /\ m.type = "Delay_Resp"
    /\ IF ~Expected(m) THEN UNCHANGED <<times, sample>>
       ELSE LET t == [times EXCEPT !.t4 = PtpTime(m.seq, TRUE)] IN
              IF Complete(t) THEN TakeCompleteSample(t)
              ELSE times' = t /\ sample' = sample
    /\ UNCHANGED <<requests, state, tracker, nextReq, attempt, disturbed>>

\* The inner loop of monitor_ptp_l2 takes the next frame.
HandleFrame ==
    /\ attempt = 0
    /\ inbox # <<>>
    /\ inbox' = Tail(inbox)
    /\ LET m == Head(inbox) IN
         HandleSync(m) \/ IgnoreFollowUp(m) \/ HandleFollowUp(m) \/ HandleDelayResp(m)
    /\ UNCHANGED <<clock, master, wire, register, losses>>

\* The ticker of monitor_ptp_l2, 300 ms after the Sync.
ExpireFollowUp ==
    /\ attempt = 0
    /\ state.waiting
    /\ Expect(FollowUpLost)
    /\ state' = [waiting |-> FALSE]
    /\ UNCHANGED <<clock, master, inbox, requests, wire, register, times,
                   tracker, nextReq, attempt, sample, losses>>

\* Mutant: the id is not compared with that of the previous Delay_Req.
MutStale == FALSE

Stale == times.last_id # None /\ register.id = times.last_id

\* send_delay_request returns.
ReadDone ==
    /\ attempt' = 0
    /\ nextReq' = (nextReq + 1) % SeqMod

NextAttempt ==
    /\ IF attempt < ReadAttempts
       THEN attempt' = attempt + 1 /\ nextReq' = nextReq
       ELSE ReadDone
    /\ UNCHANGED <<times, tracker>>

\* The register holds a time: it is taken unless its id is that of the previous
\* Delay_Req, and in the last attempt even then.
CaptureT3 ==
    /\ register.valid
    /\ Stale => attempt = ReadAttempts
    /\ tracker' = Combine(register.at % HwMod)
    /\ times' = [times EXCEPT !.t3 = Combined(register.req, register.at),
                              !.delay_req_seq = nextReq,
                              !.last_id = register.id]
    /\ ReadDone

\* The register holds no time, or that of the previous Delay_Req.
RetryT3 ==
    /\ ~register.valid \/ (Stale /\ attempt < ReadAttempts)
    /\ NextAttempt

\* One attempt of send_delay_request to read T3, by a Thrift call that may fail.
ReadEgressTs ==
    /\ attempt > 0
    /\ \/ Expect(EgressInTime) /\ (CaptureT3 \/ RetryT3)
       \/ Disturbance /\ NextAttempt
    /\ UNCHANGED <<clock, master, inbox, requests, wire, register, state, sample,
                   losses>>

Master ==
    \/ MasterSync
    \/ MasterFollowUp
    \/ MasterDelayResp

Next ==
    \/ Master
    \/ OtherDelayResp
    \/ EgressDelayReq
    \/ HandleFrame
    \/ ExpireFollowUp
    \/ ReadEgressTs

\* The master keeps sending and answering, the switch forwards, and the task of
\* the monitor is scheduled.
Fairness ==
    /\ WF_vars(Master)
    /\ WF_vars(EgressDelayReq)
    /\ WF_vars(HandleFrame)
    /\ WF_vars(ReadEgressTs)

Spec == Init /\ [][Next]_vars
FairSpec == Spec /\ Fairness
-----------------------------------------------------------------------------
\* An accepted Delay_Resp always completes a sample: whenever one is expected
\* the other three times are there, whatever was lost, came too late or was
\* overtaken by the next Sync.  A T4 left over would be paired with the T3 of a
\* later Delay_Req (SyncTimes, ptp.rs).
NoHalfSample ==
    /\ times.t4 = None
    /\ times.delay_req_seq # None => None \notin {times.t1, times.t2, times.t3}

\* Undisturbed, a sample is made of one Sync with its Follow_Up and of one
\* Delay_Req with its Delay_Resp, in spite of lost messages, of a register that
\* still has the previous time, and of answers to other slaves.
OneExchange ==
    sample # None => sample.t1.of = sample.t2.of /\ sample.t3.of = sample.t4.of

SampleFromOneExchange == disturbed = 0 => OneExchange

\* Undisturbed, no time is off by a range of the hardware counter.
TimesExact ==
    disturbed = 0 => \A t \in {times.t2, times.t3} : t # None => t.exact

\* Neither losses nor disturbances stop the samples for good.  (T1 is set by
\* each matching Follow_Up, and only a sample takes it away.)
KeepsSampling == []<>(times.t1 = None) /\ []<>(times.t1 # None)

\* ptp.rs:399 says of delay_req_seq, which is stored with T3: "Sequence ID of
\* the Delay_Req we sent, used to verify Delay_Resp matches".
DelayRespMatches == sample # None => sample.t3.of = sample.t4.of
=============================================================================
