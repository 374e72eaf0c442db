-------------------------- MODULE PtpExchange_proofs --------------------------
(***************************************************************************)
(* What the monitor makes of the messages of the master, for any lengths   *)
(* of the queues, ranges of the counters and numbers of losses: a sample   *)
(* is never left half, and as long as nothing disturbs the exchange it is  *)
(* made of one exchange and its times are exact.                           *)
(***************************************************************************)
EXTENDS PtpExchange, NumberLemmas

ClockRange == UpperMod * HwMod
Stamp == 0 .. (ClockRange - 1)
Time == [of : SeqId, exact : BOOLEAN]

Message ==
    [type : {"Sync"}, seq : SeqId, two_step : BOOLEAN, at : Stamp]
      \union [type : {"Follow_Up"}, seq : SeqId]
      \union [type : {"Delay_Resp"}, seq : SeqId, own : BOOLEAN]

State == [waiting : {FALSE}] \union [waiting : {TRUE}, seq : SeqId, t2 : Time]

Times == [t1 : Time \union {None}, t2 : Time \union {None},
          t3 : Time \union {None}, t4 : Time \union {None},
          delay_req_seq : SeqId \union {None}, last_id : SeqId \union {None}]

Tracker == [upper : 0 .. (UpperMod - 1), last : (0 .. (HwMod - 1)) \union {None}]

TypeOK ==
    /\ clock \in Stamp
    /\ master \in [seq : SeqId, owes : BOOLEAN]
    /\ inbox \in Seq(Message) /\ requests \in Seq(SeqId) /\ wire \in Seq(SeqId)
    /\ register \in [valid : BOOLEAN, id : SeqId, req : SeqId, at : Stamp]
    /\ state \in State
    /\ times \in Times
    /\ tracker \in Tracker
    /\ nextReq \in SeqId /\ attempt \in 0..ReadAttempts
    /\ losses \in 0..MaxLosses /\ disturbed \in Nat

\* T1 and T2 are there from the Follow_Up until T3 has been read.
FollowedUp == attempt > 0 => times.t1 # None /\ times.t2 # None

\* The T2 that waits for its Follow_Up is that of its Sync.
WaitsForOwn == state.waiting => state.t2.of = state.seq

Base == TypeOK /\ NoHalfSample /\ FollowedUp /\ WaitsForOwn
-----------------------------------------------------------------------------
\* Facts about the constants in the form they are used in below.
LEMMA ConstantFacts ==
    /\ ClockRange \in Nat \ {0} /\ HwMod \in Nat \ {0} /\ UpperMod \in Nat \ {0}
    /\ SeqId \subseteq Nat /\ 0 \in SeqId /\ 1 \in SeqId /\ ReadAttempts \in Nat \ {0}
    /\ None \notin SeqId /\ None \notin Time /\ None \notin 0 .. (HwMod - 1)
    /\ MaxLosses \in Nat /\ MaxDisturbances \in Nat
<1>1. ClockRange \in Nat \ {0}
  <2>1. PICK u \in Nat \ {0}, h \in Nat \ {0} : u = UpperMod /\ h = HwMod
    BY PtpAssumption
  <2>2. u * h \in Nat /\ u * h >= 1
    OBVIOUS
  <2> QED BY <2>1, <2>2 DEF ClockRange
<1>2. ASSUME NEW t \in Time PROVE t # None
  <2>1. t = PtpTime(t.of, t.exact) /\ t.of \in SeqId /\ t.exact \in BOOLEAN
    BY DEF Time, PtpTime
  <2> QED BY <2>1, NoneAssumption
<1> QED BY <1>1, <1>2, PtpAssumption, NoneAssumption DEF SeqId

LEMMA NextIdFits ==
    ASSUME NEW n \in SeqId
    PROVE  ((n + 1) % SeqMod) \in SeqId
<1>1. PICK c \in Nat \ {0} : c = SeqMod
  BY PtpAssumption
<1>2. PICK a \in Int : a = n + 1
  BY ConstantFacts
<1>3. (a % c) \in 0 .. (c - 1)
  BY DivMod
<1> QED BY <1>1, <1>2, <1>3 DEF SeqId

LEMMA NextStampFits ==
    ASSUME NEW t \in Int
    PROVE  (t % ClockRange) \in Stamp
<1>1. PICK c \in Nat \ {0} : c = ClockRange
  BY ConstantFacts
<1>2. (t % c) \in 0 .. (c - 1)
  BY DivMod
<1> QED BY <1>1, <1>2 DEF Stamp

\* The fields of a message.
LEMMA MessageFields ==
    ASSUME NEW m \in Message
    PROVE  /\ m.seq \in SeqId /\ m.type \in {"Sync", "Follow_Up", "Delay_Resp"}
           /\ m.type = "Sync" => m.two_step \in BOOLEAN /\ m.at \in Stamp
           /\ m.type = "Delay_Resp" => m.own \in BOOLEAN
BY DEF Message

LEMMA SyncMessage ==
    ASSUME NEW n \in SeqId, NEW b \in BOOLEAN, NEW t \in Stamp
    PROVE  Sync(n, b, t) \in Message
BY DEF Message, Sync

LEMMA FollowUpMessage ==
    ASSUME NEW n \in SeqId
    PROVE  FollowUp(n) \in Message
BY DEF Message, FollowUp

LEMMA DelayRespMessage ==
    ASSUME NEW n \in SeqId, NEW b \in BOOLEAN
    PROVE  DelayResp(n, b) \in Message
BY DEF Message, DelayResp

\* What the tracker makes of a time stamp.
LEMMA CombineType ==
    ASSUME TypeOK, NEW t \in Stamp, NEW n \in SeqId
    PROVE  Combine(t % HwMod) \in Tracker /\ Combined(n, t) \in Time
           /\ Combine(t % HwMod).last = t % HwMod /\ Combined(n, t).of = n
<1>1. PICK h \in Nat \ {0}, u \in Nat \ {0} : h = HwMod /\ u = UpperMod
  BY ConstantFacts
<1>2. (t % h) \in 0 .. (h - 1)
  <2>1. t \in Int
    BY ConstantFacts DEF Stamp
  <2> QED BY <2>1, DivMod
<1>3. ((tracker.upper + 1) % u) \in 0 .. (u - 1)
  <2>1. PICK a \in Int : a = tracker.upper + 1
    BY <1>1 DEF TypeOK, Tracker
  <2> QED BY <2>1, DivMod
<1>4. tracker.upper \in 0 .. (u - 1)
  BY <1>1 DEF TypeOK, Tracker
<1>5. Combine(t % HwMod) \in Tracker /\ Combine(t % HwMod).last = t % HwMod
  BY <1>1, <1>2, <1>3, <1>4 DEF Combine, Tracker
<1>6. Combined(n, t) \in Time /\ Combined(n, t).of = n
  BY DEF Combined, PtpTime, Time
<1> QED BY <1>5, <1>6

\* A message that is sent arrives or is lost.
LEMMA ArrivesOrIsLost ==
    ASSUME NEW m, OrLose(Deliver(m), inbox)
    PROVE  \/ inbox' = Append(inbox, m) /\ losses' = losses
           \/ inbox' = inbox /\ losses < MaxLosses /\ losses' = losses + 1
BY DEF OrLose, Deliver

LEMMA ArrivalType ==
    ASSUME TypeOK, NEW m \in Message, OrLose(Deliver(m), inbox)
    PROVE  inbox' \in Seq(Message) /\ losses' \in 0..MaxLosses
<1>1. CASE inbox' = Append(inbox, m) /\ losses' = losses
  <2>1. losses' \in 0..MaxLosses
    BY <1>1 DEF TypeOK
  <2>2. inbox' \in Seq(Message)
    BY <1>1 DEF TypeOK
  <2> QED BY <2>1, <2>2
<1>2. CASE inbox' = inbox /\ losses < MaxLosses /\ losses' = losses + 1
  <2>1. losses' \in 0..MaxLosses
    BY <1>2, ConstantFacts DEF TypeOK
  <2>2. inbox' \in Seq(Message)
    BY <1>2 DEF TypeOK
  <2> QED BY <2>1, <2>2
<1> QED BY <1>1, <1>2, ArrivesOrIsLost
-----------------------------------------------------------------------------
LEMMA InitBase == Init => Base
<1> SUFFICES ASSUME Init PROVE Base
  OBVIOUS
<1>1. 0 \in Stamp /\ 0 \in 0 .. (UpperMod - 1)
  BY ConstantFacts DEF Stamp
<1>2. TypeOK
  BY <1>1, ConstantFacts DEF Init, TypeOK, State, Times, Tracker
<1> QED BY <1>2 DEF Init, Base, NoHalfSample, FollowedUp, WaitsForOwn

\* What the surroundings of the monitor do to the queues and the register.
LEMMA MasterSyncBase == Base /\ MasterSync => Base'
<1> SUFFICES ASSUME Base, MasterSync PROVE Base'
  OBVIOUS
<1> USE DEF Base
<1>1. PICK two_step \in BOOLEAN :
        /\ Expect(SyncInTime /\ two_step)
        /\ OrLose(Deliver(Sync(master.seq, two_step, clock')), inbox)
        /\ master' = [seq |-> IF two_step THEN master.seq ELSE (master.seq + 1) % SeqMod,
                      owes |-> two_step]
  BY DEF MasterSync
<1>2. /\ clock' = (clock + 1) % ClockRange
      /\ UNCHANGED <<requests, wire, register, state, times, tracker, nextReq,
                     attempt, sample>>
  BY DEF MasterSync, ClockRange
<1>3. clock' \in Stamp
  <2>1. PICK a \in Int : a = clock + 1
    BY ConstantFacts DEF TypeOK, Stamp
  <2> QED BY <1>2, <2>1, NextStampFits
<1>4. master' \in [seq : SeqId, owes : BOOLEAN]
  BY <1>1, NextIdFits DEF TypeOK
<1>5. inbox' \in Seq(Message) /\ losses' \in 0..MaxLosses
  <2>1. Sync(master.seq, two_step, clock') \in Message
    BY <1>3, SyncMessage DEF TypeOK
  <2> QED BY <1>1, <2>1, ArrivalType
<1>6. disturbed' \in Nat
  BY <1>1 DEF TypeOK, Expect, Disturbance
<1>7. TypeOK'
  BY <1>2, <1>3, <1>4, <1>5, <1>6 DEF TypeOK
<1> QED BY <1>2, <1>7 DEF NoHalfSample, FollowedUp, WaitsForOwn

LEMMA MasterFollowUpBase == Base /\ MasterFollowUp => Base'
<1> SUFFICES ASSUME Base, MasterFollowUp PROVE Base'
  OBVIOUS
<1> USE DEF Base
<1>1. master' \in [seq : SeqId, owes : BOOLEAN]
  BY NextIdFits DEF TypeOK, MasterFollowUp
<1>2. inbox' \in Seq(Message) /\ losses' \in 0..MaxLosses
  <2>1. FollowUp(master.seq) \in Message
    BY FollowUpMessage DEF TypeOK
  <2> QED BY <2>1, ArrivalType DEF MasterFollowUp
<1>3. TypeOK'
  BY <1>1, <1>2 DEF TypeOK, MasterFollowUp
<1> QED BY <1>3 DEF MasterFollowUp, NoHalfSample, FollowedUp, WaitsForOwn

LEMMA EgressDelayReqBase == Base /\ EgressDelayReq => Base'
<1> SUFFICES ASSUME Base, EgressDelayReq PROVE Base'
  OBVIOUS
<1> USE DEF Base
<1>1. clock' \in Stamp
  <2>1. PICK a \in Int : a = clock + 1
    BY ConstantFacts DEF TypeOK, Stamp
  <2> QED BY <2>1, NextStampFits DEF EgressDelayReq, ClockRange
<1>2. Head(requests) \in SeqId /\ Tail(requests) \in Seq(SeqId)
  BY DEF EgressDelayReq, TypeOK
<1>3. register' \in [valid : BOOLEAN, id : SeqId, req : SeqId, at : Stamp]
  BY <1>1, <1>2, NextIdFits DEF EgressDelayReq, TypeOK
<1>4. wire' \in Seq(SeqId) /\ losses' \in 0..MaxLosses
  <2>1. CASE wire' = Append(wire, Head(requests)) /\ losses' = losses
    <3>1. losses' \in 0..MaxLosses
      BY <2>1 DEF TypeOK
    <3>2. wire' \in Seq(SeqId)
      BY <2>1, <1>2 DEF TypeOK
    <3> QED BY <3>1, <3>2
  <2>2. CASE wire' = wire /\ losses < MaxLosses /\ losses' = losses + 1
    <3>1. losses' \in 0..MaxLosses
      BY <2>2, ConstantFacts DEF TypeOK
    <3>2. wire' \in Seq(SeqId)
      BY <2>2 DEF TypeOK
    <3> QED BY <3>1, <3>2
  <2> QED BY <2>1, <2>2 DEF EgressDelayReq, OrLose
<1>5. TypeOK'
  BY <1>1, <1>2, <1>3, <1>4 DEF EgressDelayReq, TypeOK
<1> QED BY <1>5 DEF EgressDelayReq, NoHalfSample, FollowedUp, WaitsForOwn

LEMMA MasterDelayRespBase == Base /\ MasterDelayResp => Base'
<1> SUFFICES ASSUME Base, MasterDelayResp PROVE Base'
  OBVIOUS
<1> USE DEF Base
<1>1. wire' \in Seq(SeqId) /\ Head(wire) \in SeqId
  BY DEF MasterDelayResp, TypeOK
<1>2. inbox' \in Seq(Message) /\ losses' \in 0..MaxLosses
  <2>1. DelayResp(Head(wire), TRUE) \in Message
    BY <1>1, DelayRespMessage
  <2> QED BY <2>1, ArrivalType DEF MasterDelayResp
<1>3. TypeOK'
  BY <1>1, <1>2 DEF MasterDelayResp, TypeOK
<1> QED BY <1>3 DEF MasterDelayResp, NoHalfSample, FollowedUp, WaitsForOwn

LEMMA OtherDelayRespBase == Base /\ OtherDelayResp => Base'
<1> SUFFICES ASSUME Base, OtherDelayResp PROVE Base'
  OBVIOUS
<1> USE DEF Base
<1>1. PICK m \in Message : inbox' = Append(inbox, m)
  BY DelayRespMessage DEF OtherDelayResp, Deliver
<1>2. inbox' \in Seq(Message)
  BY <1>1 DEF TypeOK
<1>3. TypeOK'
  BY <1>2 DEF OtherDelayResp, TypeOK
<1> QED BY <1>3 DEF OtherDelayResp, NoHalfSample, FollowedUp, WaitsForOwn

\* What the handlers of the monitor do: `m' is the frame they are given.
LEMMA HandleSyncBase ==
    ASSUME Base, NEW m \in Message, HandleSync(m), inbox' \in Seq(Message),
           UNCHANGED <<clock, master, wire, register, losses>>, attempt = 0
    PROVE  Base'
<1> USE DEF Base
<1>1. m.at \in Stamp /\ m.seq \in SeqId
  BY MessageFields DEF HandleSync
<1>2. tracker' \in Tracker /\ Combined(m.seq, m.at) \in Time
      /\ Combined(m.seq, m.at).of = m.seq
  BY <1>1, CombineType DEF HandleSync
<1>3. times' \in Times
  BY <1>2 DEF HandleSync, TypeOK, Times
<1>4. state' \in State /\ WaitsForOwn'
  BY <1>1, <1>2 DEF HandleSync, State, WaitsForOwn
<1>5. TypeOK'
  BY <1>2, <1>3, <1>4 DEF HandleSync, TypeOK
<1>6. NoHalfSample'
  <2>1. Combined(m.seq, m.at) # None
    BY <1>2, ConstantFacts
  <2> QED BY <2>1 DEF HandleSync, NoHalfSample, TypeOK, Times
<1> QED BY <1>4, <1>5, <1>6 DEF HandleSync, FollowedUp

LEMMA HandleFollowUpBase ==
    ASSUME Base, NEW m \in Message, HandleFollowUp(m), inbox' \in Seq(Message),
           UNCHANGED <<clock, master, wire, register, losses>>, attempt = 0
    PROVE  Base'
<1> USE DEF Base
<1>1. m.seq \in SeqId /\ state.t2 \in Time
  BY MessageFields DEF HandleFollowUp, TypeOK, State
<1>2. PtpTime(m.seq, TRUE) \in Time
  BY <1>1 DEF PtpTime, Time
<1>3. PtpTime(m.seq, TRUE) # None /\ state.t2 # None
  BY <1>1, <1>2, ConstantFacts
<1>4. times' \in Times /\ times'.t1 = PtpTime(m.seq, TRUE) /\ times'.t2 = state.t2
      /\ times'.t3 = times.t3 /\ times'.t4 = times.t4
      /\ times'.delay_req_seq = times.delay_req_seq
  BY <1>1, <1>2 DEF HandleFollowUp, TakeFollowUp, TypeOK, Times
<1>5. state' \in State /\ WaitsForOwn'
  BY DEF HandleFollowUp, TakeFollowUp, State, WaitsForOwn
<1>6. requests' \in Seq(SeqId) /\ attempt' \in 0..ReadAttempts /\ disturbed' \in Nat
  <2>1. CASE requests' = Append(requests, nextReq) /\ attempt' = 1 /\ UNCHANGED disturbed
    BY <2>1, ConstantFacts DEF TypeOK
  <2>2. CASE Disturbance /\ UNCHANGED <<requests, attempt>>
    BY <2>2 DEF TypeOK, Disturbance
  <2> QED BY <2>1, <2>2 DEF HandleFollowUp
<1>7. TypeOK'
  BY <1>4, <1>5, <1>6 DEF HandleFollowUp, TypeOK
<1>8. NoHalfSample' /\ FollowedUp'
  BY <1>3, <1>4 DEF NoHalfSample, FollowedUp
<1> QED BY <1>5, <1>7, <1>8

LEMMA HandleDelayRespBase ==
    ASSUME Base, NEW m \in Message, HandleDelayResp(m), inbox' \in Seq(Message),
           UNCHANGED <<clock, master, wire, register, losses>>, attempt = 0
    PROVE  Base'
<1> USE DEF Base
<1>1. CASE ~Expected(m)
  <2>1. TypeOK'
    BY <1>1 DEF HandleDelayResp, TypeOK
  <2> QED BY <1>1, <2>1 DEF HandleDelayResp, NoHalfSample, FollowedUp, WaitsForOwn
<1>2. CASE Expected(m)
  <2> DEFINE t == [times EXCEPT !.t4 = PtpTime(m.seq, TRUE)]
  <2>1. m.seq \in SeqId /\ times.delay_req_seq # None
    BY <1>2, ConstantFacts, MessageFields DEF Expected
  <2>2. PtpTime(m.seq, TRUE) \in Time /\ PtpTime(m.seq, TRUE) # None
    <3>1. PtpTime(m.seq, TRUE) \in Time
      BY <2>1 DEF PtpTime, Time
    <3> QED BY <3>1, ConstantFacts
  <2>3. t \in Times /\ Complete(t)
    BY <2>1, <2>2 DEF TypeOK, Times, Complete, NoHalfSample
  <2>4. TakeCompleteSample(t)
    BY <1>2, <2>3 DEF HandleDelayResp
  <2>5. times' \in Times /\ times'.t4 = None /\ times'.delay_req_seq = None
    BY <2>3, <2>4 DEF TakeCompleteSample, Times
  <2>6. TypeOK'
    BY <2>5 DEF HandleDelayResp, TypeOK
  <2> QED BY <2>5, <2>6 DEF HandleDelayResp, NoHalfSample, FollowedUp, WaitsForOwn
<1> QED BY <1>1, <1>2

LEMMA HandleFrameBase == Base /\ HandleFrame => Base'
<1> SUFFICES ASSUME Base, HandleFrame PROVE Base'
  OBVIOUS
<1> DEFINE m == Head(inbox)
<1>1. m \in Message /\ inbox' \in Seq(Message) /\ attempt = 0
      /\ UNCHANGED <<clock, master, wire, register, losses>>
  BY DEF HandleFrame, Base, TypeOK
<1>2. HandleSync(m) \/ IgnoreFollowUp(m) \/ HandleFollowUp(m) \/ HandleDelayResp(m)
  BY DEF HandleFrame
<1> HIDE DEF m
<1>3. CASE IgnoreFollowUp(m)
  BY <1>1, <1>3 DEF IgnoreFollowUp, Base, TypeOK, NoHalfSample, FollowedUp, WaitsForOwn
<1> QED BY <1>1, <1>2, <1>3, HandleSyncBase, HandleFollowUpBase, HandleDelayRespBase

LEMMA ExpireFollowUpBase == Base /\ ExpireFollowUp => Base'
<1> SUFFICES ASSUME Base, ExpireFollowUp PROVE Base'
  OBVIOUS
<1>1. TypeOK'
  BY DEF ExpireFollowUp, Expect, Disturbance, Base, TypeOK, State
<1> QED BY <1>1 DEF ExpireFollowUp, Base, NoHalfSample, FollowedUp, WaitsForOwn

LEMMA ReadEgressTsBase == Base /\ ReadEgressTs => Base'
<1> SUFFICES ASSUME Base, ReadEgressTs PROVE Base'
  OBVIOUS
<1> USE DEF Base
<1>1. attempt > 0 /\ disturbed' \in Nat
      /\ UNCHANGED <<clock, master, inbox, requests, wire, register, state, sample, losses>>
  BY DEF ReadEgressTs, Expect, Disturbance, TypeOK
<1>2. CASE CaptureT3
  <2>1. tracker' \in Tracker /\ Combined(register.req, register.at) \in Time
    BY <1>2, CombineType DEF CaptureT3, TypeOK
  <2>2. Combined(register.req, register.at) # None
    BY <2>1, ConstantFacts
  <2>3. /\ times' \in Times /\ times'.t1 = times.t1 /\ times'.t2 = times.t2
        /\ times'.t3 = Combined(register.req, register.at) /\ times'.t4 = times.t4
    BY <1>2, <2>1 DEF CaptureT3, TypeOK, Times
  <2>4. nextReq' \in SeqId /\ attempt' = 0
    BY <1>2, NextIdFits DEF CaptureT3, ReadDone, TypeOK
  <2>5. TypeOK'
    BY <1>1, <2>1, <2>3, <2>4, ConstantFacts DEF TypeOK
  <2> QED BY <1>1, <2>2, <2>3, <2>4, <2>5 DEF NoHalfSample, FollowedUp, WaitsForOwn
<1>3. CASE NextAttempt
  <2>1. nextReq' \in SeqId /\ attempt' \in 0..ReadAttempts
    BY <1>3, NextIdFits, ConstantFacts DEF NextAttempt, ReadDone, TypeOK
  <2>2. TypeOK'
    BY <1>1, <1>3, <2>1 DEF NextAttempt, TypeOK
  <2> QED BY <1>1, <1>3, <2>2 DEF NextAttempt, NoHalfSample, FollowedUp, WaitsForOwn
<1> QED BY <1>2, <1>3 DEF ReadEgressTs, RetryT3

LEMMA StepBase == Base /\ [Next]_vars => Base'
<1> SUFFICES ASSUME Base, [Next]_vars PROVE Base'
  OBVIOUS
<1>1. CASE UNCHANGED vars
  BY <1>1 DEF vars, Base, TypeOK, NoHalfSample, FollowedUp, WaitsForOwn
<1> QED BY <1>1, MasterSyncBase, MasterFollowUpBase, MasterDelayRespBase, OtherDelayRespBase,
           EgressDelayReqBase, HandleFrameBase, ExpireFollowUpBase, ReadEgressTsBase
        DEF Next, Master

\* The variables keep their types (the state of monitor_ptp_l2 and of what
\* surrounds it).
THEOREM TypeCorrect == Spec => []TypeOK
<1>1. Base => TypeOK
  BY DEF Base
<1> QED BY <1>1, InitBase, StepBase, PTL DEF Spec

\* The monitor never keeps a T4: an accepted Delay_Resp always finds the other
\* three times (handle_delay_resp).
THEOREM NeverHalf == Spec => []NoHalfSample
<1>1. Base => NoHalfSample
  BY DEF Base
<1> QED BY <1>1, InitBase, StepBase, PTL DEF Spec
-----------------------------------------------------------------------------
(***************************************************************************)
(* What holds while nothing disturbs the exchange.  The announcements of   *)
(* the next exchange come after the answers of the one before: a Sync, its *)
(* Follow_Up, the Delay_Req and its answer take turns.                     *)
(***************************************************************************)
Announcement(m) == m.type # "Delay_Resp"
OwnAnswer(m) == m.type = "Delay_Resp" /\ m.own

NoFollowUp(q) == \A k \in DOMAIN q : q[k].type # "Follow_Up"
NoAnnouncement(q) == \A k \in DOMAIN q : ~Announcement(q[k])
NoOwnAnswer(q) == \A k \in DOMAIN q : ~OwnAnswer(q[k])

FollowUpLast(q) ==
    \A j, k \in DOMAIN q : q[j].type = "Follow_Up" /\ Announcement(q[k]) => k <= j
AnswersFirst(q) ==
    \A j, k \in DOMAIN q : Announcement(q[j]) /\ OwnAnswer(q[k]) => k < j

\* No Delay_Req is under way.
Over == requests = <<>> /\ wire = <<>> /\ attempt = 0

Ordered ==
    /\ master.owes => Over /\ NoFollowUp(inbox)
    /\ state.waiting => Over
    /\ Over \/ NoAnnouncement(inbox)
    /\ FollowUpLast(inbox) /\ AnswersFirst(inbox)

\* The register has the time of the previous Delay_Req until that of the last
\* one is there, and the monitor can tell.
Captured ==
    /\ requests # <<>> =>
         attempt > 0 /\ requests = <<nextReq>> /\ (register.valid => Stale)
    /\ attempt > 0 /\ requests = <<>> => register.valid /\ register.req = nextReq
    /\ attempt = 0 /\ register.valid => Stale

\* The times that are there belong together when the answer comes.
Paired ==
    /\ times.t3 # None /\ times.delay_req_seq # None =>
         times.t3.of = times.delay_req_seq
    /\ times.t1 # None /\ times.t2 # None /\ times.t1.of # times.t2.of =>
         Over /\ NoOwnAnswer(inbox)

InTurn == Ordered /\ Captured /\ Paired /\ OneExchange

ExchangeInv == Base /\ (disturbed = 0 => InTurn)
-----------------------------------------------------------------------------
\* What is left of a queue after its first frame.
LEMMA TailOfQueue ==
    ASSUME NEW q \in Seq(Message), q # <<>>
    PROVE  /\ NoFollowUp(q) => NoFollowUp(Tail(q))
           /\ NoAnnouncement(q) => NoAnnouncement(Tail(q))
           /\ NoOwnAnswer(q) => NoOwnAnswer(Tail(q))
           /\ FollowUpLast(q) => FollowUpLast(Tail(q))
           /\ AnswersFirst(q) => AnswersFirst(Tail(q))
<1>1. /\ DOMAIN q = 1..Len(q) /\ DOMAIN Tail(q) = 1..(Len(q) - 1) /\ Len(q) \in Nat
      /\ \A k \in 1..(Len(q) - 1) : Tail(q)[k] = q[k+1] /\ k+1 \in 1..Len(q)
  OBVIOUS
<1>2. NoFollowUp(q) => NoFollowUp(Tail(q))
  BY <1>1 DEF NoFollowUp
<1>3. NoAnnouncement(q) => NoAnnouncement(Tail(q))
  BY <1>1 DEF NoAnnouncement
<1>4. NoOwnAnswer(q) => NoOwnAnswer(Tail(q))
  BY <1>1 DEF NoOwnAnswer
<1>5. FollowUpLast(q) => FollowUpLast(Tail(q))
  BY <1>1 DEF FollowUpLast
<1>6. AnswersFirst(q) => AnswersFirst(Tail(q))
  BY <1>1 DEF AnswersFirst
<1> QED BY <1>2, <1>3, <1>4, <1>5, <1>6

\* What the first frame says of the others.
LEMMA HeadOfQueue ==
    ASSUME NEW q \in Seq(Message), q # <<>>
    PROVE  /\ Head(q) = q[1] /\ 1 \in DOMAIN q
           /\ FollowUpLast(q) /\ Head(q).type = "Follow_Up" => NoAnnouncement(Tail(q))
           /\ AnswersFirst(q) /\ Announcement(Head(q)) => NoOwnAnswer(q)
<1>1. /\ DOMAIN q = 1..Len(q) /\ DOMAIN Tail(q) = 1..(Len(q) - 1) /\ Len(q) \in Nat
      /\ \A k \in 1..(Len(q) - 1) : Tail(q)[k] = q[k+1] /\ k+1 \in 1..Len(q)
      /\ Head(q) = q[1] /\ 1 \in 1..Len(q)
  OBVIOUS
<1>2. FollowUpLast(q) /\ Head(q).type = "Follow_Up" => NoAnnouncement(Tail(q))
  BY <1>1 DEF FollowUpLast, NoAnnouncement
<1>3. AnswersFirst(q) /\ Announcement(Head(q)) => NoOwnAnswer(q)
  BY <1>1 DEF AnswersFirst, NoOwnAnswer
<1> QED BY <1>1, <1>2, <1>3

\* An announcement joins a queue.
LEMMA AnnouncementJoins ==
    ASSUME NEW q \in Seq(Message), NEW m \in Message, Announcement(m)
    PROVE  /\ NoFollowUp(q) /\ AnswersFirst(q) =>
                FollowUpLast(Append(q, m)) /\ AnswersFirst(Append(q, m))
           /\ NoFollowUp(q) /\ m.type = "Sync" => NoFollowUp(Append(q, m))
           /\ NoOwnAnswer(q) => NoOwnAnswer(Append(q, m))
<1>1. /\ DOMAIN q = 1..Len(q) /\ DOMAIN Append(q, m) = 1..(Len(q) + 1) /\ Len(q) \in Nat
      /\ \A k \in 1..Len(q) : Append(q, m)[k] = q[k]
      /\ Append(q, m)[Len(q) + 1] = m
  OBVIOUS
<1>2. ~OwnAnswer(m)
  BY DEF Announcement, OwnAnswer
<1> DEFINE p == Append(q, m)
<1> HIDE DEF p
<1>3. NoFollowUp(q) => FollowUpLast(p)
  BY <1>1 DEF NoFollowUp, FollowUpLast, p
<1>4. AnswersFirst(q) => AnswersFirst(p)
  BY <1>1, <1>2 DEF AnswersFirst, p
<1>5. NoFollowUp(q) /\ m.type = "Sync" => NoFollowUp(p)
  BY <1>1 DEF NoFollowUp, p
<1>6. NoOwnAnswer(q) => NoOwnAnswer(p)
  BY <1>1, <1>2 DEF NoOwnAnswer, p
<1> QED BY <1>3, <1>4, <1>5, <1>6 DEF p

\* A Delay_Resp joins a queue without announcements.
LEMMA AnswerJoins ==
    ASSUME NEW q \in Seq(Message), NEW m \in Message, ~Announcement(m), NoAnnouncement(q)
    PROVE  /\ NoAnnouncement(Append(q, m)) /\ NoFollowUp(Append(q, m))
           /\ FollowUpLast(Append(q, m)) /\ AnswersFirst(Append(q, m))
           /\ NoOwnAnswer(q) /\ ~OwnAnswer(m) => NoOwnAnswer(Append(q, m))
<1>1. /\ DOMAIN q = 1..Len(q) /\ DOMAIN Append(q, m) = 1..(Len(q) + 1) /\ Len(q) \in Nat
      /\ \A k \in 1..Len(q) : Append(q, m)[k] = q[k]
      /\ Append(q, m)[Len(q) + 1] = m
  OBVIOUS
<1> DEFINE p == Append(q, m)
<1> HIDE DEF p
<1>2. NoAnnouncement(p)
  BY <1>1 DEF NoAnnouncement, p
<1>3. NoFollowUp(p) /\ FollowUpLast(p) /\ AnswersFirst(p)
  BY <1>2 DEF NoAnnouncement, NoFollowUp, FollowUpLast, AnswersFirst, Announcement
<1>4. NoOwnAnswer(q) /\ ~OwnAnswer(m) => NoOwnAnswer(p)
  BY <1>1 DEF NoOwnAnswer, p
<1> QED BY <1>2, <1>3, <1>4 DEF p
-----------------------------------------------------------------------------
LEMMA InitExchange == Init => ExchangeInv
<1> SUFFICES ASSUME Init PROVE ExchangeInv
  OBVIOUS
<1>1. NoFollowUp(inbox) /\ NoAnnouncement(inbox) /\ NoOwnAnswer(inbox)
      /\ FollowUpLast(inbox) /\ AnswersFirst(inbox)
  BY DEF Init, NoFollowUp, NoAnnouncement, NoOwnAnswer, FollowUpLast, AnswersFirst
<1>2. Over
  BY DEF Init, Over
<1> QED BY <1>1, <1>2, InitBase DEF Init, ExchangeInv, InTurn, Ordered, Captured, Paired,
                                   OneExchange

\* A disturbance is not forgotten.
LEMMA StaysUndisturbed ==
    ASSUME Base, [Next]_vars, disturbed' = 0
    PROVE  disturbed = 0 /\ ~Disturbance
<1>1. disturbed \in Nat
  BY DEF Base, TypeOK
<1>2. ~Disturbance
  BY <1>1 DEF Disturbance
<1>3. CASE UNCHANGED vars
  BY <1>2, <1>3 DEF vars
<1>4. CASE MasterSync
  BY <1>2, <1>4 DEF MasterSync, Expect
<1>5. CASE MasterFollowUp \/ MasterDelayResp \/ OtherDelayResp \/ EgressDelayReq
  BY <1>2, <1>5 DEF MasterFollowUp, MasterDelayResp, OtherDelayResp, EgressDelayReq
<1>6. CASE HandleFrame
  BY <1>2, <1>6 DEF HandleFrame, HandleSync, IgnoreFollowUp, HandleFollowUp, HandleDelayResp
<1>7. CASE ExpireFollowUp
  BY <1>2, <1>7 DEF ExpireFollowUp, Expect
<1>8. CASE ReadEgressTs
  BY <1>2, <1>8 DEF ReadEgressTs, Expect
<1> QED BY <1>2, <1>3, <1>4, <1>5, <1>6, <1>7, <1>8 DEF Next, Master

LEMMA MasterSyncInTurn ==
    ASSUME Base, Base', InTurn, MasterSync, ~Disturbance
    PROVE  InTurn'
<1>1. PICK two_step \in BOOLEAN :
        /\ SyncInTime /\ two_step
        /\ OrLose(Deliver(Sync(master.seq, two_step, clock')), inbox)
  BY DEF MasterSync, Expect
<1>2. UNCHANGED <<requests, wire, register, state, times, tracker, nextReq, attempt, sample>>
  BY DEF MasterSync
<1>3. Over /\ NoFollowUp(inbox) /\ AnswersFirst(inbox) /\ FollowUpLast(inbox)
  BY <1>1 DEF SyncInTime, Over, NoFollowUp, InTurn, Ordered
<1> DEFINE m == Sync(master.seq, two_step, clock')
<1>4. m \in Message /\ m.type = "Sync" /\ Announcement(m)
  BY SyncMessage DEF Base, TypeOK, Sync, Announcement
<1>5. inbox \in Seq(Message) /\ OrLose(Deliver(m), inbox)
  BY <1>1 DEF Base, TypeOK
<1> HIDE DEF m
<1>6. NoFollowUp(inbox') /\ FollowUpLast(inbox') /\ AnswersFirst(inbox')
      /\ (NoOwnAnswer(inbox) => NoOwnAnswer(inbox'))
  BY <1>3, <1>4, <1>5, ArrivesOrIsLost, AnnouncementJoins
<1>7. Over'
  BY <1>2, <1>3 DEF Over
<1>8. Ordered'
  BY <1>6, <1>7 DEF Ordered
<1>9. Captured'
  BY <1>2 DEF InTurn, Captured, Stale
<1>10. Paired'
  BY <1>2, <1>6, <1>7 DEF InTurn, Paired
<1> QED BY <1>2, <1>8, <1>9, <1>10 DEF InTurn, OneExchange

LEMMA MasterFollowUpInTurn ==
    ASSUME Base, Base', InTurn, MasterFollowUp
    PROVE  InTurn'
<1>1. OrLose(Deliver(FollowUp(master.seq)), inbox) /\ ~master'.owes
  BY DEF MasterFollowUp
<1>2. UNCHANGED <<requests, wire, register, state, times, tracker, nextReq, attempt, sample>>
  BY DEF MasterFollowUp
<1>3. Over /\ NoFollowUp(inbox) /\ AnswersFirst(inbox) /\ FollowUpLast(inbox)
  BY DEF MasterFollowUp, InTurn, Ordered
<1> DEFINE m == FollowUp(master.seq)
<1>4. m \in Message /\ Announcement(m)
  BY FollowUpMessage DEF Base, TypeOK, FollowUp, Announcement
<1>5. inbox \in Seq(Message) /\ OrLose(Deliver(m), inbox)
  BY <1>1 DEF Base, TypeOK
<1> HIDE DEF m
<1>6. FollowUpLast(inbox') /\ AnswersFirst(inbox')
      /\ (NoOwnAnswer(inbox) => NoOwnAnswer(inbox'))
  BY <1>3, <1>4, <1>5, ArrivesOrIsLost, AnnouncementJoins
<1>7. Over'
  BY <1>2, <1>3 DEF Over
<1>8. Ordered'
  BY <1>1, <1>6, <1>7 DEF Ordered
<1>9. Captured'
  BY <1>2 DEF InTurn, Captured, Stale
<1>10. Paired'
  BY <1>2, <1>6, <1>7 DEF InTurn, Paired
<1> QED BY <1>2, <1>8, <1>9, <1>10 DEF InTurn, OneExchange

\* While a Delay_Req is under way there are no announcements.
LEMMA NotOver ==
    ASSUME Base, InTurn, ~Over
    PROVE  /\ ~master.owes /\ ~state.waiting /\ NoAnnouncement(inbox)
           /\ times.t1 # None /\ times.t2 # None => times.t1.of = times.t2.of
BY DEF InTurn, Ordered, Paired

LEMMA EgressDelayReqInTurn ==
    ASSUME Base, Base', InTurn, EgressDelayReq
    PROVE  InTurn'
<1>1. ~Over
  BY DEF EgressDelayReq, Over
<1>2. UNCHANGED <<master, inbox, state, times, tracker, nextReq, attempt, sample>>
  BY DEF EgressDelayReq
<1>3. Ordered'
  BY <1>1, <1>2, NotOver DEF InTurn, Ordered
<1>4. attempt > 0 /\ requests = <<nextReq>>
  BY DEF EgressDelayReq, InTurn, Captured
<1>5. requests' = <<>> /\ register'.valid /\ register'.req = nextReq
  BY <1>4 DEF EgressDelayReq
<1>6. Captured'
  BY <1>2, <1>4, <1>5 DEF Captured, Base, TypeOK
<1>7. Paired'
  BY <1>1, <1>2, NotOver DEF InTurn, Paired
<1> QED BY <1>2, <1>3, <1>6, <1>7 DEF InTurn, OneExchange

\* An answer is put into a queue without announcements.
LEMMA AnswerInTurn ==
    ASSUME Base, Base', InTurn, NoAnnouncement(inbox),
           NEW m \in Message, ~Announcement(m),
           inbox' = Append(inbox, m) \/ inbox' = inbox, ~OwnAnswer(m) \/ ~Over,
           wire' = wire \/ ~Over,
           UNCHANGED <<master, requests, register, state, times, nextReq, attempt, sample>>
    PROVE  InTurn'
<1>1. NoAnnouncement(inbox') /\ NoFollowUp(inbox') /\ FollowUpLast(inbox')
      /\ AnswersFirst(inbox') /\ (NoOwnAnswer(inbox) /\ ~OwnAnswer(m) => NoOwnAnswer(inbox'))
  <2>1. inbox \in Seq(Message)
    BY DEF Base, TypeOK
  <2>2. NoFollowUp(inbox) /\ FollowUpLast(inbox) /\ AnswersFirst(inbox)
    BY DEF NoAnnouncement, NoFollowUp, FollowUpLast, AnswersFirst, Announcement
  <2> QED BY <2>1, <2>2, AnswerJoins
<1>2. Over => Over'
  BY DEF Over
<1>3. Ordered'
  BY <1>1, <1>2 DEF InTurn, Ordered
<1>4. Captured'
  BY DEF InTurn, Captured, Stale
<1>5. Paired'
  BY <1>1, <1>2, NotOver DEF InTurn, Paired
<1> QED BY <1>3, <1>4, <1>5 DEF InTurn, OneExchange

LEMMA MasterDelayRespInTurn ==
    ASSUME Base, Base', InTurn, MasterDelayResp
    PROVE  InTurn'
<1> DEFINE m == DelayResp(Head(wire), TRUE)
<1>1. OrLose(Deliver(m), inbox)
      /\ UNCHANGED <<master, requests, register, state, times, nextReq, attempt, sample>>
  BY DEF MasterDelayResp
<1>2. ~Over
  BY DEF MasterDelayResp, Over
<1>3. m \in Message
  <2>1. Head(wire) \in SeqId
    BY DEF MasterDelayResp, Base, TypeOK
  <2> QED BY <2>1, DelayRespMessage
<1>4. ~Announcement(m)
  BY DEF DelayResp, Announcement
<1> HIDE DEF m
<1> QED BY <1>1, <1>2, <1>3, <1>4, ArrivesOrIsLost, NotOver, AnswerInTurn

LEMMA OtherDelayRespInTurn ==
    ASSUME Base, Base', InTurn, OtherDelayResp
    PROVE  InTurn'
<1>1. PICK m \in Message :
        inbox' = Append(inbox, m) /\ ~Announcement(m) /\ ~OwnAnswer(m)
  <2>1. PICK s \in SeqId : inbox' = Append(inbox, DelayResp(s, FALSE))
    BY DEF OtherDelayResp, Deliver
  <2> QED BY <2>1, DelayRespMessage DEF DelayResp, Announcement, OwnAnswer
<1>2. NoAnnouncement(inbox)
  BY DEF OtherDelayResp, NoAnnouncement
<1>3. wire' = wire
      /\ UNCHANGED <<master, requests, register, state, times, nextReq, attempt, sample>>
  BY DEF OtherDelayResp
<1> QED BY <1>1, <1>2, <1>3, AnswerInTurn

LEMMA HandleFrameInTurn ==
    ASSUME Base, Base', InTurn, HandleFrame, ~Disturbance
    PROVE  InTurn'
<1> DEFINE m == Head(inbox)
<1>1. /\ m \in Message /\ inbox' = Tail(inbox) /\ attempt = 0
      /\ inbox \in Seq(Message) /\ inbox # <<>>
      /\ UNCHANGED <<clock, master, wire, register, losses>>
  BY DEF HandleFrame, Base, TypeOK
<1>2. HandleSync(m) \/ IgnoreFollowUp(m) \/ HandleFollowUp(m) \/ HandleDelayResp(m)
  BY DEF HandleFrame
<1>3. FollowUpLast(inbox') /\ AnswersFirst(inbox')
      /\ (NoFollowUp(inbox) => NoFollowUp(inbox'))
      /\ (NoAnnouncement(inbox) => NoAnnouncement(inbox'))
      /\ (NoOwnAnswer(inbox) => NoOwnAnswer(inbox'))
  BY <1>1, TailOfQueue DEF InTurn, Ordered
<1>4. /\ m = inbox[1] /\ 1 \in DOMAIN inbox
      /\ m.type = "Follow_Up" => NoAnnouncement(inbox')
      /\ Announcement(m) => NoOwnAnswer(inbox) /\ Over
  BY <1>1, HeadOfQueue DEF InTurn, Ordered, NoAnnouncement
<1> HIDE DEF m
<1>5. CASE HandleSync(m)
  <2>1. Over /\ NoOwnAnswer(inbox')
    BY <1>3, <1>4, <1>5 DEF HandleSync, Announcement
  <2>2. Over'
    BY <1>1, <1>5, <2>1 DEF HandleSync, Over
  <2>3. Ordered'
    BY <1>1, <1>3, <2>2 DEF InTurn, Ordered
  <2>4. times'.t3 = times.t3 /\ times'.delay_req_seq = times.delay_req_seq
        /\ times'.last_id = times.last_id
    BY <1>5 DEF HandleSync, Base, TypeOK, Times
  <2>5. Captured'
    BY <1>1, <1>5, <2>4 DEF HandleSync, InTurn, Captured, Stale
  <2>6. Paired'
    BY <2>1, <2>2, <2>4 DEF InTurn, Paired
  <2> QED BY <1>5, <2>3, <2>5, <2>6 DEF HandleSync, InTurn, OneExchange
<1>6. CASE IgnoreFollowUp(m)
  <2>1. UNCHANGED <<requests, state, times, tracker, nextReq, attempt, sample>>
    BY <1>6 DEF IgnoreFollowUp
  <2>2. Over => Over'
    BY <1>1, <2>1 DEF Over
  <2>3. Ordered'
    BY <1>1, <1>3, <2>1, <2>2 DEF InTurn, Ordered
  <2>4. Captured'
    BY <1>1, <2>1 DEF InTurn, Captured, Stale
  <2>5. Paired'
    BY <1>3, <2>1, <2>2 DEF InTurn, Paired
  <2> QED BY <2>1, <2>3, <2>4, <2>5 DEF InTurn, OneExchange
<1>7. CASE HandleFollowUp(m)
  <2>1. /\ m.type = "Follow_Up" /\ state.waiting /\ state.seq = m.seq
        /\ requests' = Append(requests, nextReq) /\ attempt' = 1
        /\ times' = [times EXCEPT !.t1 = PtpTime(m.seq, TRUE), !.t2 = state.t2]
        /\ state' = [waiting |-> FALSE]
        /\ UNCHANGED <<tracker, nextReq, sample>>
    BY <1>7 DEF HandleFollowUp, TakeFollowUp
  <2>2. Over /\ NoAnnouncement(inbox')
    BY <1>4, <2>1 DEF Announcement
  <2>3. ~master.owes
    BY <1>4, <2>1 DEF InTurn, Ordered, NoFollowUp
  <2>4. Ordered'
    BY <1>1, <1>3, <2>1, <2>2, <2>3 DEF Ordered
  <2>5. requests' = <<nextReq>>
    BY <2>1, <2>2 DEF Over
  <2>6. /\ times'.t3 = times.t3 /\ times'.delay_req_seq = times.delay_req_seq
        /\ times'.last_id = times.last_id
        /\ times'.t1 = PtpTime(m.seq, TRUE) /\ times'.t2 = state.t2
    BY <2>1 DEF Base, TypeOK, Times
  <2>7. Captured'
    BY <1>1, <2>1, <2>5, <2>6 DEF InTurn, Captured, Stale
  <2>8. times'.t1.of = times'.t2.of
    BY <2>1, <2>6 DEF Base, WaitsForOwn, PtpTime
  <2>9. Paired'
    BY <2>6, <2>8 DEF InTurn, Paired
  <2> QED BY <2>1, <2>4, <2>7, <2>9 DEF InTurn, OneExchange
<1>8. CASE HandleDelayResp(m)
  <2>1. UNCHANGED <<requests, state, tracker, nextReq, attempt>>
    BY <1>8 DEF HandleDelayResp
  <2>2. Over => Over'
    BY <1>1, <2>1 DEF Over
  <2>3. Ordered'
    BY <1>1, <1>3, <2>1, <2>2 DEF InTurn, Ordered
  <2>4. CASE ~Expected(m)
    <3>1. UNCHANGED <<times, sample>>
      BY <1>8, <2>4 DEF HandleDelayResp
    <3>2. Captured'
      BY <1>1, <2>1, <3>1 DEF InTurn, Captured, Stale
    <3>3. Paired'
      BY <1>3, <2>2, <3>1 DEF InTurn, Paired
    <3> QED BY <2>3, <3>1, <3>2, <3>3 DEF InTurn, OneExchange
  <2>5. CASE Expected(m)
    <3> DEFINE t == [times EXCEPT !.t4 = PtpTime(m.seq, TRUE)]
    <3>1. OwnAnswer(m) /\ times.delay_req_seq = m.seq /\ m.seq \in SeqId
      BY <1>1, <1>8, <2>5, MessageFields DEF Expected, OwnAnswer, HandleDelayResp
    <3>2. times.delay_req_seq # None
      BY <3>1, ConstantFacts
    <3>3. PtpTime(m.seq, TRUE) # None
      BY <3>1, NoneAssumption
    <3>4. /\ t.t1 = times.t1 /\ t.t2 = times.t2 /\ t.t3 = times.t3
          /\ t.t4 = PtpTime(m.seq, TRUE) /\ t.last_id = times.last_id
          /\ DOMAIN t = DOMAIN times
      BY DEF Base, TypeOK, Times
    <3>5. None \notin {times.t1, times.t2, times.t3}
      BY <3>2 DEF Base, NoHalfSample
    <3>6. TakeCompleteSample(t)
      BY <1>8, <2>5, <3>3, <3>4, <3>5 DEF HandleDelayResp, Complete
    <3>7. times.t1.of = times.t2.of
      BY <1>4, <3>1, <3>5 DEF InTurn, Paired, NoOwnAnswer
    <3>8. times.t3.of = m.seq
      BY <3>1, <3>2, <3>5 DEF InTurn, Paired
    <3>9. OneExchange'
      BY <3>4, <3>6, <3>7, <3>8 DEF OneExchange, TakeCompleteSample, PtpTime
    <3>10. times'.last_id = times.last_id /\ times'.t1 = None /\ times'.t3 = None
      BY <3>4, <3>6 DEF TakeCompleteSample, Base, TypeOK, Times
    <3>11. Captured'
      BY <1>1, <2>1, <3>10 DEF InTurn, Captured, Stale
    <3>12. Paired'
      BY <3>10 DEF Paired
    <3> QED BY <2>3, <3>9, <3>11, <3>12 DEF InTurn
  <2> QED BY <2>4, <2>5
<1> QED BY <1>2, <1>5, <1>6, <1>7, <1>8

LEMMA ExpireFollowUpInTurn ==
    ASSUME Base, Base', InTurn, ExpireFollowUp
    PROVE  InTurn'
<1>1. /\ UNCHANGED <<master, inbox, requests, wire, register, times, nextReq, attempt, sample>>
      /\ ~state'.waiting
  BY DEF ExpireFollowUp
<1>2. Over' = Over
  BY <1>1 DEF Over
<1>3. Ordered'
  BY <1>1, <1>2 DEF InTurn, Ordered
<1>4. Captured'
  BY <1>1 DEF InTurn, Captured, Stale
<1>5. Paired'
  BY <1>1, <1>2 DEF InTurn, Paired
<1> QED BY <1>1, <1>3, <1>4, <1>5 DEF InTurn, OneExchange

\* Undisturbed, the Delay_Req has left when the time is taken from the register.
LEMMA CapturedInTime ==
    ASSUME Base, InTurn, ReadEgressTs, ~Disturbance
    PROVE  /\ CaptureT3 => requests = <<>> /\ register.req = nextReq
           /\ CaptureT3 \/ (attempt < ReadAttempts /\ NextAttempt)
<1>1. attempt \in 0..ReadAttempts /\ ReadAttempts \in Nat
  BY ConstantFacts DEF Base, TypeOK
<1>2. attempt > 0 /\ (attempt = ReadAttempts => requests = <<>>) /\ (CaptureT3 \/ RetryT3)
  BY DEF ReadEgressTs, Expect, EgressInTime
<1>3. CaptureT3 => requests = <<>>
  BY <1>2 DEF CaptureT3, InTurn, Captured
<1>4. attempt = ReadAttempts => ~RetryT3
  BY <1>1, <1>2 DEF RetryT3, InTurn, Captured
<1> QED BY <1>1, <1>2, <1>3, <1>4 DEF InTurn, Captured, RetryT3

LEMMA ReadEgressTsInTurn ==
    ASSUME Base, Base', InTurn, ReadEgressTs, ~Disturbance
    PROVE  InTurn'
<1>1. attempt > 0 /\ UNCHANGED <<master, inbox, requests, wire, register, state, sample>>
  BY DEF ReadEgressTs
<1>2. ~Over /\ attempt \in Nat /\ attempt # 0
  BY <1>1, ConstantFacts DEF Over, Base, TypeOK
<1>3. Ordered'
  BY <1>1, <1>2, NotOver DEF InTurn, Ordered
<1>4. CASE CaptureT3
  <2>1. requests = <<>> /\ register.req = nextReq /\ attempt' = 0
    BY <1>4, CapturedInTime DEF CaptureT3, ReadDone
  <2>2. /\ times'.t1 = times.t1 /\ times'.t2 = times.t2
        /\ times'.t3 = Combined(register.req, register.at)
        /\ times'.delay_req_seq = nextReq /\ times'.last_id = register.id
    BY <1>4 DEF CaptureT3, Base, TypeOK, Times
  <2>3. Stale'
    BY <1>1, <2>2, ConstantFacts DEF Stale, Base, TypeOK
  <2>4. Captured'
    BY <1>1, <2>1, <2>3 DEF Captured
  <2>5. times'.t3.of = times'.delay_req_seq
    BY <2>1, <2>2 DEF Combined, PtpTime
  <2>6. Paired'
    BY <1>2, <2>2, <2>5, NotOver DEF Paired
  <2> QED BY <1>1, <1>3, <2>4, <2>6 DEF InTurn, OneExchange
<1>5. CASE attempt < ReadAttempts /\ NextAttempt
  <2>1. attempt' = attempt + 1 /\ UNCHANGED <<nextReq, times, tracker>>
    BY <1>5 DEF NextAttempt
  <2>2. Captured'
    BY <1>1, <1>2, <2>1 DEF InTurn, Captured, Stale
  <2>3. Paired'
    BY <1>2, <2>1, NotOver DEF InTurn, Paired
  <2> QED BY <1>1, <1>3, <2>1, <2>2, <2>3 DEF InTurn, OneExchange
<1> QED BY <1>4, <1>5, CapturedInTime

LEMMA StepExchange == ExchangeInv /\ [Next]_vars => ExchangeInv'
<1> SUFFICES ASSUME ExchangeInv, [Next]_vars PROVE ExchangeInv'
  OBVIOUS
<1>1. Base /\ Base'
  BY StepBase DEF ExchangeInv
<1>2. SUFFICES ASSUME disturbed' = 0 PROVE InTurn'
  BY <1>1 DEF ExchangeInv
<1>3. InTurn /\ ~Disturbance
  BY <1>1, <1>2, StaysUndisturbed DEF ExchangeInv
<1>4. CASE UNCHANGED vars
  BY <1>3, <1>4 DEF vars, InTurn, Ordered, Captured, Paired, OneExchange, Over, Stale
<1> QED BY <1>1, <1>3, <1>4, MasterSyncInTurn, MasterFollowUpInTurn, MasterDelayRespInTurn,
           OtherDelayRespInTurn, EgressDelayReqInTurn, HandleFrameInTurn,
           ExpireFollowUpInTurn, ReadEgressTsInTurn
        DEF Next, Master

\* Undisturbed, a sample is made of one Sync with its Follow_Up and of one
\* Delay_Req with its Delay_Resp (take_complete_sample).
THEOREM OneExchangePerSample == Spec => []SampleFromOneExchange
<1>1. ExchangeInv => SampleFromOneExchange
  BY DEF ExchangeInv, InTurn, SampleFromOneExchange
<1> QED BY <1>1, InitExchange, StepExchange, PTL DEF Spec
-----------------------------------------------------------------------------
(***************************************************************************)
(* The times.  Between two time stamps that reach the monitor the clock    *)
(* ticks once for each stamp that is lost, so that it advances by less     *)
(* than the range of the hardware counter.                                 *)
(***************************************************************************)
IsSync(m) == m.type = "Sync"

\* The last time the tracker was given, with the upper bits it has counted.
Tracked == tracker.upper * HwMod + IF tracker.last = None THEN 0 ELSE tracker.last

\* b is the next time stamp after a that reaches the monitor.
Follows(a, b) == \E g \in 1..(MaxLosses + 1) : b = (a + g) % ClockRange

\* No time stamp after a is on its way to the monitor.
Near(a) == \E l \in 0..losses : clock = (a + l) % ClockRange

\* Each Sync of a queue follows the one before it, the first one follows a.
Chained(q, a) ==
    \A k \in DOMAIN q : IsSync(q[k]) =>
      /\ (\A i \in 1..(k-1) : ~IsSync(q[i])) => Follows(a, q[k].at)
      /\ \A j \in 1..(k-1) : IsSync(q[j]) /\ (\A i \in (j+1)..(k-1) : ~IsSync(q[i])) =>
           Follows(q[j].at, q[k].at)

\* t is the time stamp of the last Sync of a queue, or a if there is none.
LastStamp(q, a, t) ==
    \/ t = a /\ \A k \in DOMAIN q : ~IsSync(q[k])
    \/ \E k \in DOMAIN q :
         IsSync(q[k]) /\ q[k].at = t /\ \A i \in DOMAIN q : i > k => ~IsSync(q[i])

Exact ==
    /\ \A t \in {times.t2, times.t3} : t # None => t.exact
    /\ state.waiting => state.t2.exact
    /\ Chained(inbox, Tracked)
    /\ IF attempt > 0 /\ requests = <<>>
       THEN Follows(Tracked, register.at) /\ Near(register.at)
       ELSE \A t \in Int : LastStamp(inbox, Tracked, t) => Near(t)

ExactInv == ExchangeInv /\ (disturbed = 0 => Exact)
-----------------------------------------------------------------------------
\* A time that is less than a range of the hardware counter after the one
\* before it is unwrapped correctly, also where the upper bits wrap.
LEMMA Unwrapped ==
    ASSUME NEW h \in Nat \ {0}, NEW U \in Nat \ {0}, NEW u \in 0 .. (U - 1),
           NEW l \in 0 .. (h - 1), NEW g \in 1 .. (h - 1)
    PROVE  LET at == (u * h + l + g) % (U * h)
           IN  IF l + g < h
               THEN (at \div h) = u /\ (at % h) = l + g
               ELSE (at \div h) = ((u + 1) % U) /\ (at % h) = l + g - h
<1>1. PICK c \in Nat \ {0} : c = U * h
  <2>1. U * h \in Nat /\ U * h >= 1
    OBVIOUS
  <2> QED BY <2>1
\* A time before the end of the range.
<1>2. ASSUME NEW v \in 0 .. (U - 1), NEW r \in 0 .. (h - 1)
      PROVE  (((v * h + r) % c) \div h) = v /\ (((v * h + r) % c) % h) = r
  <2>1. PICK d \in Nat : d = U - 1 - v
    OBVIOUS
  <2>2. d * h \in Nat /\ v * h \in Nat
    OBVIOUS
  <2>3. c = v * h + d * h + h
    <3>1. U = v + d + 1
      BY <2>1
    <3> QED BY <1>1, <3>1
  <2>4. PICK a \in 0 .. (c - 1) : a = v * h + r
    BY <2>2, <2>3
  <2>5. (a % c) = a
    BY ModSmall
  <2>6. a = h * v + r /\ a \in Int /\ v \in Int
    BY <2>4
  <2>7. (a \div h) = v /\ (a % h) = r
    BY <2>6, DivModUnique
  <2> QED BY <2>4, <2>5, <2>7
<1>3. CASE l + g < h
  <2>1. PICK r \in 0 .. (h - 1) : r = l + g
    BY <1>3
  <2>2. (((u * h + r) % c) \div h) = u /\ (((u * h + r) % c) % h) = r
    BY <1>2
  <2>3. u * h + l + g = u * h + r
    BY <2>1
  <2> QED BY <1>1, <1>3, <2>1, <2>2, <2>3
<1>4. CASE ~(l + g < h)
  <2>1. PICK r \in 0 .. (h - 1) : r = l + g - h
    BY <1>4
  <2>2. PICK v \in Nat : v = u + 1
    OBVIOUS
  <2>3. u * h + l + g = v * h + r
    BY <2>1, <2>2
  <2>4. CASE v < U
    <3>1. v \in 0 .. (U - 1)
      BY <2>4
    <3>2. (v % U) = v
      BY <3>1, ModSmall
    <3>3. (((v * h + r) % c) \div h) = v /\ (((v * h + r) % c) % h) = r
      BY <1>2, <3>1
    <3> QED BY <1>1, <1>4, <2>1, <2>2, <2>3, <3>2, <3>3
  <2>5. CASE ~(v < U)
    <3>1. v = U
      BY <2>2, <2>5
    <3>2. (v % U) = 0
      <4>1. v = U * 1 + 0 /\ 0 \in 0 .. (U - 1) /\ v \in Int
        BY <3>1
      <4> QED BY <4>1, DivModUnique
    <3>3. PICK a \in Int : a = c * 1 + r /\ a = v * h + r
      BY <1>1, <3>1
    <3>4. r \in 0 .. (c - 1)
      <4>1. PICK d \in Nat : d = U - 1
        OBVIOUS
      <4>2. c = d * h + h /\ d * h \in Nat
        BY <1>1, <4>1
      <4> QED BY <4>2
    <3>5. (a % c) = r
      BY <3>3, <3>4, DivModUnique
    <3>6. (r \div h) = 0 /\ (r % h) = r
      <4>1. r = h * 0 + r /\ r \in Int
        OBVIOUS
      <4> QED BY <4>1, DivModUnique
    <3> QED BY <1>1, <1>4, <2>1, <2>2, <2>3, <3>2, <3>3, <3>5, <3>6
  <2> QED BY <2>4, <2>5
<1> QED BY <1>3, <1>4

LEMMA TrackedType ==
    ASSUME TypeOK
    PROVE  Tracked \in Int
<1>1. PICK h \in Nat, u \in Nat : h = HwMod /\ u = tracker.upper
  <2>1. HwMod \in Nat /\ UpperMod \in Nat
    BY ConstantFacts
  <2>2. tracker.upper \in Nat
    BY <2>1 DEF TypeOK, Tracker
  <2> QED BY <2>1, <2>2
<1>2. u * h \in Int
  OBVIOUS
<1>3. tracker.last # None => tracker.last \in Int
  BY ConstantFacts DEF TypeOK, Tracker
<1> QED BY <1>1, <1>2, <1>3 DEF Tracked

\* TimestampTracker::combine is right for the next time stamp.
LEMMA CombineExact ==
    ASSUME TypeOK, NEW t \in Stamp, NEW n \in SeqId, Follows(Tracked, t)
    PROVE  /\ Combine(t % HwMod).upper = (t \div HwMod)
           /\ Combined(n, t).exact
           /\ tracker' = Combine(t % HwMod) => Tracked' = t
<1>1. PICK g \in 1..(MaxLosses + 1) : t = (Tracked + g) % ClockRange
  BY DEF Follows
<1>2. PICK h \in Nat \ {0}, U \in Nat \ {0} : h = HwMod /\ U = UpperMod
  BY ConstantFacts
<1>3. g \in 1 .. (h - 1)
  BY <1>2, CounterAssumption, ConstantFacts
<1>4. PICK u \in 0 .. (U - 1), l \in 0 .. (h - 1) :
        u = tracker.upper /\ l = IF tracker.last = None THEN 0 ELSE tracker.last
  BY <1>2 DEF TypeOK, Tracker
<1>5. t = (u * h + l + g) % (U * h)
  BY <1>1, <1>2, <1>4 DEF Tracked, ClockRange
<1>6. IF l + g < h
      THEN (t \div h) = u /\ (t % h) = l + g
      ELSE (t \div h) = ((u + 1) % U) /\ (t % h) = l + g - h
  <2>1. LET at == (u * h + l + g) % (U * h)
        IN  IF l + g < h
            THEN (at \div h) = u /\ (at % h) = l + g
            ELSE (at \div h) = ((u + 1) % U) /\ (at % h) = l + g - h
    BY <1>3, Unwrapped
  <2> QED BY <1>5, <2>1, Zenon
<1>7. Combine(t % HwMod).upper = (t \div HwMod)
  <2>1. CASE l + g < h
    <3>1. ~(tracker.last # None /\ (t % h) < tracker.last)
      BY <1>4, <1>6, <2>1
    <3> QED BY <1>2, <1>4, <1>6, <2>1, <3>1 DEF Combine
  <2>2. CASE ~(l + g < h)
    <3>1. tracker.last # None /\ (t % h) < tracker.last
      BY <1>3, <1>4, <1>6, <2>2
    <3> QED BY <1>2, <1>4, <1>6, <2>2, <3>1 DEF Combine
  <2> QED BY <2>1, <2>2
<1>8. Combined(n, t).exact
  BY <1>7 DEF Combined, PtpTime
<1>9. ASSUME tracker' = Combine(t % HwMod) PROVE Tracked' = t
  <2>1. t \in Int
    BY ConstantFacts DEF Stamp
  <2>2. PICK q \in Int, r \in 0 .. (h - 1) : q = (t \div h) /\ r = (t % h) /\ t = h * q + r
    BY <2>1, DivMod
  <2>3. tracker'.upper = q /\ tracker'.last = r
    BY <1>2, <1>7, <1>9, <2>2 DEF Combine
  <2>4. r # None
    BY <1>2, ConstantFacts
  <2>5. q * h = h * q
    OBVIOUS
  <2> QED BY <1>2, <2>2, <2>3, <2>4, <2>5 DEF Tracked
<1> QED BY <1>7, <1>8, <1>9

\* The clock ticks: what was near it comes before the new time stamp.
LEMMA ClockTicks ==
    ASSUME TypeOK, losses \in 0..MaxLosses, clock' = (clock + 1) % ClockRange,
           NEW t \in Int, Near(t)
    PROVE  /\ Follows(t, clock')
           /\ losses' = losses + 1 => Near(t)'
<1>1. PICK l \in 0..losses : clock = (t + l) % ClockRange
  BY DEF Near
<1>2. PICK c \in Nat \ {0}, a \in Int : c = ClockRange /\ a = t + l
  <2>1. t + l \in Int
    OBVIOUS
  <2> QED BY <2>1, ConstantFacts
<1>3. (((a % c) + 1) % c) = ((a + 1) % c)
  <2>1. PICK b \in Int : b = 1
    OBVIOUS
  <2>2. (((a % c) + b) % c) = ((a + b) % c)
    BY ModAdd
  <2> QED BY <2>1, <2>2
<1>4. clock' = (t + (l + 1)) % ClockRange
  <2>1. a + 1 = t + (l + 1)
    BY <1>2
  <2> QED BY <1>1, <1>2, <1>3, <2>1
<1>5. l + 1 \in 1..(MaxLosses + 1)
  BY ConstantFacts
<1>6. ASSUME losses' = losses + 1 PROVE l + 1 \in 0..losses'
  BY <1>6, ConstantFacts
<1> QED BY <1>4, <1>5, <1>6 DEF Follows, Near

\* A new time stamp is near the clock, and what is near the clock stays so if
\* it does not tick.
LEMMA NewIsNear ==
    ASSUME clock' \in Stamp, losses' \in Nat
    PROVE  Near(clock)'
<1>1. PICK c \in Nat \ {0} : c = ClockRange
  BY ConstantFacts
<1>2. PICK a \in 0 .. (c - 1) : a = clock'
  BY <1>1 DEF Stamp
<1>3. (a % c) = a /\ a + 0 = a
  BY ModSmall
<1>4. clock' = (clock' + 0) % ClockRange
  BY <1>1, <1>2, <1>3
<1> QED BY <1>4 DEF Near

LEMMA StaysNear ==
    ASSUME losses \in Nat, losses' \in Nat, losses <= losses', clock' = clock,
           NEW t \in Int, Near(t)
    PROVE  Near(t)'
<1>1. PICK l \in 0..losses : clock = (t + l) % ClockRange
  BY DEF Near
<1>2. l \in 0..losses'
  OBVIOUS
<1> QED BY <1>1, <1>2 DEF Near

\* The tracker takes the first Sync of a queue.
LEMMA ChainMoves ==
    ASSUME NEW q \in Seq(Message), q # <<>>, NEW a, Chained(q, a)
    PROVE  /\ IsSync(Head(q)) => Follows(a, Head(q).at) /\ Chained(Tail(q), Head(q).at)
           /\ ~IsSync(Head(q)) => Chained(Tail(q), a)
<1>1. /\ DOMAIN q = 1..Len(q) /\ DOMAIN Tail(q) = 1..(Len(q) - 1) /\ Len(q) \in Nat
      /\ \A k \in 1..(Len(q) - 1) : Tail(q)[k] = q[k+1] /\ k+1 \in 1..Len(q)
      /\ Head(q) = q[1] /\ 1 \in 1..Len(q)
  OBVIOUS
<1> DEFINE p == Tail(q)
<1> HIDE DEF p
<1>2. ASSUME NEW k \in DOMAIN p, IsSync(p[k]),
             NEW j \in 1..(k-1), IsSync(p[j]), \A i \in (j+1)..(k-1) : ~IsSync(p[i])
      PROVE  Follows(p[j].at, p[k].at)
  <2>1. k+1 \in DOMAIN q /\ j+1 \in 1..((k+1)-1) /\ p[k] = q[k+1] /\ p[j] = q[j+1]
    BY <1>1 DEF p
  <2>2. ASSUME NEW i \in (j+1+1)..((k+1)-1) PROVE ~IsSync(q[i])
    <3>1. i-1 \in (j+1)..(k-1) /\ p[i-1] = q[i] /\ i-1 \in DOMAIN p
      BY <1>1 DEF p
    <3> QED BY <1>2, <3>1
  <2> QED BY <1>2, <2>1, <2>2 DEF Chained
<1>3. ASSUME NEW k \in DOMAIN p, IsSync(p[k]), \A i \in 1..(k-1) : ~IsSync(p[i])
      PROVE  Follows(IF IsSync(Head(q)) THEN Head(q).at ELSE a, p[k].at)
  <2>1. k+1 \in DOMAIN q /\ p[k] = q[k+1] /\ 1 \in 1..((k+1)-1) /\ k \in Nat
    BY <1>1 DEF p
  <2>2. ASSUME NEW i \in (1+1)..((k+1)-1) PROVE ~IsSync(q[i])
    <3>1. i-1 \in 1..(k-1) /\ p[i-1] = q[i]
      BY <1>1, <2>1 DEF p
    <3> QED BY <1>3, <3>1
  <2>3. CASE IsSync(Head(q))
    BY <1>1, <1>3, <2>1, <2>2, <2>3 DEF Chained
  <2>4. CASE ~IsSync(Head(q))
    <3>1. ASSUME NEW i \in 1..((k+1)-1) PROVE ~IsSync(q[i])
      <4>1. i = 1 \/ i \in (1+1)..((k+1)-1)
        BY <2>1
      <4> QED BY <1>1, <2>2, <2>4, <4>1
    <3> QED BY <1>3, <2>1, <2>4, <3>1 DEF Chained
  <2> QED BY <2>3, <2>4
<1>4. IsSync(Head(q)) => Follows(a, Head(q).at)
  <2>1. \A i \in 1..(1-1) : ~IsSync(q[i])
    OBVIOUS
  <2> QED BY <1>1, <2>1 DEF Chained
<1>5. Chained(p, IF IsSync(Head(q)) THEN Head(q).at ELSE a)
  BY <1>2, <1>3 DEF Chained
<1> QED BY <1>4, <1>5 DEF p

LEMMA LastStampStays ==
    ASSUME NEW q \in Seq(Message), q # <<>>, NEW a, NEW t,
           LastStamp(Tail(q), IF IsSync(Head(q)) THEN Head(q).at ELSE a, t)
    PROVE  LastStamp(q, a, t)
<1>1. /\ DOMAIN q = 1..Len(q) /\ DOMAIN Tail(q) = 1..(Len(q) - 1) /\ Len(q) \in Nat
      /\ \A k \in 1..(Len(q) - 1) : Tail(q)[k] = q[k+1] /\ k+1 \in 1..Len(q)
      /\ Head(q) = q[1] /\ 1 \in 1..Len(q)
  OBVIOUS
<1> DEFINE p == Tail(q)
<1> HIDE DEF p
<1>2. ASSUME NEW i \in DOMAIN q, i > 1 PROVE i-1 \in DOMAIN p /\ p[i-1] = q[i]
  BY <1>1, <1>2 DEF p
<1>3. CASE t = (IF IsSync(Head(q)) THEN Head(q).at ELSE a) /\ \A k \in DOMAIN p : ~IsSync(p[k])
  <2>1. \A i \in DOMAIN q : i > 1 => ~IsSync(q[i])
    BY <1>2, <1>3
  <2>2. CASE IsSync(Head(q))
    BY <1>1, <1>3, <2>1, <2>2 DEF LastStamp
  <2>3. CASE ~IsSync(Head(q))
    <3>1. \A i \in DOMAIN q : ~IsSync(q[i])
      BY <1>1, <2>1, <2>3
    <3> QED BY <1>3, <2>3, <3>1 DEF LastStamp
  <2> QED BY <2>2, <2>3
<1>4. CASE \E k \in DOMAIN p :
             IsSync(p[k]) /\ p[k].at = t /\ \A i \in DOMAIN p : i > k => ~IsSync(p[i])
  <2>1. PICK k \in DOMAIN p :
          IsSync(p[k]) /\ p[k].at = t /\ \A i \in DOMAIN p : i > k => ~IsSync(p[i])
    BY <1>4
  <2>2. k+1 \in DOMAIN q /\ q[k+1] = p[k] /\ k \in Nat /\ k >= 1
    BY <1>1 DEF p
  <2>3. ASSUME NEW i \in DOMAIN q, i > k+1 PROVE ~IsSync(q[i])
    <3>1. i > 1 /\ i-1 > k
      BY <1>1, <2>2, <2>3
    <3> QED BY <1>2, <2>1, <3>1
  <2> QED BY <2>1, <2>2, <2>3 DEF LastStamp
<1> QED BY <1>3, <1>4 DEF LastStamp, p

\* A frame joins a queue: if it is a Sync it follows the last time stamp.
LEMMA ChainGrows ==
    ASSUME NEW q \in Seq(Message), NEW m \in Message, NEW a, Chained(q, a),
           IsSync(m) => \A t : LastStamp(q, a, t) => Follows(t, m.at)
    PROVE  Chained(Append(q, m), a)
<1>1. /\ DOMAIN q = 1..Len(q) /\ DOMAIN Append(q, m) = 1..(Len(q) + 1) /\ Len(q) \in Nat
      /\ \A k \in 1..Len(q) : Append(q, m)[k] = q[k]
      /\ Append(q, m)[Len(q) + 1] = m
  OBVIOUS
<1> DEFINE p == Append(q, m)
<1> HIDE DEF p
<1>2. SUFFICES ASSUME NEW k \in DOMAIN p, IsSync(p[k])
               PROVE  /\ (\A i \in 1..(k-1) : ~IsSync(p[i])) => Follows(a, p[k].at)
                      /\ \A j \in 1..(k-1) :
                           IsSync(p[j]) /\ (\A i \in (j+1)..(k-1) : ~IsSync(p[i])) =>
                             Follows(p[j].at, p[k].at)
  BY DEF Chained, p
<1>3. CASE k \in 1..Len(q)
  <2>1. \A i \in 1..k : p[i] = q[i]
    BY <1>1, <1>3 DEF p
  <2>2. k \in DOMAIN q /\ p[k] = q[k] /\ \A i \in 1..(k-1) : p[i] = q[i]
    BY <1>1, <1>3, <2>1
  <2>3. \A j \in 1..(k-1) : \A i \in (j+1)..(k-1) : p[i] = q[i]
    BY <1>3, <2>2
  <2> QED BY <1>2, <2>2, <2>3 DEF Chained
<1>4. CASE k = Len(q) + 1
  <2>1. p[k] = m /\ IsSync(m) /\ k - 1 = Len(q) /\ \A i \in 1..(k-1) : p[i] = q[i]
    BY <1>1, <1>2, <1>4 DEF p
  <2>2. ASSUME \A i \in 1..(k-1) : ~IsSync(p[i]) PROVE Follows(a, m.at)
    <3>1. \A i \in DOMAIN q : ~IsSync(q[i])
      BY <1>1, <2>1, <2>2
    <3> QED BY <2>1, <3>1 DEF LastStamp
  <2>3. ASSUME NEW j \in 1..(k-1), IsSync(p[j]), \A i \in (j+1)..(k-1) : ~IsSync(p[i])
        PROVE  Follows(p[j].at, m.at)
    <3>1. j \in DOMAIN q /\ p[j] = q[j]
      BY <1>1, <2>1
    <3>2. ASSUME NEW i \in DOMAIN q, i > j PROVE ~IsSync(q[i])
      <4>1. i \in (j+1)..(k-1) /\ i \in 1..(k-1)
        BY <1>1, <2>1, <3>2
      <4> QED BY <2>1, <2>3, <4>1
    <3>3. LastStamp(q, a, q[j].at)
      BY <2>3, <3>1, <3>2 DEF LastStamp
    <3> QED BY <2>1, <3>1, <3>3
  <2> QED BY <2>1, <2>2, <2>3
<1> QED BY <1>1, <1>3, <1>4 DEF p

LEMMA LastStampGrows ==
    ASSUME NEW q \in Seq(Message), NEW m \in Message, NEW a, NEW t,
           LastStamp(Append(q, m), a, t)
    PROVE  IF IsSync(m) THEN t = m.at ELSE LastStamp(q, a, t)
<1>1. /\ DOMAIN q = 1..Len(q) /\ DOMAIN Append(q, m) = 1..(Len(q) + 1) /\ Len(q) \in Nat
      /\ \A k \in 1..Len(q) : Append(q, m)[k] = q[k]
      /\ Append(q, m)[Len(q) + 1] = m
  OBVIOUS
<1> DEFINE p == Append(q, m)
<1> HIDE DEF p
<1>2. \A k \in DOMAIN q : k \in DOMAIN p /\ p[k] = q[k]
  BY <1>1 DEF p
<1>3. CASE IsSync(m)
  <2>1. PICK k \in DOMAIN p : p[k].at = t /\ \A i \in DOMAIN p : i > k => ~IsSync(p[i])
    BY <1>1, <1>3 DEF LastStamp, p
  <2>2. ~(Len(q) + 1 > k)
    BY <1>1, <1>3, <2>1 DEF p
  <2>3. k = Len(q) + 1
    BY <1>1, <2>2 DEF p
  <2> QED BY <1>1, <1>3, <2>1, <2>3 DEF p
<1>4. CASE ~IsSync(m)
  <2>1. CASE t = a /\ \A k \in DOMAIN p : ~IsSync(p[k])
    BY <1>2, <1>4, <2>1 DEF LastStamp
  <2>2. CASE \E k \in DOMAIN p :
               IsSync(p[k]) /\ p[k].at = t /\ \A i \in DOMAIN p : i > k => ~IsSync(p[i])
    <3>1. PICK k \in DOMAIN p :
            IsSync(p[k]) /\ p[k].at = t /\ \A i \in DOMAIN p : i > k => ~IsSync(p[i])
      BY <2>2
    <3>2. k \in DOMAIN q
      BY <1>1, <1>4, <3>1 DEF p
    <3> QED BY <1>2, <1>4, <3>1, <3>2 DEF LastStamp
  <2> QED BY <2>1, <2>2 DEF LastStamp, p
<1> QED BY <1>3, <1>4

\* Without a Sync in the queue the tracker has the last time stamp.
LEMMA NothingWaits ==
    ASSUME NEW q \in Seq(Message), NoAnnouncement(q), NEW a
    PROVE  Chained(q, a) /\ \A t : LastStamp(q, a, t) <=> t = a
<1>1. \A k \in DOMAIN q : ~IsSync(q[k])
  BY DEF NoAnnouncement, Announcement, IsSync
<1> QED BY <1>1 DEF Chained, LastStamp
-----------------------------------------------------------------------------
LEMMA InitExact == Init => ExactInv
<1> SUFFICES ASSUME Init PROVE ExactInv
  OBVIOUS
<1>1. Base
  BY InitBase
<1>2. Tracked = 0
  <2>1. PICK h \in Nat : h = HwMod
    BY ConstantFacts
  <2>2. 0 * h = 0
    BY <2>1
  <2> QED BY <2>1, <2>2 DEF Init, Tracked
<1>3. Near(0)
  <2>1. PICK c \in Nat \ {0}, z \in Int : c = ClockRange /\ z = 0
    BY ConstantFacts
  <2>2. z \in 0 .. (c - 1)
    BY <2>1
  <2>3. (z % c) = z /\ z + 0 = z
    BY <2>2, ModSmall
  <2>4. clock = (0 + 0) % ClockRange /\ 0 \in 0..losses
    BY <2>1, <2>3 DEF Init
  <2> QED BY <2>4 DEF Near
<1>4. inbox \in Seq(Message) /\ NoAnnouncement(inbox)
  BY DEF Init, NoAnnouncement
<1>5. Chained(inbox, Tracked) /\ \A t : LastStamp(inbox, Tracked, t) <=> t = Tracked
  BY <1>4, NothingWaits
<1>6. Exact
  BY <1>2, <1>3, <1>5 DEF Init, Exact
<1> QED BY <1>6, InitExchange DEF ExactInv

\* The time of the Delay_Req is in the register and waits to be read.
T3Waits == attempt > 0 /\ requests = <<>>

\* The clock does not tick and the tracker takes nothing: at most messages are
\* lost or frames without a time stamp come and go.
LEMMA QuietExact ==
    ASSUME Base, Base', Exact,
           losses <= losses', clock' = clock, Chained(inbox, Tracked)',
           \A t \in Int : LastStamp(inbox, Tracked, t)' => LastStamp(inbox, Tracked, t),
           T3Waits' = T3Waits, register' = register, tracker' = tracker,
           \A t \in {times.t2, times.t3}' : t # None => t.exact,
           state'.waiting => state'.t2.exact
    PROVE  Exact'
<1>1. losses \in Nat /\ losses' \in Nat /\ Tracked \in Int /\ Tracked' = Tracked
      /\ register.at \in Int
  BY TrackedType, ConstantFacts DEF Base, TypeOK, Stamp, Tracked
<1>2. \A t \in Int : Near(t) => Near(t)'
  BY <1>1, StaysNear
<1>3. CASE T3Waits
  <2>1. Follows(Tracked, register.at)' /\ Near(register.at)
    BY <1>1, <1>3 DEF Exact, T3Waits, Follows
  <2>2. Near(register.at)'
    BY <1>1, <1>2, <2>1
  <2> QED BY <1>3, <2>1, <2>2 DEF Exact, T3Waits
<1>4. CASE ~T3Waits
  <2>1. \A t \in Int : LastStamp(inbox, Tracked, t)' => Near(t)'
    BY <1>2, <1>4 DEF Exact, T3Waits
  <2> QED BY <1>4, <2>1 DEF Exact, T3Waits
<1> QED BY <1>3, <1>4

LEMMA LastStampType ==
    ASSUME NEW q \in Seq(Message), NEW a \in Int, NEW t, LastStamp(q, a, t)
    PROVE  t \in Int
<1>1. CASE t = a
  BY <1>1
<1>2. CASE \E k \in DOMAIN q : IsSync(q[k]) /\ q[k].at = t
  <2>1. PICK k \in DOMAIN q : IsSync(q[k]) /\ q[k].at = t
    BY <1>2
  <2>2. q[k] \in Message
    OBVIOUS
  <2>3. q[k].at \in Stamp
    BY <2>1, <2>2, MessageFields DEF IsSync
  <2> QED BY <2>1, <2>3, ConstantFacts DEF Stamp
<1> QED BY <1>1, <1>2 DEF LastStamp

LEMMA MasterSyncExact ==
    ASSUME Base, Base', InTurn, Exact, MasterSync, ~Disturbance
    PROVE  Exact'
<1>1. PICK two_step \in BOOLEAN :
        /\ SyncInTime
        /\ OrLose(Deliver(Sync(master.seq, two_step, clock')), inbox)
  BY DEF MasterSync, Expect
<1>2. /\ UNCHANGED <<requests, wire, register, state, times, tracker, nextReq, attempt, sample>>
      /\ clock' = (clock + 1) % ClockRange
  BY DEF MasterSync, ClockRange
<1>3. ~T3Waits /\ ~T3Waits'
  BY <1>1, <1>2 DEF SyncInTime, T3Waits
<1>4. \A t \in Int : LastStamp(inbox, Tracked, t) => Near(t)
  BY <1>3 DEF Exact, T3Waits
<1>5. inbox \in Seq(Message) /\ losses \in 0..MaxLosses /\ losses' \in Nat /\ clock' \in Stamp
      /\ Tracked \in Int /\ Tracked' = Tracked /\ TypeOK
  BY <1>2, TrackedType, ConstantFacts DEF Base, TypeOK, Tracked
<1>6. Chained(inbox, Tracked)
  BY DEF Exact
<1> DEFINE m == Sync(master.seq, two_step, clock')
<1>7. m \in Message /\ IsSync(m) /\ m.at = clock'
  BY SyncMessage DEF Base, TypeOK, Sync, IsSync
<1>8. OrLose(Deliver(m), inbox)
  BY <1>1
<1> HIDE DEF m
<1>9. CASE inbox' = Append(inbox, m) /\ losses' = losses
  <2>1. \A t : LastStamp(inbox, Tracked, t) => Follows(t, m.at)
    BY <1>2, <1>4, <1>5, <1>7, LastStampType, ClockTicks
  <2>2. Chained(inbox, Tracked)'
    BY <1>5, <1>6, <1>7, <1>9, <2>1, ChainGrows
  <2>3. \A t \in Int : LastStamp(inbox, Tracked, t)' => t = clock'
    BY <1>5, <1>7, <1>9, LastStampGrows
  <2>4. \A t \in Int : LastStamp(inbox, Tracked, t)' => Near(t)'
    BY <1>5, <2>3, NewIsNear
  <2> QED BY <1>2, <1>3, <2>2, <2>4 DEF Exact, T3Waits
<1>10. CASE inbox' = inbox /\ losses' = losses + 1
  <2>1. Chained(inbox, Tracked)'
    BY <1>5, <1>6, <1>10
  <2>2. \A t \in Int : LastStamp(inbox, Tracked, t)' => Near(t)'
    BY <1>2, <1>4, <1>5, <1>10, ClockTicks
  <2> QED BY <1>2, <1>3, <2>1, <2>2 DEF Exact, T3Waits
<1> QED BY <1>8, <1>9, <1>10, ArrivesOrIsLost

\* A frame without a time stamp is put into the queue or lost.
LEMMA UnstampedExact ==
    ASSUME Base, Base', Exact, NEW m \in Message, ~IsSync(m),
           inbox' = Append(inbox, m) \/ inbox' = inbox, losses <= losses',
           UNCHANGED <<clock, requests, register, state, times, tracker, attempt>>
    PROVE  Exact'
<1>1. inbox \in Seq(Message) /\ Chained(inbox, Tracked) /\ Tracked' = Tracked
  BY DEF Base, TypeOK, Exact, Tracked
<1>2. Chained(inbox, Tracked)'
  BY <1>1, ChainGrows
<1>3. \A t \in Int : LastStamp(inbox, Tracked, t)' => LastStamp(inbox, Tracked, t)
  BY <1>1, LastStampGrows
<1>4. T3Waits' = T3Waits
  BY DEF T3Waits
<1> QED BY <1>2, <1>3, <1>4, QuietExact DEF Exact

LEMMA MasterFollowUpExact ==
    ASSUME Base, Base', Exact, MasterFollowUp
    PROVE  Exact'
<1> DEFINE m == FollowUp(master.seq)
<1>1. m \in Message /\ ~IsSync(m)
  BY FollowUpMessage DEF Base, TypeOK, FollowUp, IsSync
<1>2. OrLose(Deliver(m), inbox)
      /\ UNCHANGED <<clock, requests, register, state, times, tracker, attempt>>
  BY DEF MasterFollowUp
<1> HIDE DEF m
<1>3. (inbox' = Append(inbox, m) \/ inbox' = inbox) /\ losses <= losses'
  BY <1>2, ArrivesOrIsLost, ConstantFacts DEF Base, TypeOK
<1> QED BY <1>1, <1>2, <1>3, UnstampedExact

LEMMA MasterDelayRespExact ==
    ASSUME Base, Base', Exact, MasterDelayResp
    PROVE  Exact'
<1> DEFINE m == DelayResp(Head(wire), TRUE)
<1>1. m \in Message /\ ~IsSync(m)
  <2>1. Head(wire) \in SeqId
    BY DEF MasterDelayResp, Base, TypeOK
  <2> QED BY <2>1, DelayRespMessage DEF DelayResp, IsSync
<1>2. OrLose(Deliver(m), inbox)
      /\ UNCHANGED <<clock, requests, register, state, times, tracker, attempt>>
  BY DEF MasterDelayResp
<1> HIDE DEF m
<1>3. (inbox' = Append(inbox, m) \/ inbox' = inbox) /\ losses <= losses'
  BY <1>2, ArrivesOrIsLost, ConstantFacts DEF Base, TypeOK
<1> QED BY <1>1, <1>2, <1>3, UnstampedExact

LEMMA OtherDelayRespExact ==
    ASSUME Base, Base', Exact, OtherDelayResp
    PROVE  Exact'
<1>1. PICK m \in Message : inbox' = Append(inbox, m) /\ ~IsSync(m)
  <2>1. PICK s \in SeqId : inbox' = Append(inbox, DelayResp(s, FALSE))
    BY DEF OtherDelayResp, Deliver
  <2> QED BY <2>1, DelayRespMessage DEF DelayResp, IsSync
<1>2. UNCHANGED <<clock, requests, register, state, times, tracker, attempt, losses>>
  BY DEF OtherDelayResp
<1>3. losses <= losses'
  BY <1>2, ConstantFacts DEF Base, TypeOK
<1> QED BY <1>1, <1>2, <1>3, UnstampedExact

LEMMA EgressDelayReqExact ==
    ASSUME Base, Base', InTurn, Exact, EgressDelayReq
    PROVE  Exact'
<1>1. /\ UNCHANGED <<inbox, state, times, tracker, attempt>>
      /\ clock' = (clock + 1) % ClockRange /\ register'.at = clock' /\ requests # <<>>
      /\ losses' = losses \/ losses' = losses + 1
  BY DEF EgressDelayReq, ClockRange, OrLose
<1>2. inbox \in Seq(Message) /\ losses \in 0..MaxLosses /\ losses' \in Nat /\ clock' \in Stamp
      /\ Tracked \in Int /\ Tracked' = Tracked /\ TypeOK
  BY <1>1, TrackedType, ConstantFacts DEF Base, TypeOK, Tracked
<1>3. ~Over /\ attempt > 0 /\ requests' = <<>>
  <2>1. requests = <<nextReq>> /\ attempt > 0
    BY <1>1 DEF InTurn, Captured
  <2>2. requests' = Tail(requests)
    BY DEF EgressDelayReq
  <2> QED BY <1>1, <2>1, <2>2 DEF Over
<1>4. NoAnnouncement(inbox)
  BY <1>3, NotOver
<1>5. Chained(inbox, Tracked)' /\ LastStamp(inbox, Tracked, Tracked)
  BY <1>1, <1>2, <1>4, NothingWaits
<1>6. Near(Tracked)
  BY <1>1, <1>2, <1>5 DEF Exact
<1>7. Follows(Tracked, register.at)'
  <2>1. Follows(Tracked, clock')
    BY <1>1, <1>2, <1>6, ClockTicks
  <2> QED BY <1>1, <1>2, <2>1 DEF Follows
<1>8. Near(register.at)'
  BY <1>1, <1>2, NewIsNear
<1> QED BY <1>1, <1>3, <1>5, <1>7, <1>8 DEF Exact

LEMMA HandleFrameExact ==
    ASSUME Base, Base', InTurn, Exact, HandleFrame, ~Disturbance
    PROVE  Exact'
<1> DEFINE m == Head(inbox)
<1>1. /\ m \in Message /\ inbox' = Tail(inbox) /\ attempt = 0
      /\ inbox \in Seq(Message) /\ inbox # <<>>
      /\ UNCHANGED <<clock, master, wire, register, losses>>
  BY DEF HandleFrame, Base, TypeOK
<1>2. HandleSync(m) \/ IgnoreFollowUp(m) \/ HandleFollowUp(m) \/ HandleDelayResp(m)
  BY DEF HandleFrame
<1>3. /\ IsSync(m) => Follows(Tracked, m.at) /\ Chained(inbox', m.at)
      /\ ~IsSync(m) => Chained(inbox', Tracked)
  BY <1>1, ChainMoves DEF Exact
<1>4. \A t : LastStamp(inbox', IF IsSync(m) THEN m.at ELSE Tracked, t) =>
                 LastStamp(inbox, Tracked, t)
  BY <1>1, LastStampStays
<1> HIDE DEF m
<1>5. TypeOK /\ losses \in Nat /\ losses' = losses
  BY <1>1, ConstantFacts DEF Base, TypeOK
<1>6. CASE HandleSync(m)
  <2>1. /\ IsSync(m) /\ m.at \in Stamp /\ m.seq \in SeqId
        /\ tracker' = Combine(m.at % HwMod)
        /\ times' = [times EXCEPT !.t2 = Combined(m.seq, m.at)]
        /\ state'.waiting => state'.t2 = Combined(m.seq, m.at)
        /\ UNCHANGED <<requests, attempt>>
    BY <1>1, <1>6, MessageFields DEF HandleSync, IsSync
  <2>2. Combined(m.seq, m.at).exact /\ Tracked' = m.at
    BY <1>3, <1>5, <2>1, CombineExact
  <2>3. times'.t2.exact /\ (times'.t3 # None => times'.t3.exact)
        /\ (state'.waiting => state'.t2.exact)
    BY <2>1, <2>2 DEF Exact, Base, TypeOK, Times
  <2>4. Chained(inbox, Tracked)'
    BY <1>3, <2>1, <2>2
  <2>5. \A t \in Int : LastStamp(inbox, Tracked, t)' => LastStamp(inbox, Tracked, t)
    BY <1>4, <2>1, <2>2
  <2>6. \A t \in Int : LastStamp(inbox, Tracked, t)' => Near(t)'
    BY <1>1, <1>5, <2>5, StaysNear DEF Exact
  <2>7. attempt' = 0
    BY <1>1, <2>1
  <2> QED BY <2>3, <2>4, <2>6, <2>7 DEF Exact
<1>7. CASE ~HandleSync(m)
  <2>1. ~IsSync(m) /\ UNCHANGED tracker
    BY <1>2, <1>7 DEF IgnoreFollowUp, HandleFollowUp, HandleDelayResp, IsSync
  <2>2. Tracked' = Tracked
    BY <2>1 DEF Tracked
  <2>3. Chained(inbox, Tracked)'
        /\ \A t \in Int : LastStamp(inbox, Tracked, t)' => LastStamp(inbox, Tracked, t)
    BY <1>3, <1>4, <2>1, <2>2
  <2>4. T3Waits' = T3Waits
    <3>1. CASE HandleFollowUp(m)
      <4>1. requests' = Append(requests, nextReq)
        BY <3>1 DEF HandleFollowUp
      <4>2. requests' # <<>>
        BY <4>1 DEF Base, TypeOK
      <4> QED BY <1>1, <4>2 DEF T3Waits
    <3>2. CASE ~HandleFollowUp(m)
      BY <1>1, <1>2, <1>7, <3>2 DEF IgnoreFollowUp, HandleDelayResp, T3Waits
    <3> QED BY <3>1, <3>2
  <2>5. /\ \A t \in {times.t2, times.t3}' : t # None => t.exact
        /\ state'.waiting => state'.t2.exact
    <3>1. CASE IgnoreFollowUp(m)
      BY <3>1 DEF IgnoreFollowUp, Exact
    <3>2. CASE HandleFollowUp(m)
      BY <3>2 DEF HandleFollowUp, TakeFollowUp, Exact, Base, TypeOK, Times
    <3>3. CASE HandleDelayResp(m)
      <4>1. state' = state
        BY <3>3 DEF HandleDelayResp
      <4>2. \/ times'.t2 = times.t2 /\ times'.t3 = times.t3
            \/ times'.t2 = None /\ times'.t3 = None
        BY <3>3 DEF HandleDelayResp, TakeCompleteSample, Base, TypeOK, Times
      <4> QED BY <4>1, <4>2 DEF Exact
    <3> QED BY <1>2, <1>7, <3>1, <3>2, <3>3
  <2> QED BY <1>1, <1>5, <2>1, <2>3, <2>4, <2>5, QuietExact
<1> QED BY <1>6, <1>7

LEMMA ExpireFollowUpExact ==
    ASSUME Base, Base', Exact, ExpireFollowUp
    PROVE  Exact'
<1>1. UNCHANGED <<clock, inbox, requests, register, times, tracker, attempt, losses>>
      /\ ~state'.waiting
  BY DEF ExpireFollowUp
<1>2. Tracked' = Tracked /\ T3Waits' = T3Waits
  BY <1>1 DEF Tracked, T3Waits
<1>3. losses <= losses'
  BY <1>1, ConstantFacts DEF Base, TypeOK
<1> QED BY <1>1, <1>2, <1>3, QuietExact DEF Exact

LEMMA ReadEgressTsExact ==
    ASSUME Base, Base', InTurn, Exact, ReadEgressTs, ~Disturbance
    PROVE  Exact'
<1>1. attempt > 0
      /\ UNCHANGED <<clock, inbox, requests, wire, register, state, losses>>
  BY DEF ReadEgressTs
<1>2. TypeOK /\ losses \in Nat /\ losses' = losses /\ attempt \in Nat /\ inbox \in Seq(Message)
  BY <1>1, ConstantFacts DEF Base, TypeOK
<1>3. NoAnnouncement(inbox) /\ ~state.waiting
  BY <1>1, <1>2, NotOver DEF Over
<1>4. CASE CaptureT3
  <2>1. requests = <<>> /\ attempt' = 0
    BY <1>4, CapturedInTime DEF CaptureT3, ReadDone
  <2>2. Follows(Tracked, register.at) /\ Near(register.at)
    BY <1>1, <2>1 DEF Exact
  <2>3. register.at \in Stamp /\ register.req \in SeqId /\ register.at \in Int
    BY <1>2, ConstantFacts DEF TypeOK, Stamp
  <2>4. Combined(register.req, register.at).exact /\ Tracked' = register.at
    BY <1>2, <1>4, <2>2, <2>3, CombineExact DEF CaptureT3
  <2>5. times'.t2 = times.t2 /\ times'.t3 = Combined(register.req, register.at)
    BY <1>4 DEF CaptureT3, Base, TypeOK, Times
  <2>6. Chained(inbox, Tracked)' /\ \A t \in Int : LastStamp(inbox, Tracked, t)' => t = register.at
    BY <1>1, <1>2, <1>3, <2>4, NothingWaits
  <2>7. \A t \in Int : LastStamp(inbox, Tracked, t)' => Near(t)'
    BY <1>1, <1>2, <2>2, <2>3, <2>6, StaysNear
  <2> QED BY <1>1, <1>3, <2>1, <2>4, <2>5, <2>6, <2>7 DEF Exact
<1>5. CASE attempt < ReadAttempts /\ NextAttempt
  <2>1. attempt' = attempt + 1 /\ UNCHANGED <<times, tracker>>
    BY <1>5 DEF NextAttempt
  <2>2. T3Waits' = T3Waits /\ Tracked' = Tracked
    BY <1>1, <1>2, <2>1 DEF T3Waits, Tracked
  <2> QED BY <1>1, <1>2, <2>1, <2>2, QuietExact DEF Exact
<1> QED BY <1>4, <1>5, CapturedInTime

LEMMA StepExact == ExactInv /\ [Next]_vars => ExactInv'
<1> SUFFICES ASSUME ExactInv, [Next]_vars PROVE ExactInv'
  OBVIOUS
<1>1. ExchangeInv /\ ExchangeInv' /\ Base /\ Base'
  BY StepExchange DEF ExactInv, ExchangeInv
<1>2. SUFFICES ASSUME disturbed' = 0 PROVE Exact'
  BY <1>1 DEF ExactInv
<1>3. InTurn /\ Exact /\ ~Disturbance
  BY <1>1, <1>2, StaysUndisturbed DEF ExactInv, ExchangeInv
<1>4. CASE UNCHANGED vars
  <2>1. UNCHANGED <<clock, inbox, requests, register, state, times, tracker, attempt, losses>>
    BY <1>4 DEF vars
  <2>2. Tracked' = Tracked /\ (\A t : Near(t)' <=> Near(t))
    BY <2>1 DEF Tracked, Near
  <2> QED BY <1>3, <2>1, <2>2 DEF Exact
<1> QED BY <1>1, <1>3, <1>4, MasterSyncExact, MasterFollowUpExact, MasterDelayRespExact,
           OtherDelayRespExact, EgressDelayReqExact, HandleFrameExact, ExpireFollowUpExact,
           ReadEgressTsExact
        DEF Next, Master

\* Undisturbed, the upper bits the tracker counts are right: no time is off by
\* a range of the hardware counter (TimestampTracker::combine).
THEOREM NoWrapMissed == Spec => []TimesExact
<1>1. ExactInv => TimesExact
  BY DEF ExactInv, Exact, TimesExact
<1> QED BY <1>1, InitExact, StepExact, PTL DEF Spec
=============================================================================
