----------------------- MODULE DeltaAdjustment_proofs -----------------------
(***************************************************************************)
(* What the adjusted difference of two wrapping time stamps is, in terms   *)
(* of the true time d that has passed since the hyperperiod began at h.    *)
(***************************************************************************)
EXTENDS DeltaAdjustment, NumberLemmas

\* Where in a hyperperiod of p ns a packet is that has its time stamp d ns after
\* the hyperperiod packet's.
Clamped(d, p) == IF d < 0 THEN 0 ELSE IF d > p THEN p ELSE d

\* A time stamp of the clock.
LEMMA ClockIsTimestamp ==
    ASSUME NEW x \in Int
    PROVE  (x % ClockMod) \in Timestamp
<1>1. PICK c \in Nat \ {0} : c = ClockMod
  BY ClockAssumption
<1>2. (x % c) \in 0 .. (c - 1)
  BY DivMod
<1> QED BY <1>1, <1>2 DEF Timestamp

\* Within the horizon the difference is the time that has passed, and 0 for a
\* packet with an earlier time stamp than the hyperperiod packet before it.
LEMMA DetectionOfTime ==
    ASSUME NEW h \in Int, NEW d \in Int, -SwitchUnderflow <= d, d < MaxUnderflow,
           NEW ts, ts = (h + d) % ClockMod
    PROVE  UnderflowDetection(CalcDiffTs(ts, h), ts, h) = IF d < 0 THEN 0 ELSE d
<1>1. PICK c \in Nat \ {0} : c = ClockMod
  BY ClockAssumption
<1>2. ts \in Int /\ ts = (h + d) % c
  <2>1. PICK a \in Int : a = h + d
    OBVIOUS
  <2>2. (a % c) \in Int
    BY DivMod
  <2> QED BY <1>1, <2>1, <2>2
<1>3. ((ts - h) % c) = (d % c)
  <2>1. PICK a \in Int, m \in Int : a = h + d /\ m = -h
    OBVIOUS
  <2>2. (((a % c) + m) % c) = ((a + m) % c)
    BY ModAdd
  <2>3. (a % c) = ts /\ ts + m = ts - h /\ a + m = d
    BY <1>2, <2>1
  <2> QED BY <2>2, <2>3
<1>4. /\ MaxUnderflow \in Nat /\ SwitchUnderflow \in Nat
      /\ MaxUnderflow + SwitchUnderflow < c
  BY <1>1, ClockAssumption
<1>5. CASE d >= 0
  <2>1. d \in 0 .. (c - 1)
    BY <1>4, <1>5
  <2>2. (d % c) = d
    BY <2>1, ModSmall
  <2>3. CalcDiffTs(ts, h) = d
    BY <1>1, <1>3, <2>2 DEF CalcDiffTs
  <2> QED BY <1>1, <1>2, <1>5, <2>3 DEF UnderflowDetection
<1>6. CASE d < 0
  <2>1. (d % c) = c + d
    <3>1. PICK r \in 0 .. (c - 1) : r = c + d
      <4>1. PICK u \in Nat : u = SwitchUnderflow /\ u <= c /\ -u <= d
        BY <1>4
      <4>2. c + d \in Int /\ 0 <= c + d /\ c + d <= c - 1
        BY <1>6, <4>1
      <4> QED BY <4>2
    <3>2. PICK m \in Int : m = -1 /\ d = c * m + r
      <4>1. c * (-1) = -c
        OBVIOUS
      <4>2. d = -c + r
        BY <3>1
      <4> QED BY <4>1, <4>2
    <3>3. (d % c) = r
      BY <3>2, DivModUnique
    <3> QED BY <3>1, <3>3
  <2>2. PICK e \in Int : e = c + d /\ CalcDiffTs(ts, h) = e
    BY <1>1, <1>3, <2>1 DEF CalcDiffTs
  <2>3. ~(e < MaxUnderflow) /\ e >= ClockMod - SwitchUnderflow
    BY <1>1, <1>4, <2>2
  <2> QED BY <1>1, <1>2, <1>6, <2>2, <2>3 DEF UnderflowDetection
<1> QED BY <1>5, <1>6

\* Likewise with the clamp to the end of the hyperperiod.
LEMMA DiffOfTime ==
    ASSUME NEW h \in Int, NEW d \in Int, NEW p \in Nat,
           -SwitchUnderflow <= d, d < MaxUnderflow,
           NEW ts, ts = (h + d) % ClockMod
    PROVE  DiffTs(ts, h, p) = Clamped(d, p)
<1>1. UnderflowDetection(CalcDiffTs(ts, h), ts, h) = IF d < 0 THEN 0 ELSE d
  BY DetectionOfTime
<1> QED BY <1>1 DEF DiffTs, HyperperiodExceededDetection, Clamped

\* With the register still 0, and the clock beyond p and not about to wrap, the
\* hyperperiod looks over.
LEMMA DetectionBeforeStart ==
    ASSUME NEW ts \in Nat, NEW p \in Nat, p < MaxUnderflow,
           p <= ts, ts < ClockMod - SwitchUnderflow
    PROVE  /\ UnderflowDetection(CalcDiffTs(ts, 0), ts, 0) \in Nat
           /\ p <= UnderflowDetection(CalcDiffTs(ts, 0), ts, 0)
<1>1. PICK c \in Nat \ {0} : c = ClockMod
  BY ClockAssumption
<1>2. MaxUnderflow \in Nat \ {0} /\ SwitchUnderflow \in Nat
  BY ClockAssumption
<1>3. ts \in 0 .. (c - 1) /\ ts - 0 = ts
  BY <1>1, <1>2
<1>4. CalcDiffTs(ts, 0) = ts
  BY <1>1, <1>3, ModSmall DEF CalcDiffTs
<1>5. CASE ts < MaxUnderflow
  BY <1>2, <1>4, <1>5 DEF UnderflowDetection
<1>6. CASE ts >= MaxUnderflow
  <2>1. UnderflowTimestamp(ts, 0) = ts - 1
    <3>1. PICK a \in Int : a = (c - 1 - 0) + ts
      OBVIOUS
    <3>2. PICK r \in 0 .. (c - 1) : r = ts - 1
      BY <1>2, <1>3, <1>6
    <3>3. PICK m \in Int : m = 1 /\ a = c * m + r
      BY <3>1, <3>2
    <3>4. (a % c) = r
      BY DivModUnique, <3>3
    <3> QED BY <1>1, <3>1, <3>2, <3>4 DEF UnderflowTimestamp
  <2>2. UnderflowDetection(ts, ts, 0) = ts - 1
    BY <1>1, <1>2, <1>6, <2>1 DEF UnderflowDetection
  <2> QED BY <1>2, <1>4, <1>6, <2>2
<1> QED BY <1>2, <1>5, <1>6

\* Likewise with the clamp.
LEMMA DiffBeforeStart ==
    ASSUME NEW ts \in Nat, NEW p \in Nat, p < MaxUnderflow,
           p <= ts, ts < ClockMod - SwitchUnderflow
    PROVE  DiffTs(ts, 0, p) = p
BY DetectionBeforeStart DEF DiffTs, HyperperiodExceededDetection

\* A time stamp that has been stored s ns ahead of the clock is s ns ahead of it.
LEMMA StoredAhead ==
    ASSUME NEW t \in Timestamp, NEW s \in Int, NEW h, h = (t + s) % ClockMod
    PROVE  t = (h + (-s)) % ClockMod
<1>1. PICK c \in Nat \ {0} : c = ClockMod
  BY ClockAssumption
<1>2. PICK a \in Int, m \in Int : a = t + s /\ m = -s /\ a + m = t
  BY <1>1 DEF Timestamp
<1>3. (((a % c) + m) % c) = ((a + m) % c)
  BY ModAdd
<1>4. (t % c) = t
  BY <1>1, ModSmall DEF Timestamp
<1> QED BY <1>1, <1>2, <1>3, <1>4

\* Clock and true time stay in step.
LEMMA ClockInStep ==
    ASSUME NEW h \in Int, NEW d \in Int, NEW g \in Int, NEW t, t = (h + d) % ClockMod,
           NEW e \in Int, e = d + g
    PROVE  (t + g) % ClockMod = (h + e) % ClockMod
<1>1. PICK c \in Nat \ {0} : c = ClockMod
  BY ClockAssumption
<1>2. PICK a \in Int : a = h + d /\ a + g = h + e
  OBVIOUS
<1>3. (((a % c) + g) % c) = ((a + g) % c)
  BY ModAdd
<1> QED BY <1>1, <1>2, <1>3
=============================================================================
