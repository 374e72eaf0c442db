--------------------------- MODULE ScheduledGates ---------------------------
(***************************************************************************)
(* What a time-aware shaper promises: the gate of a queue is in a state    *)
(* that the gate control list holds for the queue now or held at most      *)
(* Latency ns ago.  How the gates get to know is not part of it.           *)
(***************************************************************************)
EXTENDS GateControlLists

CONSTANTS Batch, Queue, Gcl, MaxGap, EarlyBy, Skew, Latency

VARIABLES phase,    \* phase[b]: time since the current hyperperiod of b began
          started,  \* started[b]: a hyperperiod of b has begun
          gate      \* gate[b][q]: 0 open, 1 closed, 2 never set

vars == <<phase, started, gate>>

Clamp(b, t) ==
    IF t < 0 THEN 0 ELSE IF t > Gcl[b].period THEN Gcl[b].period ELSE t

\* The positions port b has been at during the last Latency ns.  Before its
\* first hyperperiod a port is at the end of one, and a hyperperiod may end
\* EarlyBy ns before its period is over.
RecentPositions(b) ==
    IF ~started[b] THEN {Gcl[b].period}
    ELSE {Clamp(b, t) : t \in (phase[b] - Latency)..phase[b]} \union
         IF phase[b] > Latency THEN {}
         ELSE {Clamp(b, t) :
                 t \in (Gcl[b].period - EarlyBy - (Latency - phase[b]))..Gcl[b].period}

RecentStates(b, q) ==
    UNION {StatesAt(Gcl[b], q, d) : d \in RecentPositions(b)}

NoGateOutdated ==
    \A b \in Batch, q \in Queue : gate[b][q] \in RecentStates(b, q) \union {2}

Init ==
    /\ phase = [b \in Batch |-> 0]
    /\ started = [b \in Batch |-> FALSE]
    /\ gate = [b \in Batch |-> [q \in Queue |-> 2]]

\* Time may pass only as long as no gate gets outdated by it.
Advance ==
    /\ \E g \in 1..MaxGap : phase' = [b \in Batch |-> phase[b] + g]
    /\ UNCHANGED <<started, gate>>
    /\ NoGateOutdated'

NewHyperperiod(b) ==
    /\ phase[b] >= Gcl[b].period - EarlyBy
    /\ \E s \in 0..Skew : phase' = [phase EXCEPT ![b] = -s]
    /\ started' = [started EXCEPT ![b] = TRUE]
    /\ UNCHANGED gate
    /\ NoGateOutdated'

SwitchGate(b, q) ==
    /\ \E s \in RecentStates(b, q) : gate' = [gate EXCEPT ![b][q] = s]
    /\ UNCHANGED <<phase, started>>

Next ==
    \/ Advance
    \/ \E b \in Batch : NewHyperperiod(b)
    \/ \E b \in Batch, q \in Queue : SwitchGate(b, q)

Spec == Init /\ [][Next]_vars
=============================================================================
