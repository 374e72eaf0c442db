--------------------------- MODULE ScheduledPolicer ---------------------------
(***************************************************************************)
(* What per-stream filtering and policing promises: a frame of a known     *)
(* stream passes or does not by the schedule of its gate at the true time, *)
(* by what the gate and the meter have seen before, and by its color.      *)
(* Clocks, registers, table entries and their widths are no part of it.    *)
(***************************************************************************)
EXTENDS Integers

CONSTANTS Policies,   \* by stream: gate, meter and what they are to do
          GateLists,  \* by gate: a period and intervals
          Meters,
          Frames,     \* [stream, pcp, dei]
          EarlyBy     \* a hyperperiod may end this much early

VARIABLES position,   \* by gate: how far its hyperperiod has got
          shut,       \* gates that have seen a frame they are to shut after
          red,        \* meters that are to mark all frames red
          verdict     \* on the frame that came last, if any

vars == <<position, shut, red, verdict>>

Known(f) == f.stream \in DOMAIN Policies
IntervalsNow(g) ==
    {t \in GateLists[g].intervals : t.low <= position[g] /\ position[g] <= t.high}
StatesNow(g) == {t.state : t \in IntervalsNow(g)}

Init ==
    /\ position = [g \in DOMAIN GateLists |-> GateLists[g].period]
    /\ shut = {} /\ red = {} /\ verdict = {}

\* A hyperperiod waits at its end for the next one, and may wait at its start.
Advance ==
    /\ \E moving \in SUBSET DOMAIN GateLists :
         position' = [g \in DOMAIN GateLists |->
                        IF /\ position[g] < GateLists[g].period
                           /\ position[g] = 0 => g \in moving
                        THEN position[g] + 1 ELSE position[g]]
    /\ verdict' = {}
    /\ UNCHANGED <<shut, red>>

NewHyperperiod(g) ==
    /\ position[g] >= GateLists[g].period - EarlyBy
    /\ position' = [position EXCEPT ![g] = 0]
    /\ verdict' = {}
    /\ UNCHANGED <<shut, red>>

Dropped(f) == [frame |-> f, passed |-> FALSE]
Sent(f, queue, dei) == [frame |-> f, passed |-> TRUE, queue |-> queue, dei |-> dei]

\* A gate whose stream polices neither time nor octets is never shut for it.
ShutFor(p) == (p.invalid_rx \/ p.octets_exceeded) /\ p.gate \in shut

\* A frame out of schedule, one too many octets, or any frame at a shut gate.
GateDrops(f, p) ==
    /\ \/ /\ StatesNow(p.gate) # {1}
          /\ shut' = IF p.invalid_rx THEN shut \union {p.gate} ELSE shut
       \/ p.octets_exceeded /\ shut' = shut \union {p.gate}
       \/ ShutFor(p) /\ UNCHANGED shut
    /\ verdict' = {Dropped(f)}
    /\ UNCHANGED red

\* What a meter may say: 0 green, 1 yellow, 2 red.
Colors(p, dei) ==
    IF p.meter \notin Meters THEN {0} ELSE (IF p.color_aware THEN dei ELSE 0)..2

GatePasses(f, p) ==
    /\ ~ShutFor(p)
    /\ UNCHANGED shut
    /\ \E t \in IntervalsNow(p.gate), color \in Colors(p, f.dei) :
         /\ t.state = 1
         /\ red' = IF color = 2 /\ p.mark_red THEN red \union {p.meter} ELSE red
         /\ verdict' = {IF \/ p.meter \in red
                           \/ color = 2
                           \/ color = 1 /\ p.drop_on_yellow
                        THEN Dropped(f)
                        ELSE Sent(f, IF t.ipv = 8 THEN f.pcp ELSE t.ipv, color)}

\* Frames of no stream may pass or not, but do the others no harm.
Unpoliced(f) ==
    /\ \E queue \in 0..7, dei \in {0, 1} : verdict' \in {{Dropped(f)}, {Sent(f, queue, dei)}}
    /\ UNCHANGED <<shut, red>>

Arrive(f) ==
    /\ \/ Known(f) /\ GateDrops(f, Policies[f.stream])
       \/ Known(f) /\ GatePasses(f, Policies[f.stream])
       \/ ~Known(f) /\ Unpoliced(f)
    /\ UNCHANGED position

Next ==
    \/ Advance
    \/ \E g \in DOMAIN GateLists : NewHyperperiod(g)
    \/ \E f \in Frames : Arrive(f)

Spec == Init /\ [][Next]_vars
=============================================================================
