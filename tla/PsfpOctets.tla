----------------------------- MODULE PsfpOctets -----------------------------
(***************************************************************************)
(* The octets that a gate lets pass in an interval of its schedule, next   *)
(* to the gates and meters of MCPsfp.  All frames have the same length.    *)
(***************************************************************************)
EXTENDS MCPsfp

CONSTANT FrameLength

VARIABLE admitted   \* history: octets that have passed gate g in its interval

octetsVars == <<vars, admitted>>

OctetsInit == Init /\ admitted = [g \in Gate |-> 0]

PassedGate(g) == \E r \in out : r.passed /\ Identify(r.frame.stream).gate = g

\* A gate starts to count again when another interval or period begins.
CountOctets ==
    admitted' = [g \in Gate |->
        IF \/ IntervalsAt(g, Position(g))' # IntervalsAt(g, Position(g))
           \/ hyperperiodTs'[g] # hyperperiodTs[g]
        THEN 0
        ELSE admitted[g] + IF out' # out /\ PassedGate(g)' THEN FrameLength ELSE 0]

OctetsSpec == OctetsInit /\ [][Next /\ CountOctets]_octetsVars

\* "gate_closed_due_to_octets_exceeded_enable" (configuration.json:149) bounds
\* what a gate lets pass by the octets of the interval: "Check if subtraction
\* goes below 0 -> drop, else decrement" (StreamGate.p4:74).
OctetsBounded ==
    \A g \in Gate :
        Flag(StreamGates[g], "gate_closed_due_to_octets_exceeded_enable") =>
            \A t \in IntervalsAt(g, Position(g)) : admitted[g] <= t.octets
=============================================================================
