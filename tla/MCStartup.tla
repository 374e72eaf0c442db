------------------------------ MODULE MCStartup ------------------------------
(***************************************************************************)
(* Three runs of the controller on a generator with five applications.     *)
(* Between the first three an application id passes from a port to a       *)
(* stream gate and back, and the batches change places.  The others cannot *)
(* be served: a stream gate and a port, two stream gates or two ports      *)
(* share a period, there are too many applications, or there is no port.   *)
(***************************************************************************)
EXTENDS Startup, TLC

Config(gates, ports, period) ==
    [gates |-> [j \in DOMAIN gates |-> [id |-> gates[j][1], schedule |-> gates[j][2]]],
     ports |-> [j \in DOMAIN ports |-> [id |-> ports[j][1], gcl |-> ports[j][2]]],
     period |-> period]

Periods == "s1" :> 40 @@ "s2" :> 80 @@ "g1" :> 41 @@ "g2" :> 92 @@ "g3" :> 40

MCConfigs ==
    {Config(<<<<1, "s1">>>>, <<<<1, "g1">>, <<2, "g2">>>>, Periods),
     Config(<<<<2, "s2">>, <<1, "s1">>>>, <<<<2, "g1">>>>, Periods),
     Config(<<>>, <<<<1, "g2">>>>, Periods),
     Config(<<<<1, "s1">>>>, <<<<1, "g3">>>>, Periods),
     Config(<<<<1, "s1">>, <<2, "s1">>>>, <<<<1, "g1">>>>, Periods),
     Config(<<>>, <<<<1, "g1">>, <<1, "g1">>>>, Periods),
     Config(<<<<1, "s1">>, <<2, "s2">>>>, <<<<1, "g1">>, <<2, "g2">>, <<3, "g3">>>>, Periods),
     Config(<<<<1, "s1">>>>, <<>>, Periods)}
=============================================================================
