------------------------- MODULE MCPktgenActivation -------------------------
(***************************************************************************)
(* Offsets in units of 50 ns, so that the limits of 100 and 150 ns are 2   *)
(* and 3; two samples of warm-up; clocks with the same and with different  *)
(* epochs; errors of measurement of up to one unit.                        *)
(***************************************************************************)
EXTENDS PktgenActivation

MCEpochs == {0, 30}
MCOneEpoch == {0}
MCNoise == {-1, 0, 1}
MCNoNoise == {0}
=============================================================================
