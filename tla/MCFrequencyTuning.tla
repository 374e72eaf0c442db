------------------------- MODULE MCFrequencyTuning -------------------------
(***************************************************************************)
(* The numbers of the code.  An increment makes 1 or 5 ns per sample       *)
(* (4.9 ns per second: one to five Syncs per second); one call fails.  By  *)
(* steps of 1 ns the servo removes an error of 1200 ns per sample in time; *)
(* with 1250 the property fails.                                           *)
(***************************************************************************)
EXTENDS FrequencyTuning, TLC

MCAdjustment == 1000 :> 50 @@ 500 :> 20 @@ 100 :> 10 @@ 50 :> 5
MCGains == {1, 5}
MCFirstErrors == {-1200, 90, 600}
MCNoise == {-20, 20}
=============================================================================
