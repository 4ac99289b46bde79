------------------------ MODULE MCDepthGateEvidence ------------------------
(***************************************************************************)
(* Depths 0 .. 5 of which some pairs are in reach of each other in one     *)
(* time unit, some in two and some never; the time 0, which the gate       *)
(* refuses, and 1 .. 7: one sample, a rejection, and the recovery from it  *)
(* with an interruption all fit.  ReacquireGoodSamples has its default, 3. *)
(***************************************************************************)
EXTENDS DepthGateEvidence

MCDepths == {0, 2, 3, 5}
MCTimes  == 0 .. 7
=============================================================================
