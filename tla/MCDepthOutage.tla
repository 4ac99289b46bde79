---------------------------- MODULE MCDepthOutage ----------------------------
(***************************************************************************)
(* Two depths that a vehicle at the speed limit is four time units apart,  *)
(* twice the time for which the gate allows a change.                      *)
(***************************************************************************)
EXTENDS DepthOutage

MCDepths == {0, 1, 5}
MCTimes  == 1 .. 8
=============================================================================
