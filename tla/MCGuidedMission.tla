--------------------------- MODULE MCGuidedMission ---------------------------
(***************************************************************************)
(* Two setpoints have to precede the mode request instead of thirty; the   *)
(* operator sends the vehicle to either side of its origin and turns it.   *)
(* A line is typed when the one before it is at its end, also while that   *)
(* one's yaw command is waited for.                                        *)
(***************************************************************************)
EXTENDS GuidedMission

MCLines == {[offset |-> 1, yaw |-> 0], [offset |-> -1, yaw |-> 90]}
MCPositions == {0, 2}
=============================================================================
