----------------------- MODULE MCPressureToDepthPose -----------------------
(***************************************************************************)
(* Pressures 10, 13 and 16 are the depths 1, 2 (rounded) and 4: in reach   *)
(* of each other in one time unit, in two, and never.  The clock and the   *)
(* stamps leave room for a rejection, a recovery with two samples, the     *)
(* whole variance ramp, and a restart anywhere in it.                      *)
(***************************************************************************)
EXTENDS PressureToDepthPose

MCPressures == {10, 13, 16}
MCParams ==
    {[enable_depth_gate |-> TRUE,  zero_at_start |-> TRUE,  input_mode |-> "pressure_pa"],
     [enable_depth_gate |-> TRUE,  zero_at_start |-> FALSE, input_mode |-> "pressure_pa"],
     [enable_depth_gate |-> FALSE, zero_at_start |-> TRUE,  input_mode |-> "depth_m"]}
=============================================================================
