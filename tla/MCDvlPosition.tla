--------------------------- MODULE MCDvlPosition ---------------------------
(***************************************************************************)
(* Raw positions of which some are within the speed limit of each other in *)
(* one time unit, some in two, and some beyond the norm from 0 or from     *)
(* each other; angles of a quarter turn; stamps in any order, close and    *)
(* far.  The parameters are those of the launch file and the combinations  *)
(* of zeroing, rejecting and resetting.                                    *)
(***************************************************************************)
EXTENDS DvlPositionEvidence

Local == [type |-> "position_local", status |-> 0, position |-> 0, yaw |-> 0]

MCMessages == {
    Local,
    [Local EXCEPT !.position = 1, !.yaw = 3],
    [Local EXCEPT !.position = 3, !.yaw = 1],
    [Local EXCEPT !.position = -3],
    [Local EXCEPT !.position = 6, !.yaw = NonFinite],
    [Local EXCEPT !.position = NonFinite],
    [Local EXCEPT !.type = "velocity"],
    [Local EXCEPT !.status = 1, !.position = 2] }

Launched == [zero_position_on_start |-> FALSE, zero_orientation_on_start |-> FALSE,
             reset_origin_on_jump |-> FALSE, estimate_twist |-> FALSE,
             require_status_zero |-> FALSE,
             max_position_norm |-> 0, max_position_speed |-> 0]

Guarded == [Launched EXCEPT !.estimate_twist = TRUE, !.require_status_zero = TRUE,
                            !.max_position_norm = 4, !.max_position_speed = 2]

MCParams == {Launched, Guarded}
    \cup {[Guarded EXCEPT !.zero_position_on_start = p,
                          !.zero_orientation_on_start = o,
                          !.reset_origin_on_jump = r] :
            p \in BOOLEAN, o \in BOOLEAN, r \in BOOLEAN}

MCStamps == {1, 2, 3, 5}
=============================================================================
