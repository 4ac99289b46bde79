------------------------ MODULE BuoyPositionControl ------------------------
(***************************************************************************)
(* The node buoy_position_control (src/buoy_position_control.cpp): flies   *)
(* the vehicle to a target point by position setpoints in a guided mode,   *)
(* and holds where it arrived.  It talks to the autopilot through MAVROS:  *)
(* mode requests are asynchronous and their answers only logged; the mode  *)
(* the node believes in is the last one reported to it.  The autopilot     *)
(* also obeys a pilot (joy2mavros) and may refuse or lose a request.       *)
(*                                                                         *)
(* Points have one horizontal and one vertical coordinate.                 *)
(***************************************************************************)
EXTENDS Arith

CONSTANTS
    Points,             \* places of the vehicle
    Targets,            \* targets as the detector gives them
    NonFinite,          \* NaN or an infinity
    Modes, HoldMode, GuidedMode,
    ArrivalRadius, UseBuoyZ,
    RequestInterval,    \* mode_request_interval_sec, in periods of the loop
    NoMode              \* nothing reported yet

Point == [h : Int, v : Int]
TargetPoint == [h : Int \cup {NonFinite}, v : Int]

ASSUME BuoyAssumption ==
    /\ NonFinite \notin Int
    /\ Points \subseteq Point /\ Targets \subseteq TargetPoint
    /\ HoldMode \in Modes /\ GuidedMode \in Modes /\ HoldMode # GuidedMode
    /\ NoMode \notin Modes
    /\ ArrivalRadius \in Nat /\ UseBuoyZ \in BOOLEAN
    /\ RequestInterval \in Nat \ {0}

VARIABLES
    have_odom, current_position,
    have_hold_position, hold_position,
    target_active, target_position,
    current_mode,        \* last mode reported; have_state_ is current_mode # NoMode
    request_age,         \* time since the last request (to RequestInterval,
                         \* which also stands for no request so far)
    in_flight,           \* external: modes requested that MAVROS has not acted
                         \* on yet; it may take them in any order
    fcu_mode             \* external: the autopilot's mode

odomVars == <<have_odom, current_position, have_hold_position, hold_position>>
targetVars == <<target_active, target_position>>
requestVars == <<request_age, in_flight>>
buoyVars == <<odomVars, targetVars, current_mode, requestVars, fcu_mode>>

Origin == [h |-> 0, v |-> 0]

BuoyInit ==
    /\ have_odom = FALSE /\ current_position = Origin
    /\ have_hold_position = FALSE /\ hold_position = Origin
    /\ target_active = FALSE /\ target_position = Origin
    /\ current_mode = NoMode /\ request_age = RequestInterval
    /\ in_flight = {}
    /\ fcu_mode \in Modes
-----------------------------------------------------------------------------
\* distance <= arrival_radius, which is false for a NaN.
Arrived(target, position) ==
    LET dh == target.h - position.h
        dv == IF UseBuoyZ THEN target.v - position.v ELSE 0
    IN  target.h # NonFinite /\ dh * dh + dv * dv <= ArrivalRadius * ArrivalRadius

\* Mutant of WantsRequest: no rate limit.
WantsRequestAnyTime(mode, force) == current_mode # mode

\* requestMode gets past the comparison with the reported mode and past the
\* rate limit, which `force` lifts.
WantsRequest(mode, force) ==
    /\ current_mode # mode
    /\ force \/ request_age >= RequestInterval

\* Mutant of IssueRequests: the time of the last request is noted before the
\* rate limit is looked at.
IssueRequestsNotingEach(asked) ==
    \E issued \in SUBSET {r[1] : r \in {r \in asked : WantsRequest(r[1], r[2])}} :
        /\ in_flight' = in_flight \cup issued
        /\ request_age' = IF \E r \in asked : current_mode # r[1]
                          THEN 0 ELSE request_age

\* One pass of the loop calls requestMode for `asked`, a set of
\* <<mode, force>>.  A call finds the service ready or not.
IssueRequests(asked) ==
    \E issued \in SUBSET {r[1] : r \in {r \in asked : WantsRequest(r[1], r[2])}} :
        /\ in_flight' = in_flight \cup issued
        /\ request_age' = IF issued = {} THEN request_age ELSE 0
-----------------------------------------------------------------------------
OdomCallback(position) ==
    /\ have_odom' = TRUE
    /\ current_position' = position
    /\ hold_position' = IF have_hold_position THEN hold_position ELSE position
    /\ have_hold_position' = TRUE
    /\ UNCHANGED <<targetVars, current_mode, requestVars, fcu_mode>>

\* Mutant of BuoyCallback: odometry is not waited for.
BuoyCallbackAtOnce(target) ==
    /\ target_position' = IF UseBuoyZ THEN target
                          ELSE [target EXCEPT !.v = current_position.v]
    /\ target_active' = TRUE
    /\ UNCHANGED <<odomVars, current_mode, requestVars, fcu_mode>>

\* A target that can be transformed, after the first odometry.  Whether it is
\* finite is not looked at.
BuoyCallback(target) ==
    /\ have_odom
    /\ target_position' = IF UseBuoyZ THEN target
                          ELSE [target EXCEPT !.v = current_position.v]
    /\ target_active' = TRUE
    /\ UNCHANGED <<odomVars, current_mode, requestVars, fcu_mode>>

\* MAVROS reports the autopilot's mode now and then.
StateCallback ==
    /\ current_mode' = fcu_mode
    /\ UNCHANGED <<odomVars, targetVars, requestVars, fcu_mode>>

\* The position a pass of the loop publishes.
Setpoint == IF target_active THEN target_position ELSE hold_position

\* controlLoop: on the way, at the target, and without a target.
LoopTravels ==
    /\ have_odom /\ target_active
    /\ ~Arrived(target_position, current_position)
    /\ IssueRequests({<<GuidedMode, FALSE>>})
    /\ UNCHANGED <<odomVars, targetVars, current_mode, fcu_mode>>

\* Mutant of LoopArrives: the vehicle is sent back to where it held before.
LoopArrivesHoldingOld ==
    /\ have_odom /\ target_active
    /\ Arrived(target_position, current_position)
    /\ IssueRequests({<<GuidedMode, FALSE>>, <<HoldMode, TRUE>>})
    /\ target_active' = FALSE
    /\ UNCHANGED <<odomVars, target_position, current_mode, fcu_mode>>

LoopArrives ==
    /\ have_odom /\ target_active
    /\ Arrived(target_position, current_position)
    /\ IssueRequests({<<GuidedMode, FALSE>>, <<HoldMode, TRUE>>})
    /\ target_active' = FALSE
    /\ hold_position' = current_position
    /\ have_hold_position' = TRUE
    /\ UNCHANGED <<have_odom, current_position, target_position, current_mode,
                   fcu_mode>>

\* Mutant of LoopHolds: only the arrival itself requests the hold mode.
LoopHoldsSilently ==
    /\ have_odom /\ ~target_active
    /\ hold_position' = IF have_hold_position THEN hold_position
                        ELSE current_position
    /\ have_hold_position' = TRUE
    /\ UNCHANGED <<have_odom, current_position, targetVars, current_mode,
                   requestVars, fcu_mode>>

LoopHolds ==
    /\ have_odom /\ ~target_active
    /\ hold_position' = IF have_hold_position THEN hold_position
                        ELSE current_position
    /\ have_hold_position' = TRUE
    /\ IssueRequests({<<HoldMode, FALSE>>})
    /\ UNCHANGED <<have_odom, current_position, targetVars, current_mode, fcu_mode>>

ControlLoop == LoopTravels \/ LoopArrives \/ LoopHolds

\* One period of the loop passes.
Tick ==
    /\ request_age' = Lesser(request_age + 1, RequestInterval)
    /\ UNCHANGED <<odomVars, targetVars, current_mode, in_flight, fcu_mode>>

\* External: MAVROS acts on a request, the autopilot obeys or refuses.
Obey(mode) ==
    /\ mode \in in_flight
    /\ in_flight' = in_flight \ {mode}
    /\ fcu_mode' = mode
    /\ UNCHANGED <<odomVars, targetVars, current_mode, request_age>>

Refuse(mode) ==
    /\ mode \in in_flight
    /\ in_flight' = in_flight \ {mode}
    /\ UNCHANGED <<odomVars, targetVars, current_mode, request_age, fcu_mode>>

\* External: the pilot, or a failsafe of the autopilot, picks a mode.
PilotSets(mode) ==
    /\ fcu_mode' = mode
    /\ UNCHANGED <<odomVars, targetVars, current_mode, requestVars>>

\* The process dies and launch starts it again; requests in flight remain.
Respawn ==
    /\ have_odom' = FALSE /\ current_position' = Origin
    /\ have_hold_position' = FALSE /\ hold_position' = Origin
    /\ target_active' = FALSE /\ target_position' = Origin
    /\ current_mode' = NoMode /\ request_age' = RequestInterval
    /\ UNCHANGED <<in_flight, fcu_mode>>
=============================================================================
