---------------------------- MODULE BuoyEvidence ----------------------------
(***************************************************************************)
(* The buoy controller with a vehicle that drifts, or flies to the         *)
(* setpoint while the autopilot is in the guided mode; targets that keep   *)
(* coming; a pilot who picks modes; and an observer of the arrivals.  At   *)
(* some moment the outside world may settle: no target, no pilot, no drift *)
(* and no crash after that, so that what the controller then brings about  *)
(* can be stated.                                                          *)
(***************************************************************************)
EXTENDS BuoyPositionControl

VARIABLES
    settled,
    vehicle,         \* external: where the vehicle is
    reached,         \* {} or {the target this process last arrived at}
    since_request    \* time since the last request (to RequestInterval)

observerVars == <<settled, vehicle, reached, since_request>>
vars == <<buoyVars, observerVars>>

Init == /\ BuoyInit
        /\ settled = FALSE /\ vehicle \in Points /\ reached = {}
        /\ since_request = RequestInterval

Odom == OdomCallback(vehicle) /\ UNCHANGED observerVars

\* The autopilot takes setpoints in the guided mode.  It may do so more slowly
\* than the odometry is reported, or faster.
Fly == /\ fcu_mode = GuidedMode /\ have_odom /\ Setpoint.h # NonFinite
       /\ vehicle' = Setpoint
       /\ UNCHANGED <<buoyVars, settled, reached, since_request>>

Drift == /\ ~settled /\ vehicle' \in Points
         /\ UNCHANGED <<buoyVars, settled, reached, since_request>>

Target == \E target \in Targets :
            ~settled /\ BuoyCallback(target) /\ UNCHANGED observerVars

Report == StateCallback /\ UNCHANGED observerVars

Loop ==
    /\ ControlLoop
    /\ reached' = IF target_active /\ Arrived(target_position, current_position)
                  THEN {target_position} ELSE reached
    /\ since_request' = IF in_flight' # in_flight THEN 0 ELSE since_request
    /\ UNCHANGED <<settled, vehicle>>

Pass == /\ Tick
        /\ since_request' = Lesser(since_request + 1, RequestInterval)
        /\ UNCHANGED <<settled, vehicle, reached>>

Obeyed(mode) == Obey(mode) /\ UNCHANGED observerVars
Refused == \E mode \in Modes : Refuse(mode) /\ UNCHANGED observerVars

Pilot == \E mode \in Modes :
            ~settled /\ PilotSets(mode) /\ UNCHANGED observerVars

Crash == /\ ~settled /\ Respawn
         /\ reached' = {} /\ since_request' = RequestInterval
         /\ UNCHANGED <<settled, vehicle>>

Settle == ~settled /\ settled' = TRUE
          /\ UNCHANGED <<buoyVars, vehicle, reached, since_request>>

Next == \/ Odom \/ Fly \/ Drift \/ Target \/ Report \/ Loop \/ Pass \/ Refused \/ Pilot
        \/ Crash \/ Settle
        \/ \E mode \in Modes : Obeyed(mode)

\* The executor runs the loop's timer, time passes, the filter keeps reporting
\* the position and MAVROS the mode; the guided mode brings the vehicle where
\* it is told to go.  The service is ready again and again, and a request that is made
\* again and again is some time obeyed.
Fairness ==
    /\ WF_vars(Pass) /\ WF_vars(Report) /\ WF_vars(Loop)
    /\ WF_vars(Odom) /\ WF_vars(Fly)
    /\ SF_vars(Loop /\ request_age' = 0)
    /\ \A mode \in Modes : SF_vars(Obeyed(mode))

Spec == Init /\ [][Next]_vars /\ Fairness
-----------------------------------------------------------------------------
\* Well-typed state; with a place to hold, or a target, only once the process
\* has been told where the vehicle is (buoy_position_control.cpp:104, 164), since
\* a target's depth, the distance to it and a hold are taken from that position.
TypeOK ==
    /\ have_odom \in BOOLEAN /\ have_hold_position \in BOOLEAN
    /\ target_active \in BOOLEAN
    /\ target_active \/ have_hold_position => have_odom
    /\ {vehicle, current_position, hold_position} \subseteq Point
    /\ target_position \in TargetPoint
    /\ current_mode \in Modes \cup {NoMode} /\ fcu_mode \in Modes
    /\ in_flight \subseteq {HoldMode, GuidedMode}
    /\ request_age \in 0 .. RequestInterval
    /\ since_request \in 0 .. RequestInterval

\* buoy_position_control.cpp:176-197: once a target has been reached, the place
\* the vehicle is told to hold lies within the arrival radius of the target it
\* reached last, whatever came in between: odometry, new targets, other modes.
HoldsWhereItArrived ==
    ~target_active => \A target \in reached : Arrived(target, Setpoint)

\* buoy_position_control.cpp:238-256: requests are RequestInterval apart; only
\* the request that ends a flight may come sooner, so that a refused request
\* does not flood the autopilot.
RequestsAreSpaced ==
    [][\A mode \in in_flight' \ in_flight :
         since_request < RequestInterval => mode = HoldMode /\ target_active]_vars

\* buoy_position_control.cpp:156-197, 229-256: without a target the autopilot
\* is brought back into the hold mode again and again, also against a pilot;
\* and when nobody else interferes any more, it ends up in the mode that the
\* controller's state calls for and stays there, although requests are lost,
\* refused or overtaken by others and the mode the controller goes by is old.
ModeFollowsIntent ==
    /\ <>[](have_odom /\ ~target_active) => []<>(fcu_mode = HoldMode)
    /\ <>[](settled /\ have_odom /\ ~target_active) => <>[](fcu_mode = HoldMode)
    /\ <>[](settled /\ have_odom /\ target_active) => <>[](fcu_mode = GuidedMode)

\* buoy_position_control.cpp:162-188: left alone, a flight to a finite target
\* ends, whatever requests of the time before are still under way, whatever
\* mode the vehicle is in and however old its position.  (A NaN is accepted
\* for a target and never arrived at.)
FlightCompletes ==
    (settled /\ target_active /\ target_position.h # NonFinite) ~> ~target_active
=============================================================================
