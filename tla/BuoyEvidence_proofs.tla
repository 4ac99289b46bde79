------------------------- MODULE BuoyEvidence_proofs -------------------------
(***************************************************************************)
(* For every value of the parameters, any places and targets: the buoy     *)
(* controller's state is well typed, it holds where it arrived, and it     *)
(* does not flood the autopilot with requests.                             *)
(***************************************************************************)
EXTENDS BuoyEvidence, TLAPS

\* The controller's own clock is never ahead of the observer's, and a vehicle
\* that arrived has a place to hold.
IInv == /\ TypeOK
        /\ HoldsWhereItArrived
        /\ reached # {} => have_hold_position
        /\ request_age <= since_request

\* What a pass of the loop may ask for (buoy_position_control.cpp:229-268).
LEMMA Requests ==
    ASSUME TypeOK, NEW asked,
           \A r \in asked : r[1] \in {HoldMode, GuidedMode},
           IssueRequests(asked)
    PROVE  /\ in_flight' \subseteq {HoldMode, GuidedMode}
           /\ request_age' \in {0, request_age}
           /\ in_flight' # in_flight => request_age' = 0
           /\ \A mode \in in_flight' \ in_flight :
                \E r \in asked : r[1] = mode /\ WantsRequest(r[1], r[2])
<1>1. PICK issued \in SUBSET {r[1] : r \in {r \in asked : WantsRequest(r[1], r[2])}} :
        /\ in_flight' = in_flight \cup issued
        /\ request_age' = IF issued = {} THEN request_age ELSE 0
  BY DEF IssueRequests
<1>2. \A mode \in issued : \E r \in asked : r[1] = mode /\ WantsRequest(r[1], r[2])
  OBVIOUS
<1>3. in_flight' \subseteq {HoldMode, GuidedMode}
  BY <1>1, <1>2 DEF TypeOK
<1> QED
  BY <1>1, <1>2, <1>3

\* The modes a pass of the loop asks for, one way out at a time.
LEMMA LoopRequests ==
    ASSUME ControlLoop
    PROVE  \E asked :
             /\ IssueRequests(asked)
             /\ \A r \in asked :
                  /\ r[1] \in {HoldMode, GuidedMode}
                  /\ r[2] = FALSE \/ (r[1] = HoldMode /\ target_active)
<1>1. CASE LoopTravels
  <2> DEFINE asked == {<<GuidedMode, FALSE>>}
  <2>1. IssueRequests(asked)
    BY <1>1 DEF LoopTravels
  <2>2. \A r \in asked : r = <<GuidedMode, FALSE>>
    OBVIOUS
  <2>3. <<GuidedMode, FALSE>>[1] = GuidedMode /\ <<GuidedMode, FALSE>>[2] = FALSE
    OBVIOUS
  <2>4. \A r \in asked : /\ r[1] \in {HoldMode, GuidedMode}
                         /\ r[2] = FALSE \/ (r[1] = HoldMode /\ target_active)
    BY <2>1, <2>2, <2>3, Zenon
  <2> HIDE DEF asked
  <2> QED
    BY <2>1, <2>4
<1>2. CASE LoopArrives
  <2> DEFINE asked == {<<GuidedMode, FALSE>>, <<HoldMode, TRUE>>}
  <2>1. IssueRequests(asked) /\ target_active
    BY <1>2 DEF LoopArrives
  <2>2. \A r \in asked : r = <<GuidedMode, FALSE>> \/ r = <<HoldMode, TRUE>>
    OBVIOUS
  <2>3. /\ <<GuidedMode, FALSE>>[1] = GuidedMode /\ <<GuidedMode, FALSE>>[2] = FALSE
        /\ <<HoldMode, TRUE>>[1] = HoldMode
    OBVIOUS
  <2>4. \A r \in asked : /\ r[1] \in {HoldMode, GuidedMode}
                         /\ r[2] = FALSE \/ (r[1] = HoldMode /\ target_active)
    BY <2>1, <2>2, <2>3, Zenon
  <2> HIDE DEF asked
  <2> QED
    BY <2>1, <2>4
<1>3. CASE LoopHolds
  <2> DEFINE asked == {<<HoldMode, FALSE>>}
  <2>1. IssueRequests(asked)
    BY <1>3 DEF LoopHolds
  <2>2. \A r \in asked : r = <<HoldMode, FALSE>>
    OBVIOUS
  <2>3. <<HoldMode, FALSE>>[1] = HoldMode /\ <<HoldMode, FALSE>>[2] = FALSE
    OBVIOUS
  <2>4. \A r \in asked : /\ r[1] \in {HoldMode, GuidedMode}
                         /\ r[2] = FALSE \/ (r[1] = HoldMode /\ target_active)
    BY <2>1, <2>2, <2>3, Zenon
  <2> HIDE DEF asked
  <2> QED
    BY <2>1, <2>4
<1> QED
  BY <1>1, <1>2, <1>3 DEF ControlLoop

\* Where a process that knows nothing believes itself to be.
LEMMA StartingPoint == Origin \in Point /\ Origin \in TargetPoint
  BY DEF Origin, Point, TargetPoint

\* The well-typed state, step by step.
LEMMA TypeStep ==
    ASSUME TypeOK, [Next]_vars
    PROVE  TypeOK'
<1> USE BuoyAssumption DEF BuoyAssumption, TypeOK
<1>1. CASE UNCHANGED vars
  BY <1>1 DEF vars, buoyVars, odomVars, targetVars, requestVars, observerVars
<1>2. CASE Odom
  BY <1>2 DEF Odom, OdomCallback, targetVars, requestVars, observerVars
<1>3. CASE Fly
  <2>1. Setpoint \in TargetPoint /\ Setpoint.h # NonFinite
    BY <1>3 DEF Fly, Setpoint, Point, TargetPoint
  <2>2. Setpoint \in Point
    BY <2>1 DEF Point, TargetPoint
  <2> QED
    BY <1>3, <2>2 DEF Fly, buoyVars, odomVars, targetVars, requestVars
<1>4. CASE Drift
  BY <1>4 DEF Drift, buoyVars, odomVars, targetVars, requestVars
<1>5. CASE Target
  <2>1. PICK target \in Targets : BuoyCallback(target) /\ UNCHANGED observerVars
    BY <1>5 DEF Target
  <2>2. target_position' \in TargetPoint
    BY <2>1 DEF BuoyCallback, Point, TargetPoint
  <2> QED
    BY <2>1, <2>2 DEF BuoyCallback, odomVars, requestVars, observerVars
<1>6. CASE Report
  BY <1>6 DEF Report, StateCallback, odomVars, targetVars, requestVars, observerVars
<1>7. CASE Loop
  <2>1. in_flight' \subseteq {HoldMode, GuidedMode} /\ request_age' \in {0, request_age}
    BY <1>7, LoopRequests, Requests DEF Loop
  <2>2. since_request' \in {0, since_request}
    BY <1>7 DEF Loop
  <2>3. /\ have_odom' = have_odom /\ current_position' = current_position
        /\ target_position' = target_position /\ target_active' \in BOOLEAN
        /\ current_mode' = current_mode /\ fcu_mode' = fcu_mode
        /\ hold_position' \in {hold_position, current_position}
        /\ have_hold_position' \in BOOLEAN /\ have_odom
    BY <1>7 DEF Loop, ControlLoop, LoopTravels, LoopArrives, LoopHolds, odomVars, targetVars
  <2> QED
    BY <1>7, <2>1, <2>2, <2>3 DEF Loop
<1>8. CASE Pass
  BY <1>8 DEF Pass, Tick, Lesser, odomVars, targetVars
<1>9. CASE Refused
  BY <1>9 DEF Refused, Refuse, odomVars, targetVars, observerVars
<1>10. CASE Pilot
  BY <1>10 DEF Pilot, PilotSets, odomVars, targetVars, requestVars, observerVars
<1>11. CASE Crash
  <2>1. /\ have_odom' \in BOOLEAN /\ have_hold_position' \in BOOLEAN /\ target_active' \in BOOLEAN
        /\ current_mode' \in Modes \cup {NoMode} /\ fcu_mode' \in Modes
        /\ in_flight' \subseteq {HoldMode, GuidedMode}
    BY <1>11 DEF Crash, Respawn
  <2>2. /\ {vehicle', current_position', hold_position'} \subseteq Point
        /\ target_position' \in TargetPoint
    BY <1>11, StartingPoint DEF Crash, Respawn
  <2>3. request_age' \in 0 .. RequestInterval /\ since_request' \in 0 .. RequestInterval
    BY <1>11 DEF Crash, Respawn
  <2>4. target_active' \/ have_hold_position' => have_odom'
    BY <1>11 DEF Crash, Respawn
  <2> QED
    BY <2>1, <2>2, <2>3, <2>4
<1>12. CASE Settle
  BY <1>12 DEF Settle, buoyVars, odomVars, targetVars, requestVars
<1>13. ASSUME NEW mode \in Modes, Obeyed(mode)
       PROVE  TypeOK'
  BY <1>13 DEF Obeyed, Obey, odomVars, targetVars, observerVars
<1> QED
  BY <1>1, <1>2, <1>3, <1>4, <1>5, <1>6, <1>7, <1>8, <1>9, <1>10, <1>11, <1>12, <1>13
     DEF Next

\* The place to hold after each step: only the loop, a target and a crash move
\* it or what it is compared with (buoy_position_control.cpp:87-100, 162-197).
LEMMA HoldStep ==
    ASSUME IInv, [Next]_vars
    PROVE  HoldsWhereItArrived' /\ (reached # {} => have_hold_position)'
<1> USE DEF IInv, HoldsWhereItArrived, Setpoint
<1>1. CASE Odom
  BY <1>1 DEF Odom, OdomCallback, targetVars, observerVars
<1>2. CASE Target
  BY <1>2 DEF Target, BuoyCallback, odomVars, observerVars
<1>3. CASE Loop
  <2>1. CASE LoopTravels
    BY <1>3, <2>1 DEF Loop, LoopTravels, odomVars, targetVars
  <2>2. CASE LoopArrives
    BY <1>3, <2>2 DEF Loop, LoopArrives
  <2>3. CASE LoopHolds
    BY <1>3, <2>3 DEF Loop, LoopHolds, targetVars
  <2> QED
    BY <1>3, <2>1, <2>2, <2>3 DEF Loop, ControlLoop
<1>4. CASE Crash
  BY <1>4 DEF Crash
<1>5. CASE \/ UNCHANGED vars \/ Fly \/ Drift \/ Report \/ Pass \/ Refused \/ Pilot \/ Settle
           \/ \E mode \in Modes : Obeyed(mode)
  <2>1. UNCHANGED <<target_active, target_position, hold_position, have_hold_position, reached>>
    BY <1>5 DEF vars, observerVars, buoyVars, odomVars, targetVars, Fly, Drift, Report,
       StateCallback, Pass, Tick, Refused, Refuse, Pilot, PilotSets, Settle, Obeyed, Obey
  <2> QED
    BY <2>1
<1> QED
  BY <1>1, <1>2, <1>3, <1>4, <1>5 DEF Next

\* The two clocks of the last request (buoy_position_control.cpp:238-256).
LEMMA AgeStep ==
    ASSUME IInv, [Next]_vars
    PROVE  (request_age <= since_request)'
<1> USE BuoyAssumption DEF BuoyAssumption, IInv, TypeOK
<1>1. CASE Loop
  <2>1. /\ request_age' \in {0, request_age}
        /\ in_flight' # in_flight => request_age' = 0
    BY <1>1, LoopRequests, Requests DEF Loop
  <2> QED
    BY <1>1, <2>1 DEF Loop
<1>2. CASE Pass
  BY <1>2 DEF Pass, Tick, Lesser
<1>3. CASE Crash
  BY <1>3 DEF Crash, Respawn
<1>4. CASE \/ UNCHANGED vars \/ Odom \/ Fly \/ Drift \/ Target \/ Report \/ Refused \/ Pilot
           \/ Settle \/ \E mode \in Modes : Obeyed(mode)
  <2>1. UNCHANGED <<request_age, since_request>>
    BY <1>4 DEF vars, observerVars, buoyVars, requestVars, Odom, OdomCallback, Fly, Drift,
       Target, BuoyCallback, Report, StateCallback, Refused, Refuse, Pilot, PilotSets,
       Settle, Obeyed, Obey
  <2> QED
    BY <2>1
<1> QED
  BY <1>1, <1>2, <1>3, <1>4 DEF Next

\* The inductive invariant.
THEOREM Invariance == Spec => []IInv
<1>1. Init => IInv
  <2> SUFFICES ASSUME Init PROVE IInv
    OBVIOUS
  <2>1. TypeOK
    <3> USE BuoyAssumption DEF BuoyAssumption, Init, BuoyInit
    <3>1. /\ have_odom \in BOOLEAN /\ have_hold_position \in BOOLEAN /\ target_active \in BOOLEAN
          /\ current_mode \in Modes \cup {NoMode} /\ fcu_mode \in Modes
          /\ in_flight \subseteq {HoldMode, GuidedMode}
      OBVIOUS
    <3>2. /\ {vehicle, current_position, hold_position} \subseteq Point
          /\ target_position \in TargetPoint
      BY StartingPoint
    <3>3. request_age \in 0 .. RequestInterval /\ since_request \in 0 .. RequestInterval
      OBVIOUS
    <3> QED
      BY <3>1, <3>2, <3>3 DEF TypeOK
  <2>2. /\ HoldsWhereItArrived /\ (reached # {} => have_hold_position)
        /\ request_age <= since_request
    BY BuoyAssumption DEF BuoyAssumption, Init, BuoyInit, HoldsWhereItArrived
  <2> QED
    BY <2>1, <2>2 DEF IInv
<1>2. IInv /\ [Next]_vars => IInv'
  BY TypeStep, HoldStep, AgeStep DEF IInv
<1> QED
  BY <1>1, <1>2, PTL DEF Spec

\* The controller's state is well typed, only the two modes it knows are ever
\* requested, and it has no target and no place to hold before its first odometry
\* (buoy_position_control.cpp:87-108, 162-170).
THEOREM TypeCorrectness == Spec => []TypeOK
<1>1. IInv => TypeOK
  BY DEF IInv
<1> QED
  BY <1>1, Invariance, PTL

\* buoy_position_control.cpp:176-197: wherever the vehicle is told to hold lies
\* within the arrival radius of the target it reached last.
THEOREM HoldingPlace == Spec => []HoldsWhereItArrived
<1>1. IInv => HoldsWhereItArrived
  BY DEF IInv
<1> QED
  BY <1>1, Invariance, PTL

\* buoy_position_control.cpp:238-256: no request sooner than the interval, but
\* for the one that ends a flight.
THEOREM Spacing == Spec => RequestsAreSpaced
<1> DEFINE Spaced ==
      \A mode \in in_flight' \ in_flight :
        since_request < RequestInterval => mode = HoldMode /\ target_active
<1>1. IInv /\ [Next]_vars => [Spaced]_vars
  <2> SUFFICES ASSUME IInv, [Next]_vars, NEW mode \in in_flight' \ in_flight,
                      since_request < RequestInterval
               PROVE  mode = HoldMode /\ target_active
    OBVIOUS
  <2>1. Loop
    BY DEF Next, vars, observerVars, buoyVars, requestVars, Odom, OdomCallback, Fly, Drift,
       Target, BuoyCallback, Report, StateCallback, Pass, Tick, Refused, Refuse, Pilot,
       PilotSets, Crash, Respawn, Settle, Obeyed, Obey
  <2>2. PICK asked :
             /\ IssueRequests(asked)
             /\ \A r \in asked :
                  /\ r[1] \in {HoldMode, GuidedMode}
                  /\ r[2] = FALSE \/ (r[1] = HoldMode /\ target_active)
    BY <2>1, LoopRequests DEF Loop
  <2>3. PICK r \in asked : r[1] = mode /\ WantsRequest(r[1], r[2])
    BY <2>2, Requests DEF IInv
  <2>4. ~(request_age >= RequestInterval)
    BY BuoyAssumption DEF BuoyAssumption, IInv, TypeOK
  <2> QED
    BY <2>2, <2>3, <2>4 DEF WantsRequest
<1> QED
  BY <1>1, Invariance, PTL DEF Spec, RequestsAreSpaced
=============================================================================
