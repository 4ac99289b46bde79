----------------------- MODULE DvlPositionToOdomBridge -----------------------
(***************************************************************************)
(* The node dvl_position_to_odom_bridge: passes on the dead-reckoned       *)
(* position of the DVL as an odometry, in the sensor's own frame or in one *)
(* that starts where the first message was, and judges each position by    *)
(* its distance from the origin and from the one published before.  An     *)
(* unreasonable one is dropped, or becomes the origin of a new frame.      *)
(*                                                                         *)
(* Positions have one coordinate; the yaw stands for the three angles.     *)
(***************************************************************************)
EXTENDS Arith

CONSTANTS
    Messages,       \* DVLDR messages: [type, status, position, yaw]
    Stamps,         \* their times of measurement, in any order
    ExpectedType,   \* "" takes any
    Scale,          \* position_scale
    MaxTwistDt,
    Turn,           \* a full turn of an angle
    NonFinite,      \* NaN or an infinity
    Params          \* the node's parameters, see Param

Param == [zero_position_on_start : BOOLEAN, zero_orientation_on_start : BOOLEAN,
          reset_origin_on_jump : BOOLEAN, estimate_twist : BOOLEAN,
          require_status_zero : BOOLEAN,
          max_position_norm : Nat, max_position_speed : Nat]   \* 0: no limit

Number == Int \cup {NonFinite}
Pose == [position : Int, yaw : Number]

ASSUME PositionAssumption ==
    /\ NonFinite \notin Int
    /\ \A msg \in Messages : msg.position \in Number /\ msg.yaw \in Number
    /\ Stamps \subseteq Int /\ Scale \in Int
    /\ MaxTwistDt \in Nat \ {0} /\ Turn \in Nat \ {0}
    /\ Params \subseteq Param

VARIABLES
    param,
    have_origin, origin,
    have_last_pose,
    published,       \* the last odometry sent; last_stamp_, last_x_, last_y_ and
                     \* last_z_ are its stamp and position
    exit             \* how the last message was dealt with

bridgeVars == <<param, have_origin, origin, have_last_pose, published, exit>>

\* (x - last_x_) / dt, not divided.
NoTwist == [moved |-> 0, dt |-> 1]

NoPose == [position |-> 0, yaw |-> 0]
NoOdometry == [stamp |-> 0, position |-> 0, yaw |-> 0, twist |-> NoTwist]

BridgeInit ==
    /\ param \in Params
    /\ have_origin = FALSE /\ origin = NoPose
    /\ have_last_pose = FALSE /\ published = NoOdometry
    /\ exit = "NONE"
-----------------------------------------------------------------------------
Usable(msg) ==
    /\ ExpectedType # "" => msg.type = ExpectedType
    /\ param.require_status_zero => msg.status = 0
    /\ msg.position # NonFinite

RawPose(msg) == [position |-> msg.position, yaw |-> msg.yaw]

OriginNeeded == param.zero_position_on_start \/ param.zero_orientation_on_start

\* Mutant of OriginFor: every message starts a frame.
OriginForEach(msg) == IF OriginNeeded THEN RawPose(msg) ELSE origin

\* The first usable message becomes the origin, if one is needed.
OriginFor(msg) ==
    IF OriginNeeded /\ ~have_origin THEN RawPose(msg) ELSE origin

Position(msg) ==
    Scale * (IF param.zero_position_on_start
             THEN msg.position - OriginFor(msg).position ELSE msg.position)

\* NaN spreads through the subtraction.
Minus(a, b) == IF NonFinite \in {a, b} THEN NonFinite ELSE a - b

Yaw(msg) == IF param.zero_orientation_on_start
            THEN Minus(msg.yaw, OriginFor(msg).yaw) ELSE msg.yaw

\* Mutant of Orientation: an angle instead of a quaternion.
OrientationUnwrapped(yaw) == yaw

\* Angles that differ by full turns have the same quaternion.
Orientation(yaw) == IF yaw = NonFinite THEN NonFinite ELSE yaw % Turn

\* A predecessor old enough and young enough to be compared with.
Comparable(stamp) ==
    have_last_pose /\ (stamp - published.stamp) \in 1 .. MaxTwistDt

IsReasonablePosition(stamp, position) ==
    /\ param.max_position_norm > 0 => Distance(position, 0) <= param.max_position_norm
    /\ (param.max_position_speed > 0 /\ Comparable(stamp)) =>
         Distance(position, published.position)
            <= param.max_position_speed * (stamp - published.stamp)

EstimateTwist(stamp, position) ==
    IF param.estimate_twist /\ Comparable(stamp)
    THEN [moved |-> position - published.position, dt |-> stamp - published.stamp]
    ELSE NoTwist

Publish(stamp, position, yaw, twist) ==
    /\ published' = [stamp |-> stamp, position |-> position,
                     yaw |-> Orientation(yaw), twist |-> twist]
    /\ have_last_pose' = TRUE
-----------------------------------------------------------------------------
Skip(msg) ==
    /\ ~Usable(msg)
    /\ exit' = "SKIP"
    /\ UNCHANGED <<have_origin, origin, have_last_pose, published>>

Reject(msg, stamp) ==
    /\ Usable(msg) /\ ~IsReasonablePosition(stamp, Position(msg))
    /\ ~param.reset_origin_on_jump
    /\ have_origin' = (have_origin \/ OriginNeeded) /\ origin' = OriginFor(msg)
    /\ exit' = "REJECT"
    /\ UNCHANGED <<have_last_pose, published>>

\* Mutant of ResetOrigin: the new frame has the old origin.
ResetNothing(msg, stamp) ==
    /\ Usable(msg) /\ ~IsReasonablePosition(stamp, Position(msg))
    /\ param.reset_origin_on_jump
    /\ have_origin' = TRUE /\ origin' = OriginFor(msg)
    /\ Publish(stamp, 0, IF param.zero_orientation_on_start THEN 0 ELSE Yaw(msg),
               NoTwist)
    /\ exit' = "RESET"

\* Mutant of ResetOrigin: have_last_pose_ is not cleared, and the twist leads
\* from one frame into another.
ResetKeepingLast(msg, stamp) ==
    /\ Usable(msg) /\ ~IsReasonablePosition(stamp, Position(msg))
    /\ param.reset_origin_on_jump
    /\ have_origin' = TRUE /\ origin' = RawPose(msg)
    /\ Publish(stamp, 0, IF param.zero_orientation_on_start THEN 0 ELSE Yaw(msg),
               EstimateTwist(stamp, 0))
    /\ exit' = "RESET"

\* have_last_pose_ is cleared before the twist is estimated and set after it.
ResetOrigin(msg, stamp) ==
    /\ Usable(msg) /\ ~IsReasonablePosition(stamp, Position(msg))
    /\ param.reset_origin_on_jump
    /\ have_origin' = TRUE /\ origin' = RawPose(msg)
    /\ Publish(stamp, 0, IF param.zero_orientation_on_start THEN 0 ELSE Yaw(msg),
               NoTwist)
    /\ exit' = "RESET"

Forward(msg, stamp) ==
    /\ Usable(msg) /\ IsReasonablePosition(stamp, Position(msg))
    /\ have_origin' = (have_origin \/ OriginNeeded) /\ origin' = OriginFor(msg)
    /\ Publish(stamp, Position(msg), Yaw(msg), EstimateTwist(stamp, Position(msg)))
    /\ exit' = "PUBLISH"

HandleMsg(msg, stamp) ==
    /\ Skip(msg) \/ Reject(msg, stamp) \/ ResetOrigin(msg, stamp) \/ Forward(msg, stamp)
    /\ UNCHANGED param

\* The process dies and launch starts it again.
Respawn ==
    /\ have_origin' = FALSE /\ origin' = NoPose
    /\ have_last_pose' = FALSE /\ published' = NoOdometry
    /\ exit' = "NONE"
    /\ UNCHANGED param
=============================================================================
