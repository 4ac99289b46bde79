--------------------------- MODULE Odometry_proofs ---------------------------
(***************************************************************************)
(* For every scale, limit, turn and setting, any messages and any stamps:  *)
(* the DVL position bridge judges a message exactly as its raw position    *)
(* deserves, and what it publishes between two resets is seen from one     *)
(* origin.  And for every length of the path, every distance and any poses *)
(* in any frames, what the two recorders keep of an odometry.              *)
(***************************************************************************)
EXTENDS DvlPositionEvidence, OdometryRecords, SequenceTheorems, TLAPS

\* What the bridge keeps is what the observer has seen: the origin is where the
\* frame began, and the last odometry is the last raw pose seen from there.
FrameInv ==
    /\ param.zero_position_on_start /\ have_origin => have_last_pose
    /\ have_last_pose =>
         /\ OriginNeeded => have_origin
         /\ param.zero_position_on_start =>
              /\ zero = origin.position
              /\ published.position = Scale * (raw.position - origin.position)
         /\ ~param.zero_position_on_start /\ ~param.reset_origin_on_jump =>
              published.position = Scale * raw.position
         /\ NonFinite \notin {published.yaw, raw.yaw} =>
              IF param.zero_orientation_on_start
              THEN /\ origin.yaw # NonFinite
                   /\ published.yaw = (raw.yaw - origin.yaw) % Turn
              ELSE published.yaw = raw.yaw % Turn

IInv == TypeOK /\ FrameInv /\ JumpsExactly

\* Scaling.
LEMMA Scaling ==
    /\ Scale * 0 = 0
    /\ \A a, b \in Int : Scale * a \in Int /\ Scale * (a - b) = Scale * a - Scale * b
  BY PositionAssumption DEF PositionAssumption

\* The angle within a turn, and what it is the rest of.
LEMMA Rest ==
    ASSUME NEW a \in Int
    PROVE  \E q, r \in Int : a = Turn * q + r /\ r = a % Turn /\ r \in 0 .. Turn - 1
<1>1. a = Turn * (a \div Turn) + (a % Turn) /\ (a \div Turn) \in Int
  BY PositionAssumption DEF PositionAssumption
<1>2. a % Turn \in 0 .. Turn - 1
  BY PositionAssumption DEF PositionAssumption
<1> QED
  BY <1>1, <1>2

\* Full turns.
LEMMA Turns ==
    /\ \A a, b \in Int : Turn * a \in Int /\ Turn * (a - b) = Turn * a - Turn * b
    /\ \A m \in Int : Turn * m < Turn /\ -(Turn * m) < Turn => m = 0 /\ Turn * m = 0
  BY PositionAssumption DEF PositionAssumption

\* Angles that differ by full turns are the same within one.
LEMMA SameAngle ==
    ASSUME NEW x \in Int, NEW y \in Int, NEW k \in Int, x = y + Turn * k
    PROVE  x % Turn = y % Turn
<1>1. PICK p, r \in Int : x = Turn * p + r /\ r = x % Turn /\ r \in 0 .. Turn - 1
  BY Rest
<1>2. PICK q, s \in Int : y = Turn * q + s /\ s = y % Turn /\ s \in 0 .. Turn - 1
  BY Rest
<1>3. r - s = Turn * (k - (p - q))
  <2>1. Turn * (k - (p - q)) = Turn * k - (Turn * p - Turn * q)
    <3>1. Turn * (k - (p - q)) = Turn * k - Turn * (p - q)
      BY Turns, p - q \in Int
    <3> QED
      BY <3>1, Turns
  <2>2. Turn * p \in Int /\ Turn * q \in Int /\ Turn * k \in Int
    BY Turns
  <2>3. x = Turn * p + r /\ y = Turn * q + s
    BY <1>1, <1>2
  <2>4. r - s = Turn * k - (Turn * p - Turn * q)
    BY <2>2, <2>3
  <2> QED
    BY <2>1, <2>4
<1>4. Turn * (k - (p - q)) = 0
  <2>1. Turn * (k - (p - q)) < Turn /\ -(Turn * (k - (p - q))) < Turn
    BY <1>1, <1>2, <1>3, PositionAssumption DEF PositionAssumption
  <2> QED
    BY <2>1, Turns
<1>5. r = s
  BY <1>3, <1>4
<1> QED
  BY <1>1, <1>2, <1>5

\* The difference of two angles does not depend on their turns.
LEMMA AngleBetween ==
    ASSUME NEW a \in Int, NEW b \in Int
    PROVE  ((a % Turn) - (b % Turn)) % Turn = (a - b) % Turn
<1>1. PICK p, r \in Int : a = Turn * p + r /\ r = a % Turn
  BY Rest
<1>2. PICK q, s \in Int : b = Turn * q + s /\ s = b % Turn
  BY Rest
<1>3. a - b = (r - s) + Turn * (p - q)
  <2>1. Turn * p \in Int /\ Turn * q \in Int /\ Turn * (p - q) = Turn * p - Turn * q
    BY Turns
  <2>2. a = Turn * p + r /\ b = Turn * q + s
    BY <1>1, <1>2
  <2> QED
    BY <2>1, <2>2
<1>4. (a - b) % Turn = (r - s) % Turn
  BY <1>3, SameAngle, p - q \in Int
<1> QED
  BY <1>1, <1>2, <1>4

\* The values a message brings (dvl_position_to_odom_bridge.cpp:70-104).
LEMMA MessageType ==
    ASSUME TypeOK, NEW msg \in Messages, Usable(msg)
    PROVE  /\ msg.position \in Int /\ RawPose(msg) \in Pose /\ OriginFor(msg) \in Pose
           /\ Position(msg) \in Int /\ Yaw(msg) \in Number
           /\ Orientation(Yaw(msg)) \in 0 .. Turn - 1 \cup {NonFinite}
<1> USE PositionAssumption DEF PositionAssumption, TypeOK
<1>1. msg.position \in Int /\ msg.yaw \in Number
  BY DEF Usable, Number
<1>2. RawPose(msg) \in Pose
  BY <1>1 DEF RawPose, Pose
<1>3. OriginFor(msg) \in Pose
  BY <1>2 DEF OriginFor
<1>4. OriginFor(msg).position \in Int /\ OriginFor(msg).yaw \in Number
  BY <1>3 DEF Pose
<1>5. Position(msg) \in Int
  BY <1>1, <1>4, Scaling DEF Position
<1>6. Yaw(msg) \in Number
  BY <1>1, <1>4 DEF Yaw, Minus, Number
<1>7. Orientation(Yaw(msg)) \in 0 .. Turn - 1 \cup {NonFinite}
  BY <1>6 DEF Orientation, Number
<1> QED
  BY <1>1, <1>2, <1>3, <1>5, <1>6, <1>7

\* A position as seen from the origin is as far from it, and from the last
\* position, as the raw positions are.
LEMMA SeenFromOrigin ==
    ASSUME TypeOK, FrameInv, FramesMatter, NEW msg \in Messages, Usable(msg)
    PROVE  /\ have_last_pose =>
                Position(msg) - published.position
                  = Scale * msg.position - Scale * raw.position
           /\ Position(msg) =
                Scale * msg.position
                  - Scale * (IF ~param.zero_position_on_start THEN 0
                             ELSE IF have_last_pose THEN zero ELSE msg.position)
<1> USE DEF TypeOK, FrameInv, FramesMatter
<1>1. msg.position \in Int
  BY MessageType
<1>2. raw.position \in Int /\ origin.position \in Int
  BY DEF Pose
<1>3. CASE ~param.zero_position_on_start
  <2>1. Position(msg) = Scale * msg.position
    BY <1>3 DEF Position
  <2>2. have_last_pose => published.position = Scale * raw.position
    BY <1>3
  <2>3. (IF ~param.zero_position_on_start THEN 0
         ELSE IF have_last_pose THEN zero ELSE msg.position) = 0
    BY <1>3
  <2>4. Scale * msg.position \in Int
    BY <1>1, Scaling
  <2>5. Scale * msg.position = Scale * msg.position - Scale * 0
    <3>1. Scale * 0 = 0
      BY Scaling
    <3> QED
      BY <2>4, <3>1
  <2> QED
    BY <2>1, <2>2, <2>3, <2>5
<1>4. CASE param.zero_position_on_start /\ have_last_pose
  <2>1. OriginFor(msg) = origin
    BY <1>4 DEF OriginFor, OriginNeeded
  <2>2. Position(msg) = Scale * msg.position - Scale * origin.position
    BY <1>1, <1>2, <1>4, <2>1, Scaling DEF Position
  <2>3. published.position = Scale * raw.position - Scale * origin.position
    BY <1>2, <1>4, Scaling
  <2>4. zero = origin.position
    BY <1>4
  <2>5. (IF ~param.zero_position_on_start THEN 0
         ELSE IF have_last_pose THEN zero ELSE msg.position) = origin.position
    BY <1>4, <2>4
  <2>6. /\ Scale * msg.position \in Int /\ Scale * raw.position \in Int
        /\ Scale * origin.position \in Int
    BY <1>1, <1>2, Scaling
  <2>7. Position(msg) - published.position = Scale * msg.position - Scale * raw.position
    BY <2>2, <2>3, <2>6
  <2> QED
    BY <2>2, <2>5, <2>7
<1>5. CASE param.zero_position_on_start /\ ~have_last_pose
  <2>1. OriginFor(msg) = RawPose(msg)
    BY <1>5 DEF OriginFor, OriginNeeded
  <2>2. Position(msg) = Scale * (msg.position - msg.position)
    BY <1>5, <2>1 DEF Position, RawPose
  <2> QED
    BY <1>1, <1>5, <2>2, Scaling
<1> QED
  BY <1>3, <1>4, <1>5

\* The bridge's verdict and the observer's (dvl_position_to_odom_bridge.cpp:190-218).
LEMMA Verdict ==
    ASSUME TypeOK, FrameInv, FramesMatter, NEW msg \in Messages, Usable(msg),
           NEW stamp \in Stamps
    PROVE  IsReasonablePosition(stamp, Position(msg)) <=> ~Jumps(msg, stamp)
<1> USE DEF TypeOK
<1> DEFINE from == IF ~param.zero_position_on_start THEN 0
                   ELSE IF have_last_pose THEN zero ELSE msg.position
<1>1. msg.position \in Int /\ Position(msg) \in Int /\ from \in Int /\ raw.position \in Int
  BY MessageType DEF Pose
<1>2. Scale * msg.position \in Int /\ Scale * from \in Int /\ Scale * raw.position \in Int
  BY <1>1, Scaling
<1>3. Distance(Position(msg), 0) = Distance(Scale * msg.position, Scale * from)
  <2>1. Position(msg) = Scale * msg.position - Scale * from
    BY SeenFromOrigin
  <2> QED
    BY <1>1, <1>2, <2>1 DEF Distance
<1>4. have_last_pose =>
        Distance(Position(msg), published.position)
          = Distance(Scale * msg.position, Scale * raw.position)
  <2>1. have_last_pose =>
          Position(msg) - published.position = Scale * msg.position - Scale * raw.position
    BY SeenFromOrigin
  <2>2. published.position \in Int
    OBVIOUS
  <2> QED
    BY <1>1, <1>2, <2>1, <2>2 DEF Distance
<1>5. param.max_position_norm \in Nat /\ param.max_position_speed \in Nat
  BY PositionAssumption DEF PositionAssumption, Param
<1>6. stamp - published.stamp \in Int
  BY PositionAssumption DEF PositionAssumption
<1>7. Distance(Scale * msg.position, Scale * from) \in Int
      /\ Distance(Scale * msg.position, Scale * raw.position) \in Int
  BY <1>2 DEF Distance
<1>8. (stamp - published.stamp) \in Int =>
        param.max_position_speed * (stamp - published.stamp) \in Int
  BY <1>5
<1> HIDE DEF from
<1> QED
  BY <1>3, <1>4, <1>5, <1>6, <1>7, <1>8
     DEF IsReasonablePosition, Comparable, Jumps, from

\* The well-typed state, message by message.
LEMMA TypeStep ==
    ASSUME IInv, NEW msg \in Messages, NEW stamp \in Stamps, Receive(msg, stamp)
    PROVE  TypeOK'
<1> USE PositionAssumption DEF PositionAssumption, IInv, TypeOK
<1>1. raw' \in Pose /\ zero' \in Int /\ jumped' \in BOOLEAN
  <2>1. exit' \in {"PUBLISH", "RESET"} => Usable(msg)
    BY DEF Receive, HandleMsg, Skip, Reject, ResetOrigin, Forward
  <2>2. Usable(msg) => RawPose(msg) \in Pose /\ msg.position \in Int
    BY MessageType
  <2>3. /\ raw' = IF exit' \in {"PUBLISH", "RESET"} THEN RawPose(msg) ELSE raw
        /\ zero' = IF exit' = "RESET" \/ (exit' = "PUBLISH" /\ ~have_last_pose)
                   THEN msg.position ELSE zero
    BY DEF Receive, Observe
  <2>4. jumped' \in BOOLEAN
    BY DEF Receive, Observe, Jumps
  <2> QED
    BY <2>1, <2>2, <2>3, <2>4
<1>2. param' \in Params
  BY DEF Receive, HandleMsg
<1>3. CASE Skip(msg)
  BY <1>1, <1>2, <1>3 DEF Skip
<1>4. CASE Reject(msg, stamp)
  BY <1>1, <1>2, <1>4, MessageType DEF Reject, OriginNeeded
<1>5. CASE ResetOrigin(msg, stamp)
  BY <1>1, <1>2, <1>5, MessageType DEF ResetOrigin, Publish, NoTwist, Orientation
<1>6. CASE Forward(msg, stamp)
  BY <1>1, <1>2, <1>6, MessageType
     DEF Forward, Publish, EstimateTwist, NoTwist, Comparable, OriginNeeded
<1> QED
  BY <1>3, <1>4, <1>5, <1>6 DEF Receive, HandleMsg

\* The frame, message by message (dvl_position_to_odom_bridge.cpp:80-125, 155-176).
LEMMA FrameStep ==
    ASSUME IInv, NEW msg \in Messages, NEW stamp \in Stamps, Receive(msg, stamp)
    PROVE  FrameInv'
<1> USE DEF IInv
<1>1. param' = param
  BY DEF Receive, HandleMsg
<1>2. CASE Skip(msg)
  BY <1>1, <1>2 DEF Skip, Receive, Observe, FrameInv, OriginNeeded
<1>3. CASE Reject(msg, stamp)
  <2>1. have_last_pose' = have_last_pose /\ published' = published
    BY <1>3 DEF Reject
  <2>2. raw' = raw /\ zero' = zero
    BY <1>3 DEF Reject, Receive, Observe
  <2>3. have_last_pose => origin' = origin /\ (OriginNeeded => have_origin')
    BY <1>3 DEF Reject, FrameInv, OriginFor
  <2>4. param.zero_position_on_start => have_last_pose
    <3> SUFFICES ASSUME param.zero_position_on_start, ~have_last_pose
                 PROVE  FALSE
      OBVIOUS
    <3>1. Usable(msg) /\ ~IsReasonablePosition(stamp, Position(msg))
      BY <1>3 DEF Reject
    <3>2. Position(msg) = Scale * msg.position - Scale * msg.position
      BY <3>1, SeenFromOrigin DEF FramesMatter
    <3>3. Position(msg) = 0
      <4>1. Scale * msg.position \in Int
        BY <3>1, MessageType, Scaling
      <4> QED
        BY <3>2, <4>1
    <3>4. param.max_position_norm \in Nat
      BY PositionAssumption DEF PositionAssumption, TypeOK, Param
    <3> QED
      BY <3>1, <3>3, <3>4 DEF IsReasonablePosition, Comparable, Distance
  <2> QED
    BY <1>1, <2>1, <2>2, <2>3, <2>4 DEF FrameInv, OriginNeeded
<1>4. CASE ResetOrigin(msg, stamp)
  <2>1. /\ have_origin' = TRUE /\ have_last_pose' = TRUE /\ param.reset_origin_on_jump
        /\ published'.position = 0
        /\ published'.yaw = Orientation(IF param.zero_orientation_on_start THEN 0
                                        ELSE Yaw(msg))
        /\ origin' = RawPose(msg) /\ raw' = RawPose(msg) /\ zero' = msg.position
    BY <1>4 DEF ResetOrigin, Publish, Receive, Observe
  <2>2. /\ msg.position \in Int /\ RawPose(msg).position = msg.position
        /\ RawPose(msg).yaw = msg.yaw /\ msg.yaw \in Int \cup {NonFinite}
    BY <1>4, MessageType, PositionAssumption
       DEF ResetOrigin, RawPose, PositionAssumption, Number
  <2>3. Scale * (raw'.position - origin'.position) = 0
    BY <2>1, <2>2, Scaling
  <2>4. NonFinite # raw'.yaw =>
          IF param.zero_orientation_on_start
          THEN origin'.yaw # NonFinite /\ published'.yaw = (raw'.yaw - origin'.yaw) % Turn
          ELSE published'.yaw = raw'.yaw % Turn
    <3>1. CASE param.zero_orientation_on_start
      <4>1. published'.yaw = 0 % Turn
        BY <2>1, <3>1, PositionAssumption DEF Orientation, PositionAssumption
      <4> QED
        BY <2>1, <2>2, <3>1, <4>1
    <3>2. CASE ~param.zero_orientation_on_start
      BY <2>1, <2>2, <3>2 DEF Orientation, Yaw
    <3> QED
      BY <3>1, <3>2
  <2> QED
    BY <1>1, <2>1, <2>2, <2>3, <2>4 DEF FrameInv, OriginNeeded
<1>5. CASE Forward(msg, stamp)
  <2>1. /\ have_origin' = (have_origin \/ OriginNeeded) /\ have_last_pose' = TRUE
        /\ published'.position = Position(msg) /\ published'.yaw = Orientation(Yaw(msg))
        /\ origin' = OriginFor(msg) /\ raw' = RawPose(msg)
        /\ zero' = IF have_last_pose THEN zero ELSE msg.position
    BY <1>5 DEF Forward, Publish, Receive, Observe
  <2>2. RawPose(msg).position = msg.position /\ RawPose(msg).yaw = msg.yaw
    BY DEF RawPose
  <2>3. param.zero_position_on_start =>
          zero' = origin'.position /\ Position(msg) = Scale * (msg.position - origin'.position)
    BY <2>1, <2>2 DEF FrameInv, OriginFor, OriginNeeded, Position
  <2>4. ~param.zero_position_on_start => Position(msg) = Scale * msg.position
    BY DEF Position
  <2>5. NonFinite \notin {published'.yaw, raw'.yaw} =>
          IF param.zero_orientation_on_start
          THEN origin'.yaw # NonFinite /\ published'.yaw = (raw'.yaw - origin'.yaw) % Turn
          ELSE published'.yaw = raw'.yaw % Turn
    BY <2>1, <2>2 DEF Orientation, Yaw, Minus
  <2>6. OriginNeeded => have_origin'
    BY <2>1
  <2> QED
    BY <1>1, <2>1, <2>2, <2>3, <2>4, <2>5, <2>6 DEF FrameInv, OriginNeeded
<1> QED
  BY <1>2, <1>3, <1>4, <1>5 DEF Receive, HandleMsg

\* Each message is dealt with as it deserves.
LEMMA JumpStep ==
    ASSUME IInv, NEW msg \in Messages, NEW stamp \in Stamps, Receive(msg, stamp)
    PROVE  JumpsExactly'
<1> SUFFICES ASSUME exit' \in {"REJECT", "RESET", "PUBLISH"}, FramesMatter'
             PROVE  exit' # "PUBLISH" <=> jumped'
  BY DEF JumpsExactly
<1>1. FramesMatter
  BY DEF Receive, HandleMsg, FramesMatter
<1>2. Usable(msg) /\ (exit' # "PUBLISH" <=> ~IsReasonablePosition(stamp, Position(msg)))
  BY DEF Receive, HandleMsg, Skip, Reject, ResetOrigin, Forward
<1>3. jumped' <=> Jumps(msg, stamp)
  BY <1>2 DEF Receive, Observe
<1> QED
  BY <1>1, <1>2, <1>3, Verdict DEF IInv

\* The inductive invariant.
THEOREM Invariance == Spec => []IInv
<1>1. Init => IInv
  <2> SUFFICES ASSUME Init PROVE IInv
    OBVIOUS
  <2>1. /\ param \in Params /\ ~have_origin /\ ~have_last_pose /\ ~jumped /\ exit = "NONE"
        /\ {have_origin, have_last_pose, jumped} \subseteq BOOLEAN
    BY DEF Init, BridgeInit
  <2>2. origin \in Pose /\ raw \in Pose /\ zero \in Int
    BY DEF Init, BridgeInit, NoPose, Pose, Number
  <2>3. published \in [stamp : Int, position : Int,
                       yaw : 0 .. Turn - 1 \cup {NonFinite},
                       twist : [moved : Int, dt : 1 .. MaxTwistDt]]
    BY PositionAssumption DEF PositionAssumption, Init, BridgeInit, NoOdometry, NoTwist
  <2> QED
    BY <2>1, <2>2, <2>3 DEF IInv, TypeOK, FrameInv, JumpsExactly
<1>2. IInv /\ [Next]_vars => IInv'
  <2> SUFFICES ASSUME IInv, [Next]_vars PROVE IInv'
    OBVIOUS
  <2>1. CASE UNCHANGED vars
    BY <2>1 DEF vars, bridgeVars, IInv, TypeOK, FrameInv, OriginNeeded, JumpsExactly, FramesMatter
  <2>2. ASSUME NEW msg \in Messages, NEW stamp \in Stamps, Receive(msg, stamp)
        PROVE  IInv'
    BY <2>2, TypeStep, FrameStep, JumpStep DEF IInv
  <2>3. CASE Restart
    <3>1. /\ param' = param /\ ~have_origin' /\ ~have_last_pose' /\ ~jumped' /\ exit' = "NONE"
          /\ {have_origin', have_last_pose', jumped'} \subseteq BOOLEAN
      BY <2>3 DEF Restart, Respawn
    <3>2. origin' \in Pose /\ raw' \in Pose /\ zero' \in Int
      BY <2>3 DEF Restart, Respawn, NoPose, Pose, Number
    <3>3. published' \in [stamp : Int, position : Int,
                          yaw : 0 .. Turn - 1 \cup {NonFinite},
                          twist : [moved : Int, dt : 1 .. MaxTwistDt]]
      BY <2>3, PositionAssumption DEF PositionAssumption, Restart, Respawn, NoOdometry, NoTwist
    <3> QED
      BY <3>1, <3>2, <3>3 DEF IInv, TypeOK, FrameInv, JumpsExactly
  <2> QED
    BY <2>1, <2>2, <2>3 DEF Next
<1> QED
  BY <1>1, <1>2, PTL DEF Spec

\* Whatever the driver sends, what is published is well typed: an angle within
\* one turn, a time that a velocity may be divided by.
THEOREM TypeCorrectness == Spec => []TypeOK
<1>1. IInv => TypeOK
  BY DEF IInv
<1> QED
  BY <1>1, Invariance, PTL

\* dvl_position_to_odom_bridge.cpp:106-119, 190-218: a message is refused, or
\* restarts the frame, exactly if the raw positions jump.
THEOREM ExactJumps == Spec => []JumpsExactly
<1>1. IInv => JumpsExactly
  BY DEF IInv
<1> QED
  BY <1>1, Invariance, PTL

\* Between two messages of a frame, what is published moves as the raw positions
\* do (dvl_position_to_odom_bridge.cpp:80-92, 168-172).
LEMMA SamePosition ==
    ASSUME IInv, FramesMatter, have_last_pose,
           NEW msg \in Messages, NEW stamp \in Stamps, Receive(msg, stamp),
           exit' = "PUBLISH"
    PROVE  published'.position - published.position
             = Scale * (raw'.position - raw.position)
<1>1. Usable(msg) /\ Forward(msg, stamp)
  BY DEF Receive, HandleMsg, Skip, Reject, ResetOrigin, Forward
<1>2. published'.position = Position(msg) /\ raw'.position = msg.position
  BY <1>1 DEF Forward, Publish, Receive, Observe, RawPose
<1>3. Position(msg) - published.position = Scale * msg.position - Scale * raw.position
  BY <1>1, SeenFromOrigin DEF IInv
<1>4. msg.position \in Int /\ raw.position \in Int
  BY <1>1, MessageType DEF IInv, TypeOK, Pose
<1> QED
  BY <1>2, <1>3, <1>4, Scaling

\* And it turns as they do (dvl_position_to_odom_bridge.cpp:94-104, 173-176).
LEMMA SameTurn ==
    ASSUME IInv, IInv', have_last_pose,
           NEW msg \in Messages, NEW stamp \in Stamps, Receive(msg, stamp),
           exit' = "PUBLISH", NonFinite \notin {published.yaw, published'.yaw, raw.yaw}
    PROVE  (published'.yaw - published.yaw) % Turn = (raw'.yaw - raw.yaw) % Turn
<1>1. Usable(msg) /\ Forward(msg, stamp)
  BY DEF Receive, HandleMsg, Skip, Reject, ResetOrigin, Forward
<1>2. /\ param' = param /\ have_last_pose' /\ raw'.yaw = msg.yaw
      /\ published'.yaw = Orientation(Yaw(msg)) /\ origin' = OriginFor(msg)
  BY <1>1 DEF Forward, Publish, Receive, HandleMsg, Observe, RawPose
<1>3. raw.yaw \in Int
  BY DEF IInv, TypeOK, Pose, Number
<1>4. raw'.yaw \in Int
  <2>1. msg.yaw # NonFinite
    BY <1>2 DEF Orientation, Yaw, Minus
  <2>2. msg.yaw \in Number
    BY PositionAssumption DEF PositionAssumption
  <2> QED
    BY <1>2, <2>1, <2>2 DEF Number
<1>5. NonFinite \notin Int
  BY PositionAssumption DEF PositionAssumption
<1>6. CASE param.zero_orientation_on_start
  <2>1. origin' = origin
    BY <1>2, <1>6 DEF IInv, FrameInv, OriginFor, OriginNeeded
  <2>2. origin.yaw \in Int
    BY <1>6 DEF IInv, TypeOK, FrameInv, Pose, Number
  <2>3. published.yaw = (raw.yaw - origin.yaw) % Turn
    BY <1>6 DEF IInv, FrameInv
  <2>4. published'.yaw = (raw'.yaw - origin.yaw) % Turn
    BY <1>2, <1>4, <1>5, <1>6, <2>1 DEF IInv, FrameInv
  <2>5. raw'.yaw - origin.yaw \in Int /\ raw.yaw - origin.yaw \in Int
    BY <1>3, <1>4, <2>2
  <2>6. (raw'.yaw - origin.yaw) - (raw.yaw - origin.yaw) = raw'.yaw - raw.yaw
    BY <1>3, <1>4, <2>2
  <2> QED
    BY <2>3, <2>4, <2>5, <2>6, AngleBetween
<1>7. CASE ~param.zero_orientation_on_start
  <2>1. published.yaw = raw.yaw % Turn
    BY <1>7 DEF IInv, FrameInv
  <2>2. published'.yaw = raw'.yaw % Turn
    BY <1>2, <1>4, <1>5, <1>7 DEF IInv, FrameInv
  <2> QED
    BY <1>3, <1>4, <2>1, <2>2, AngleBetween
<1> QED
  BY <1>6, <1>7

\* A sound message is published with a NaN only on account of its origin.
SpoiltInv ==
    (have_last_pose /\ published.yaw = NonFinite /\ raw.yaw # NonFinite) =>
      /\ param.zero_orientation_on_start /\ have_origin
      /\ origin.yaw = NonFinite

\* The quaternion of a NaN, and of no other angle, is one.
LEMMA OrientationOf ==
    /\ Orientation(NonFinite) = NonFinite
    /\ \A a \in Int : Orientation(a) \in Int /\ Orientation(a) # NonFinite
<1> USE PositionAssumption DEF PositionAssumption
<1>1. \A a \in Int : a % Turn \in Int /\ a # NonFinite
  OBVIOUS
<1> QED
  BY <1>1 DEF Orientation

\* When a message that is passed on has a NaN for its yaw.
LEMMA SpoiltYaw ==
    ASSUME TypeOK, NEW msg \in Messages
    PROVE  Orientation(Yaw(msg)) = NonFinite <=>
             \/ msg.yaw = NonFinite
             \/ param.zero_orientation_on_start /\ OriginFor(msg).yaw = NonFinite
<1>1. /\ msg.yaw \in Number /\ OriginFor(msg).yaw \in Number
  BY PositionAssumption
     DEF PositionAssumption, TypeOK, OriginFor, RawPose, Pose
<1>2. CASE \/ msg.yaw = NonFinite
           \/ param.zero_orientation_on_start /\ OriginFor(msg).yaw = NonFinite
  <2>1. Yaw(msg) = NonFinite
    BY <1>2 DEF Yaw, Minus
  <2> QED
    BY <1>2, <2>1, OrientationOf
<1>3. CASE ~ \/ msg.yaw = NonFinite
             \/ param.zero_orientation_on_start /\ OriginFor(msg).yaw = NonFinite
  <2>1. Yaw(msg) \in Int
    BY <1>1, <1>3 DEF Yaw, Minus, Number
  <2> QED
    BY <1>3, <2>1, OrientationOf
<1> QED
  BY <1>2, <1>3

LEMMA SpoiltStep ==
    ASSUME TypeOK, SpoiltInv, NEW msg \in Messages, NEW stamp \in Stamps,
           Receive(msg, stamp)
    PROVE  SpoiltInv'
<1>1. param' = param
  BY DEF Receive, HandleMsg
<1>2. CASE Skip(msg)
  <2>1. UNCHANGED <<have_origin, origin, have_last_pose, published, raw>>
    BY <1>2 DEF Skip, Receive, Observe
  <2> QED
    BY <1>1, <2>1 DEF SpoiltInv
<1>3. CASE Reject(msg, stamp)
  <2>1. /\ UNCHANGED <<have_last_pose, published, raw>>
        /\ have_origin => have_origin' /\ origin' = origin
    BY <1>3 DEF Reject, Receive, Observe, OriginFor
  <2> QED
    BY <1>1, <2>1 DEF SpoiltInv
<1>4. CASE ResetOrigin(msg, stamp)
  <2>1. /\ raw'.yaw = msg.yaw
        /\ published'.yaw = Orientation(IF param.zero_orientation_on_start
                                        THEN 0 ELSE Yaw(msg))
    BY <1>4 DEF ResetOrigin, Publish, Receive, Observe, RawPose
  <2>2. published'.yaw = NonFinite => raw'.yaw = NonFinite
    BY <2>1, OrientationOf, SpoiltYaw
  <2> QED
    BY <2>2 DEF SpoiltInv
<1>5. CASE Forward(msg, stamp)
  <2>1. /\ raw'.yaw = msg.yaw /\ published'.yaw = Orientation(Yaw(msg))
        /\ origin' = OriginFor(msg) /\ have_origin' = (have_origin \/ OriginNeeded)
    BY <1>5 DEF Forward, Publish, Receive, Observe, RawPose
  <2> QED
    BY <1>1, <2>1, SpoiltYaw DEF SpoiltInv, OriginNeeded
<1> QED
  BY <1>2, <1>3, <1>4, <1>5 DEF Receive, HandleMsg

\* A NaN yaw spoils a frame if it begins it (dvl_position_to_odom_bridge.cpp:94-104,
\* 173-176).
LEMMA SpoiltFrames == Spec => []SpoiltInv
<1>1. Init => SpoiltInv
  BY DEF Init, BridgeInit, SpoiltInv
<1>2. IInv /\ SpoiltInv /\ [Next]_vars => SpoiltInv'
  <2> SUFFICES ASSUME IInv, SpoiltInv, [Next]_vars PROVE SpoiltInv'
    OBVIOUS
  <2>1. CASE UNCHANGED vars
    BY <2>1 DEF vars, bridgeVars, SpoiltInv
  <2>2. ASSUME NEW msg \in Messages, NEW stamp \in Stamps, Receive(msg, stamp)
        PROVE  SpoiltInv'
    BY <2>2, SpoiltStep DEF IInv
  <2>3. CASE Restart
    BY <2>3 DEF Restart, Respawn, SpoiltInv
  <2> QED
    BY <2>1, <2>2, <2>3 DEF Next
<1> QED
  BY <1>1, <1>2, Invariance, PTL DEF Spec

\* Of two sound messages of a frame, both orientations are NaNs or none is.
LEMMA SameSoundness ==
    ASSUME IInv, SpoiltInv, have_last_pose,
           NEW msg \in Messages, NEW stamp \in Stamps, Receive(msg, stamp),
           exit' = "PUBLISH", NonFinite \notin {raw.yaw, raw'.yaw}
    PROVE  published.yaw = NonFinite <=> published'.yaw = NonFinite
<1>1. Forward(msg, stamp)
  BY DEF Receive, HandleMsg, Skip, Reject, ResetOrigin
<1>2. raw'.yaw = msg.yaw /\ published'.yaw = Orientation(Yaw(msg))
  BY <1>1 DEF Forward, Publish, Receive, Observe, RawPose
<1>3. param.zero_orientation_on_start => OriginFor(msg) = origin
  BY DEF IInv, FrameInv, OriginNeeded, OriginFor
<1>4. CASE published.yaw = NonFinite
  BY <1>2, <1>3, <1>4, SpoiltYaw DEF IInv, SpoiltInv
<1>5. CASE published.yaw # NonFinite
  <2>1. param.zero_orientation_on_start => origin.yaw # NonFinite
    BY <1>5 DEF IInv, FrameInv
  <2> QED
    BY <1>2, <1>3, <1>5, <2>1, SpoiltYaw DEF IInv
<1> QED
  BY <1>4, <1>5

\* dvl_position_to_odom_bridge.cpp:80-104, 168-176: two odometries with no reset
\* between them are as far apart, and turned as much, as their raw poses; a NaN spoils
\* its own message, or as the origin's all messages of the frame.
THEOREM OneFrame == Spec => OneFrameBetweenResets
<1> DEFINE Same ==
      (exit' = "PUBLISH" /\ have_last_pose) =>
         /\ FramesMatter =>
              published'.position - published.position
                = Scale * (raw'.position - raw.position)
         /\ NonFinite \notin {raw.yaw, raw'.yaw} =>
              IF NonFinite \in {published.yaw, published'.yaw}
              THEN published.yaw = published'.yaw
              ELSE (published'.yaw - published.yaw) % Turn
                     = (raw'.yaw - raw.yaw) % Turn
<1>1. IInv /\ IInv' /\ SpoiltInv /\ [Next]_vars => [Same]_vars
  <2> SUFFICES ASSUME IInv, IInv', SpoiltInv, Next PROVE Same
    OBVIOUS
  <2>1. ASSUME NEW msg \in Messages, NEW stamp \in Stamps, Receive(msg, stamp)
        PROVE  Same
    BY <2>1, SamePosition, SameTurn, SameSoundness
  <2>2. CASE Restart
    BY <2>2 DEF Restart, Respawn
  <2> QED
    BY <2>1, <2>2 DEF Next
<1> QED
  BY <1>1, Invariance, SpoiltFrames, PTL DEF Spec, OneFrameBetweenResets

\* What the twist is made of (dvl_position_to_odom_bridge.cpp:155-163, 220-235).
LEMMA SameVelocity ==
    ASSUME IInv, FramesMatter, NEW msg \in Messages, NEW stamp \in Stamps,
           Receive(msg, stamp), published' # published, published'.twist # NoTwist
    PROVE  /\ exit' = "PUBLISH" /\ have_last_pose
           /\ published'.twist.dt = published'.stamp - published.stamp
           /\ published'.twist.moved = published'.position - published.position
<1>1. Forward(msg, stamp)
  BY DEF Receive, HandleMsg, Skip, Reject, ResetOrigin, Publish
<1>2. /\ exit' = "PUBLISH" /\ published'.stamp = stamp
      /\ published'.position = Position(msg)
      /\ published'.twist = EstimateTwist(stamp, Position(msg))
  BY <1>1 DEF Forward, Publish
<1>3. have_last_pose
  BY <1>2 DEF EstimateTwist, Comparable
<1>4. published'.twist = [moved |-> Position(msg) - published.position,
                          dt |-> stamp - published.stamp]
  BY <1>2 DEF EstimateTwist
<1> QED
  BY <1>2, <1>3, <1>4

\* dvl_position_to_odom_bridge.cpp:118, 155-163, 220-235: a velocity is that of the
\* raw positions, over a time that went forward, and within one frame.
THEOREM TwistOfPath == Spec => TwistMatchesPath
<1> DEFINE Path ==
      (published' # published /\ have_last_pose' /\ FramesMatter
         /\ published'.twist # NoTwist) =>
        /\ exit' = "PUBLISH" /\ have_last_pose
        /\ published'.twist.dt = published'.stamp - published.stamp
        /\ published'.twist.moved = Scale * (raw'.position - raw.position)
<1>1. IInv /\ [Next]_vars => [Path]_vars
  <2> SUFFICES ASSUME IInv, Next PROVE Path
    OBVIOUS
  <2>1. ASSUME NEW msg \in Messages, NEW stamp \in Stamps, Receive(msg, stamp)
        PROVE  Path
    BY <2>1, SamePosition, SameVelocity
  <2>2. CASE Restart
    BY <2>2 DEF Restart, Respawn
  <2> QED
    BY <2>1, <2>2 DEF Next
<1> QED
  BY <1>1, Invariance, PTL DEF Spec, TwistMatchesPath
-----------------------------------------------------------------------------
\* The recorders.  What the publisher of the start frame keeps is the first pose.
StartInv ==
    /\ have_start_frame <=> began # Nothing
    /\ start_frame = began
    /\ StartFrameFixed

\* start_frame_publisher.cpp:75-127: from the first finite pose on, through any odometry,
\* timer and restart, subscribers see that pose and no other.
THEOREM StartFrameStays == RecordsSpec => []StartFrameFixed
<1> USE DEF StartInv, StartFrameFixed
<1>1. RecordsInit => StartInv
  BY DEF RecordsInit, StartFrame!PublisherInit
<1>2. StartInv /\ [RecordsNext]_recordsVars => StartInv'
  <2> SUFFICES ASSUME StartInv, [RecordsNext]_recordsVars PROVE StartInv'
    OBVIOUS
  <2>1. CASE UNCHANGED recordsVars
    BY <2>1 DEF recordsVars, StartFrame!publisherVars, observerVars
  <2>2. ASSUME NEW frame \in Frames, NEW pose \in Poses \cup {NonFinitePose},
               Odometry(frame, pose)
        PROVE  StartInv'
    <3>1. pose # Nothing
      BY RecordsAssumption DEF RecordsAssumption
    <3>2. /\ StartFrame!OdometryCallback(pose)
          /\ began' = IF pose # NonFinitePose /\ began = Nothing THEN pose ELSE began
      BY <2>2 DEF Odometry
    <3>3. CASE StartFrame!IgnoreOdometry(pose)
      BY <3>2, <3>3 DEF StartFrame!IgnoreOdometry, StartFrame!publisherVars
    <3>4. CASE StartFrame!NoteOdometry(pose)
      BY <3>2, <3>4 DEF StartFrame!NoteOdometry, StartFrame!publisherVars
    <3>5. CASE StartFrame!CaptureFromLatest(pose)
      BY <3>1, <3>2, <3>5 DEF StartFrame!CaptureFromLatest, StartFrame!Labelled
    <3> QED
      BY <3>2, <3>3, <3>4, <3>5 DEF StartFrame!OdometryCallback
  <2>3. CASE Republish
    BY <2>3 DEF Republish, StartFrame!RepublishTimerCallback, StartFrame!Labelled, observerVars
  <2>4. CASE RestartStartFrame
    BY <2>4 DEF RestartStartFrame, StartFrame!RestartPublisher
  <2> QED
    BY <2>1, <2>2, <2>3, <2>4 DEF RecordsNext
<1> QED
  BY <1>1, <1>2, PTL DEF RecordsSpec

RecordedPose == Int \cup {NonFinitePose}
End(path) == path[Len(path)]

\* The points of a path that begins finite are finite, and a pose the path left out
\* is near its end.
Spaced(path) ==
    \A i \in 2 .. Len(path) : Distance(path[i - 1], path[i]) >= min_translation

SpacedInv ==
    (has_last_pose /\ first # NonFinitePose /\ min_translation > 0) =>
      /\ poses \in Seq(Int) /\ latest \in Int
      /\ latest = last_pose \/ Distance(last_pose, latest) < min_translation
      /\ Spaced(poses)

\* Without a distance the path ends in the last pose received.
DenseInv ==
    (has_last_pose /\ last_pose # NonFinitePose /\ min_translation = 0) =>
      latest = last_pose

PathInv ==
    /\ min_translation \in Nat /\ has_last_pose \in BOOLEAN
    /\ poses \in Seq(RecordedPose)
    /\ MaxPoses > 0 => Len(poses) <= MaxPoses
    /\ has_last_pose <=> poses # <<>>
    /\ has_last_pose => last_pose = End(poses)
    /\ has_last_pose <=> first # Nothing
    /\ SpacedInv /\ DenseInv

\* What is left of a path when its oldest points are erased: its end, and points next to
\* each other that were so before (localization_debug.cpp:84-87).
LEMMA NewestOf ==
    ASSUME NEW S, NEW path \in Seq(S), path # <<>>
    PROVE  /\ Newest(path) \in Seq(S) /\ Newest(path) # <<>>
           /\ MaxPoses > 0 => Len(Newest(path)) <= MaxPoses
           /\ End(Newest(path)) = End(path)
           /\ \A i \in 2 .. Len(Newest(path)) :
                \E j \in 2 .. Len(path) :
                  Newest(path)[i - 1] = path[j - 1] /\ Newest(path)[i] = path[j]
<1> DEFINE n == Len(path)
<1>1. n \in Nat /\ n >= 1 /\ MaxPoses \in Nat
  <2>1. Len(path) \in Nat \ {0}
    BY EmptySeq
  <2>2. MaxPoses \in Nat
    BY RecorderAssumption DEF RecorderAssumption
  <2> QED
    BY <2>1, <2>2
<1>2. CASE MaxPoses > 0 /\ n > MaxPoses
  <2> DEFINE m == n - MaxPoses + 1
             newest == SubSeq(path, m, n)
  <2>1. Newest(path) = newest
    BY <1>2 DEF Newest
  <2>2. \A i \in 1 .. n : path[i] \in S
    BY ElementOfSeq
  <2> HIDE DEF n
  <2>3. m \in 2 .. n /\ n - m + 1 = MaxPoses /\ MaxPoses >= 1
    BY <1>1, <1>2
  <2> HIDE DEF m
  <2>4. m \in Int /\ n \in Int /\ m <= n /\ \A i \in m .. n : path[i] \in S
    BY <1>1, <2>2, <2>3
  <2>5. /\ newest \in Seq(S) /\ Len(newest) = n - m + 1
        /\ \A i \in 1 .. n - m + 1 : newest[i] = path[m + i - 1]
    BY <2>4, SubSeqProperties
  <2> HIDE DEF newest
  <2>6. newest # <<>>
    <3>1. Len(newest) # 0
      BY <1>1, <2>3, <2>5
    <3> QED
      BY <3>1, EmptySeq
  <2>7. newest[MaxPoses] = path[n]
    <3>1. MaxPoses \in 1 .. n - m + 1 /\ m + MaxPoses - 1 = n
      BY <1>1, <2>3
    <3> QED
      BY <2>5, <3>1
  <2>8. ASSUME NEW i \in 2 .. MaxPoses
        PROVE  \E j \in 2 .. n : newest[i - 1] = path[j - 1] /\ newest[i] = path[j]
    <3> DEFINE j == m + i - 1
    <3>1. /\ j \in 2 .. n /\ m + (i - 1) - 1 = j - 1
          /\ i \in 1 .. n - m + 1 /\ i - 1 \in 1 .. n - m + 1
      BY <1>1, <2>3
    <3>2. newest[i] = path[j] /\ newest[i - 1] = path[m + (i - 1) - 1]
      BY <2>5, <3>1
    <3>3. newest[i - 1] = path[j - 1]
      BY <3>1, <3>2
    <3> QED
      BY <3>1, <3>2, <3>3
  <2>9. Len(newest) = MaxPoses
    BY <2>3, <2>5
  <2>10. End(newest) = End(path)
    BY <2>7, <2>9 DEF End, n
  <2>11. \A i \in 2 .. Len(newest) :
          \E j \in 2 .. Len(path) : newest[i - 1] = path[j - 1] /\ newest[i] = path[j]
    BY <2>8, <2>9 DEF n
  <2>12. MaxPoses > 0 => Len(newest) <= MaxPoses
    BY <1>1, <2>9
  <2> QED
    BY <2>1, <2>5, <2>6, <2>10, <2>11, <2>12
<1>3. CASE ~(MaxPoses > 0 /\ n > MaxPoses)
  <2>1. Newest(path) = path
    BY <1>3 DEF Newest
  <2>2. MaxPoses > 0 => Len(path) <= MaxPoses
    BY <1>1, <1>3
  <2>3. \A i \in 2 .. Len(path) :
          \E j \in 2 .. Len(path) : path[i - 1] = path[j - 1] /\ path[i] = path[j]
    OBVIOUS
  <2> QED
    BY <2>1, <2>2, <2>3
<1> QED
  BY <1>2, <1>3

\* The path with one point more.
LEMMA AppendOf ==
    ASSUME NEW S, NEW path \in Seq(S), NEW pose \in S
    PROVE  /\ Append(path, pose) \in Seq(S) /\ Append(path, pose) # <<>>
           /\ Len(Append(path, pose)) = Len(path) + 1 /\ Len(path) \in Nat
           /\ End(Append(path, pose)) = pose
           /\ \A i \in 1 .. Len(path) : Append(path, pose)[i] = path[i]
<1> DEFINE longer == Append(path, pose)
<1>1. /\ longer \in Seq(S) /\ Len(longer) = Len(path) + 1 /\ Len(path) \in Nat
      /\ longer[Len(path) + 1] = pose
      /\ \A i \in 1 .. Len(path) : longer[i] = path[i]
  OBVIOUS
<1> HIDE DEF longer
<1>2. longer # <<>>
  <2>1. Len(longer) # 0
    BY <1>1
  <2> QED
    BY <2>1, EmptySeq
<1> QED
  BY <1>1, <1>2 DEF End, longer

\* std::hypot of a difference has no direction.
LEMMA Symmetric ==
    \A a, b \in Int : Distance(a, b) \in Nat /\ Distance(a, b) = Distance(b, a)
  BY DEF Distance

\* A path whose points are apart stays so with one more that is far from its end, and
\* without its oldest points.
LEMMA SpacedStep ==
    ASSUME min_translation \in Nat, NEW path \in Seq(Int), Spaced(path), NEW pose \in Int,
           path # <<>> => Distance(pose, End(path)) >= min_translation
    PROVE  Newest(Append(path, pose)) \in Seq(Int) /\ Spaced(Newest(Append(path, pose)))
<1> DEFINE longer == Append(path, pose)
           newest == Newest(longer)
<1>1. /\ longer \in Seq(Int) /\ longer # <<>> /\ End(longer) = pose
      /\ Len(longer) = Len(path) + 1 /\ Len(path) \in Nat
      /\ \A i \in 1 .. Len(path) : longer[i] = path[i]
  BY AppendOf
<1> HIDE DEF longer, newest
<1>2. ASSUME NEW j \in 2 .. Len(longer)
      PROVE  Distance(longer[j - 1], longer[j]) >= min_translation
  <2>1. j - 1 \in 1 .. Len(path) /\ longer[j - 1] = path[j - 1]
    <3>1. j - 1 \in 1 .. Len(path)
      BY <1>1
    <3> QED
      BY <1>1, <3>1
  <2>2. CASE j <= Len(path)
    <3>1. j \in 2 .. Len(path) /\ longer[j] = path[j]
      BY <1>1, <2>2
    <3>2. Distance(path[j - 1], path[j]) >= min_translation
      BY <3>1 DEF Spaced
    <3> QED
      BY <2>1, <3>1, <3>2
  <2>3. CASE j > Len(path)
    <3>1. j = Len(longer) /\ j - 1 = Len(path) /\ Len(path) # 0
      BY <1>1, <2>3
    <3>2. longer[j] = pose
      BY <1>1, <3>1 DEF End
    <3>3. longer[j - 1] = End(path)
      BY <2>1, <3>1 DEF End
    <3>4. path # <<>>
      BY <3>1, EmptySeq
    <3>5. End(path) \in Int
      BY <2>1, <3>1, ElementOfSeq DEF End
    <3>6. Distance(pose, End(path)) >= min_translation
      BY <3>4
    <3>7. Distance(End(path), pose) >= min_translation
      BY <3>5, <3>6, Symmetric
    <3> QED
      BY <3>2, <3>3, <3>7
  <2> QED
    BY <1>1, <2>2, <2>3
<1>3. /\ newest \in Seq(Int)
      /\ \A i \in 2 .. Len(newest) :
           \E j \in 2 .. Len(longer) :
             newest[i - 1] = longer[j - 1] /\ newest[i] = longer[j]
  <2>1. longer \in Seq(Int) /\ longer # <<>>
    BY <1>1
  <2>2. /\ Newest(longer) \in Seq(Int)
        /\ \A i \in 2 .. Len(Newest(longer)) :
             \E j \in 2 .. Len(longer) :
               Newest(longer)[i - 1] = longer[j - 1] /\ Newest(longer)[i] = longer[j]
    BY <2>1, NewestOf
  <2> QED
    BY <2>2 DEF newest
<1>4. Spaced(newest)
  BY <1>2, <1>3 DEF Spaced
<1> QED
  BY <1>3, <1>4 DEF newest, longer

\* One odometry (localization_debug.cpp:41-110).
LEMMA AppendStep ==
    ASSUME PathInv, NEW pose \in RecordedPose, pose # Nothing, ShouldAppend(pose),
           poses' = Newest(Append(poses, pose)), last_pose' = pose, has_last_pose' = TRUE,
           min_translation' = min_translation,
           first' = IF first = Nothing THEN pose ELSE first,
           latest' = IF pose # NonFinitePose THEN pose ELSE latest
    PROVE  PathInv'
<1> DEFINE longer == Append(poses, pose)
<1>1. longer \in Seq(RecordedPose) /\ longer # <<>> /\ End(longer) = pose
  BY AppendOf DEF PathInv
<1> HIDE DEF longer
<1>2. /\ poses' \in Seq(RecordedPose) /\ poses' # <<>> /\ End(poses') = pose
      /\ MaxPoses > 0 => Len(poses') <= MaxPoses
  BY <1>1, NewestOf DEF longer
<1>3. first' # Nothing /\ (has_last_pose => first' = first) /\ (~has_last_pose => first' = pose)
  BY DEF PathInv
<1>4. ASSUME first' # NonFinitePose, min_translation > 0
      PROVE  pose \in Int /\ poses' \in Seq(Int) /\ Spaced(poses)' /\ latest' = pose
  <2>1. pose # NonFinitePose
    BY <1>3, <1>4 DEF ShouldAppend, PathInv
  <2>2. pose \in Int
    BY <2>1 DEF RecordedPose
  <2>3. poses \in Seq(Int) /\ Spaced(poses)
    <3>1. CASE has_last_pose
      BY <1>3, <1>4, <3>1 DEF PathInv, SpacedInv
    <3>2. CASE ~has_last_pose
      <4>1. poses = <<>>
        BY <3>2 DEF PathInv
      <4> QED
        BY <4>1, EmptySeq DEF Spaced
    <3> QED
      BY <3>1, <3>2
  <2>4. poses # <<>> => Distance(pose, End(poses)) >= min_translation
    BY <1>4 DEF ShouldAppend, PathInv
  <2>5. poses' \in Seq(Int) /\ Spaced(poses')
    BY <2>2, <2>3, <2>4, SpacedStep DEF PathInv
  <2>6. Spaced(poses)'
    BY <2>5 DEF Spaced
  <2> QED
    BY <2>1, <2>2, <2>5, <2>6
<1>5. SpacedInv'
  BY <1>4 DEF SpacedInv
<1>6. DenseInv'
  BY DEF DenseInv
<1> QED
  BY <1>2, <1>3, <1>5, <1>6 DEF PathInv, End

LEMMA RepublishStep ==
    ASSUME PathInv, NEW pose \in RecordedPose, ~ShouldAppend(pose), UNCHANGED recorderVars,
           first' = IF first = Nothing THEN pose ELSE first,
           latest' = IF pose # NonFinitePose THEN pose ELSE latest
    PROVE  PathInv'
<1>1. has_last_pose /\ ~(min_translation <= 0) /\ min_translation \in Nat
  BY DEF ShouldAppend, PathInv
<1>2. UNCHANGED <<min_translation, poses, last_pose, has_last_pose, first>>
  BY <1>1 DEF recorderVars, PathInv
<1>3. SpacedInv'
  <2> SUFFICES ASSUME first # NonFinitePose
               PROVE  /\ poses \in Seq(Int) /\ latest' \in Int /\ Spaced(poses)
                      /\ \/ latest' = last_pose
                         \/ Distance(last_pose, latest') < min_translation
    BY <1>1, <1>2 DEF SpacedInv, Spaced
  <2>1. /\ poses \in Seq(Int) /\ latest \in Int /\ Spaced(poses)
        /\ latest = last_pose \/ Distance(last_pose, latest) < min_translation
    BY <1>1 DEF PathInv, SpacedInv
  <2>2. CASE pose = NonFinitePose
    BY <2>1, <2>2
  <2>3. CASE pose # NonFinitePose
    <3>1. pose \in Int /\ latest' = pose
      BY <2>3 DEF RecordedPose
    <3>2. last_pose \in Int
      <4>1. poses # <<>> /\ last_pose = poses[Len(poses)]
        BY <1>1 DEF PathInv, End
      <4>2. Len(poses) \in 1 .. Len(poses)
        BY <2>1, <4>1, EmptySeq
      <4> QED
        BY <2>1, <4>1, <4>2, ElementOfSeq
    <3>3. last_pose # NonFinitePose
      BY <3>2, RecorderAssumption DEF RecorderAssumption
    <3>4. ~(Distance(pose, last_pose) >= min_translation)
      BY <2>3, <3>3 DEF ShouldAppend
    <3>5. Distance(last_pose, pose) < min_translation
      BY <1>1, <3>1, <3>2, <3>4, Symmetric
    <3> QED
      BY <2>1, <3>1, <3>5
  <2> QED
    BY <2>2, <2>3
<1>4. DenseInv'
  BY <1>1, <1>2 DEF DenseInv
<1> QED
  BY <1>2, <1>3, <1>4 DEF PathInv, End

\* localization_debug.cpp:75-110: for every max_poses, min_translation and odometry, the
\* path has room for the newest points, they are apart, and its end is near the latest pose.
THEOREM PathIsKept == RecordsSpec => []PathFollows
<1>1. RecordsInit => PathInv
  <2> SUFFICES ASSUME RecordsInit PROVE PathInv
    OBVIOUS
  <2>1. /\ min_translation \in Nat /\ poses = <<>> /\ has_last_pose = FALSE
        /\ first = Nothing
    BY RecorderAssumption DEF RecorderAssumption, RecordsInit, RecorderInit
  <2>2. <<>> \in Seq(RecordedPose) /\ Len(<<>>) = 0
    BY EmptySeq
  <2>3. MaxPoses > 0 => Len(poses) <= MaxPoses
    <3>1. MaxPoses \in Nat
      BY RecorderAssumption DEF RecorderAssumption
    <3> QED
      BY <2>1, <2>2, <3>1
  <2> QED
    BY <2>1, <2>2, <2>3 DEF PathInv, SpacedInv, DenseInv
<1>2. PathInv /\ [RecordsNext]_recordsVars => PathInv'
  <2> SUFFICES ASSUME PathInv, [RecordsNext]_recordsVars PROVE PathInv'
    OBVIOUS
  <2>1. CASE UNCHANGED <<recorderVars, first, latest>>
    BY <2>1 DEF recorderVars, PathInv, SpacedInv, DenseInv, Spaced, End
  <2>2. ASSUME NEW frame \in Frames, NEW pose \in Poses \cup {NonFinitePose},
               Odometry(frame, pose)
        PROVE  PathInv'
    <3>1. pose \in RecordedPose /\ pose # Nothing
      BY RecordsAssumption DEF RecordsAssumption, RecordedPose
    <3>2. /\ OdomCallback(frame, pose)
          /\ first' = IF frame = PathFrame /\ first = Nothing THEN pose ELSE first
          /\ latest' = IF frame = PathFrame /\ pose # NonFinitePose THEN pose ELSE latest
      BY <2>2 DEF Odometry
    <3>3. CASE SkipOdom(frame)
      <4>1. UNCHANGED <<recorderVars, first, latest>>
        BY <3>2, <3>3 DEF SkipOdom
      <4> QED
        BY <2>1, <4>1
    <3>4. CASE AppendPose(frame, pose)
      BY <3>1, <3>2, <3>4, AppendStep DEF AppendPose
    <3>5. CASE RepublishPath(frame, pose)
      BY <3>1, <3>2, <3>5, RepublishStep DEF RepublishPath
    <3> QED
      BY <3>2, <3>3, <3>4, <3>5 DEF OdomCallback
  <2>3. Republish \/ RestartStartFrame \/ UNCHANGED recordsVars
          => UNCHANGED <<recorderVars, first, latest>>
    BY DEF Republish, RestartStartFrame, recordsVars, observerVars
  <2> QED
    BY <2>1, <2>2, <2>3 DEF RecordsNext
<1>3. PathInv => PathFollows
  <2> SUFFICES ASSUME PathInv PROVE PathFollows
    OBVIOUS
  <2>1. MaxPoses > 0 => Len(poses) <= MaxPoses
    BY DEF PathInv
  <2>2. ASSUME poses # <<>>, first # NonFinitePose, End(poses) # NonFinitePose
        PROVE  /\ End(poses) = latest \/ Distance(End(poses), latest) < min_translation
               /\ min_translation > 0 => Spaced(poses)
    <3>1. has_last_pose /\ last_pose = End(poses) /\ min_translation \in Nat
      BY <2>2 DEF PathInv
    <3>2. CASE min_translation > 0
      BY <2>2, <3>1, <3>2 DEF PathInv, SpacedInv
    <3>3. CASE min_translation = 0
      BY <2>2, <3>1, <3>3 DEF PathInv, DenseInv
    <3> QED
      BY <3>1, <3>2, <3>3
  <2> QED
    BY <2>1, <2>2 DEF PathFollows, End, Spaced
<1> QED
  BY <1>1, <1>2, <1>3, PTL DEF RecordsSpec
=============================================================================
