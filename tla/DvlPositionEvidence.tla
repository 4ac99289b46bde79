------------------------- MODULE DvlPositionEvidence -------------------------
(***************************************************************************)
(* The DVL position bridge with an arbitrary driver, restarts, and an      *)
(* observer who compares what is published with the raw poses, without     *)
(* knowing the origin.                                                     *)
(***************************************************************************)
EXTENDS DvlPositionToOdomBridge

VARIABLES
    raw,      \* the raw pose of the last message published
    zero,     \* the raw position of the message the present frame began with
    jumped    \* whether the last message jumped, by the raw positions

vars == <<bridgeVars, raw, zero, jumped>>

\* Far from where the frame began, or from the message published last.
Jumps(msg, stamp) ==
    LET from == IF ~param.zero_position_on_start THEN 0
                ELSE IF have_last_pose THEN zero ELSE msg.position
        moved(reference) == Distance(Scale * msg.position, Scale * reference)
    IN  \/ param.max_position_norm > 0 /\ moved(from) > param.max_position_norm
        \/ /\ param.max_position_speed > 0
           /\ have_last_pose /\ (stamp - published.stamp) \in 1 .. MaxTwistDt
           /\ moved(raw.position)
                > param.max_position_speed * (stamp - published.stamp)

Observe(msg, stamp) ==
    /\ raw' = IF exit' \in {"PUBLISH", "RESET"} THEN RawPose(msg) ELSE raw
    /\ zero' = IF exit' = "RESET" \/ (exit' = "PUBLISH" /\ ~have_last_pose)
               THEN msg.position ELSE zero
    /\ jumped' = (Usable(msg) /\ Jumps(msg, stamp))

Init == BridgeInit /\ raw = NoPose /\ zero = 0 /\ jumped = FALSE

Receive(msg, stamp) == HandleMsg(msg, stamp) /\ Observe(msg, stamp)
Restart == Respawn /\ raw' = NoPose /\ zero' = 0 /\ jumped' = FALSE

Next == \/ \E msg \in Messages, stamp \in Stamps : Receive(msg, stamp)
        \/ Restart

Spec == Init /\ [][Next]_vars
-----------------------------------------------------------------------------
\* Well-typed state; what is published is an angle within one turn.
TypeOK ==
    /\ param \in Params /\ have_origin \in BOOLEAN /\ have_last_pose \in BOOLEAN
    /\ origin \in Pose /\ raw \in Pose /\ zero \in Int
    /\ jumped \in BOOLEAN
    /\ published \in [stamp : Int, position : Int,
                      yaw : 0 .. Turn - 1 \cup {NonFinite},
                      twist : [moved : Int, dt : 1 .. MaxTwistDt]]
    /\ exit \in {"NONE", "SKIP", "REJECT", "RESET", "PUBLISH"}

\* A reset sets the origin but publishes raw positions afterwards, unless
\* zero_position_on_start is on.
FramesMatter == param.zero_position_on_start \/ ~param.reset_origin_on_jump

\* dvl_position_to_odom_bridge.cpp:80-104, 168-176: two odometries published
\* one after the other with no reset between them are as far apart as their
\* raw poses, in position and in orientation: every message of a frame is
\* seen from one origin, whatever was skipped or rejected in between.  Only the
\* position of a message is checked; a NaN among the yaws spoils the
\* orientation of that message, and of the whole frame if it is the origin's.
OneFrameBetweenResets ==
    [][(exit' = "PUBLISH" /\ have_last_pose) =>
         /\ FramesMatter =>
              published'.position - published.position
                = Scale * (raw'.position - raw.position)
         /\ NonFinite \notin {raw.yaw, raw'.yaw} =>
              IF NonFinite \in {published.yaw, published'.yaw}
              THEN published.yaw = published'.yaw
              ELSE (published'.yaw - published.yaw) % Turn
                     = (raw'.yaw - raw.yaw) % Turn]_vars

\* dvl_position_to_odom_bridge.cpp:106-119, 190-218: a position is refused, or
\* restarts the frame, exactly if the sensor's own positions jump from the one
\* published last, or if it lies beyond the norm as seen from the place where
\* the frame began.  A restart must not make the next message a jump again.
JumpsExactly ==
    (exit \in {"REJECT", "RESET", "PUBLISH"} /\ FramesMatter) =>
      (exit # "PUBLISH" <=> jumped)

\* dvl_position_to_odom_bridge.cpp:118, 155-163, 220-235: a velocity is what the raw
\* positions of the last two messages published give, over a time that went
\* forward and not too far; it never leads from one frame into the next.
TwistMatchesPath ==
    [][(published' # published /\ have_last_pose' /\ FramesMatter
          /\ published'.twist # NoTwist) =>
         /\ exit' = "PUBLISH" /\ have_last_pose
         /\ published'.twist.dt = published'.stamp - published.stamp
         /\ published'.twist.moved = Scale * (raw'.position - raw.position)]_vars
=============================================================================
