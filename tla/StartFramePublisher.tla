------------------------- MODULE StartFramePublisher -------------------------
(***************************************************************************)
(* The component start_frame_publisher: keeps the first odometry with a    *)
(* finite pose and publishes it, latched and on a timer, as the frame the  *)
(* vehicle started in.  Stamps are the clock's at each publication and     *)
(* decide nothing.                                                         *)
(***************************************************************************)
CONSTANTS
    FrameId,            \* the frame the pose is published in
    NonFinite,          \* a pose with a NaN or an infinity
    Nothing             \* nothing published

VARIABLES
    have_start_frame, start_frame,
    latched             \* the message a late subscriber gets

publisherVars == <<have_start_frame, start_frame, latched>>

PublisherInit == have_start_frame = FALSE /\ start_frame = Nothing /\ latched = Nothing
-----------------------------------------------------------------------------
Labelled(pose) == [frame |-> FrameId, pose |-> pose]

IgnoreOdometry(pose) == pose = NonFinite /\ UNCHANGED publisherVars

\* Only latest_odom_ changes, which nothing reads any more.
NoteOdometry(pose) ==
    pose # NonFinite /\ have_start_frame /\ UNCHANGED publisherVars

CaptureFromLatest(pose) ==
    /\ pose # NonFinite /\ ~have_start_frame
    /\ have_start_frame' = TRUE
    /\ start_frame' = pose
    /\ latched' = Labelled(pose)

\* Mutant of OdometryCallback: each odometry becomes the start.
OdometryCallbackEach(pose) ==
    /\ pose # NonFinite
    /\ have_start_frame' = TRUE /\ start_frame' = pose /\ latched' = Labelled(pose)

OdometryCallback(pose) ==
    IgnoreOdometry(pose) \/ NoteOdometry(pose) \/ CaptureFromLatest(pose)

RepublishTimerCallback ==
    /\ latched' = IF have_start_frame THEN Labelled(start_frame) ELSE latched
    /\ UNCHANGED <<have_start_frame, start_frame>>

\* "restart node to refresh": the latched message goes with the process.
RestartPublisher == have_start_frame' = FALSE /\ start_frame' = Nothing /\ latched' = Nothing
=============================================================================
