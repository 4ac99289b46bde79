--------------------------- MODULE OdometryRecords ---------------------------
(***************************************************************************)
(* The two nodes that keep a record of the filter's odometry, path and     *)
(* start frame, on one stream of it.  The start frame's node may be        *)
(* restarted.                                                              *)
(***************************************************************************)
EXTENDS LocalizationDebug

CONSTANTS Poses, Nothing

ASSUME RecordsAssumption ==
    Poses \subseteq Int /\ Nothing \notin Int \cup {NonFinitePose}

VARIABLES
    have_start_frame, start_frame, latched,
    first,    \* the first pose the recorder received in its frame, or Nothing
    latest,   \* the latest finite one, or Nothing
    began     \* the first finite pose since the other node started, or Nothing

StartFrame == INSTANCE StartFramePublisher WITH
    FrameId <- PathFrame, NonFinite <- NonFinitePose

observerVars == <<first, latest, began>>
recordsVars == <<recorderVars, StartFrame!publisherVars, observerVars>>

RecordsInit ==
    /\ RecorderInit /\ StartFrame!PublisherInit
    /\ first = Nothing /\ latest = Nothing /\ began = Nothing

Odometry(frame, pose) ==
    /\ OdomCallback(frame, pose)
    /\ StartFrame!OdometryCallback(pose)
    /\ first' = IF frame = PathFrame /\ first = Nothing THEN pose ELSE first
    /\ latest' = IF frame = PathFrame /\ pose # NonFinitePose THEN pose ELSE latest
    /\ began' = IF pose # NonFinitePose /\ began = Nothing THEN pose ELSE began

Republish == StartFrame!RepublishTimerCallback /\ UNCHANGED <<recorderVars, observerVars>>

RestartStartFrame ==
    /\ StartFrame!RestartPublisher /\ began' = Nothing
    /\ UNCHANGED <<recorderVars, first, latest>>

RecordsNext ==
    \/ \E frame \in Frames, pose \in Poses \cup {NonFinitePose} : Odometry(frame, pose)
    \/ Republish \/ RestartStartFrame

RecordsSpec == RecordsInit /\ [][RecordsNext]_recordsVars
-----------------------------------------------------------------------------
\* localization_debug.cpp:75-106: the path has room for the newest max_poses
\* points, they are min_translation apart, and its end is never farther than
\* that from the latest pose: the front is erased, not the end, and a pose
\* left out for being near, or for a NaN, does not move the reference.  Only a
\* path that begins with a NaN is excepted, to which nothing is far.
PathFollows ==
    LET end == poses[Len(poses)]
    IN  /\ MaxPoses > 0 => Len(poses) <= MaxPoses
        /\ (poses # <<>> /\ NonFinitePose \notin {first, end}) =>
             /\ end = latest \/ Distance(end, latest) < min_translation
             /\ min_translation > 0 =>
                  \A i \in 2 .. Len(poses) :
                    Distance(poses[i - 1], poses[i]) >= min_translation

\* start_frame_publisher.cpp:75-127: what subscribers see, early, late or by
\* the timer, is the first finite pose since this process started, and they see
\* it from then on.
StartFrameFixed ==
    latched = IF began = Nothing THEN Nothing ELSE [frame |-> PathFrame, pose |-> began]
=============================================================================
