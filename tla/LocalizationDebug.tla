-------------------------- MODULE LocalizationDebug --------------------------
(***************************************************************************)
(* The node localization_debug_node: records the filter's odometry as a    *)
(* path for display, with points at least min_translation apart and no     *)
(* more than max_poses of them.  The whole path is published with every    *)
(* message, so that the path below is what a viewer sees.                  *)
(***************************************************************************)
EXTENDS Arith, Sequences

CONSTANTS
    Frames, PathFrame,  \* header.frame_id, "" included; path_frame
    MaxPoses,           \* 0: no limit
    MinTranslations,    \* values of min_translation
    NonFinitePose       \* a pose with a NaN or an infinity

ASSUME RecorderAssumption ==
    /\ PathFrame \in Frames \ {""}
    /\ MaxPoses \in Nat /\ MinTranslations \subseteq Nat
    /\ NonFinitePose \notin Int

VARIABLES min_translation, poses, last_pose, has_last_pose

recorderVars == <<min_translation, poses, last_pose, has_last_pose>>

RecorderInit == /\ min_translation \in MinTranslations
                /\ poses = <<>> /\ last_pose = 0 /\ has_last_pose = FALSE
-----------------------------------------------------------------------------
\* A comparison with NaN is false.
ShouldAppend(pose) ==
    \/ ~has_last_pose
    \/ min_translation <= 0
    \/ /\ NonFinitePose \notin {pose, last_pose}
       /\ Distance(pose, last_pose) >= min_translation

\* Mutant of Newest: the newest points are erased.
Oldest(path) ==
    IF MaxPoses > 0 /\ Len(path) > MaxPoses THEN SubSeq(path, 1, MaxPoses) ELSE path

\* The path without the oldest points beyond MaxPoses.
Newest(path) ==
    IF MaxPoses > 0 /\ Len(path) > MaxPoses
    THEN SubSeq(path, Len(path) - MaxPoses + 1, Len(path)) ELSE path

SkipOdom(frame) == frame # PathFrame /\ UNCHANGED recorderVars

AppendPose(frame, pose) ==
    /\ frame = PathFrame /\ ShouldAppend(pose)
    /\ poses' = Newest(Append(poses, pose))
    /\ last_pose' = pose /\ has_last_pose' = TRUE
    /\ UNCHANGED min_translation

RepublishPath(frame, pose) ==
    frame = PathFrame /\ ~ShouldAppend(pose) /\ UNCHANGED recorderVars

OdomCallback(frame, pose) ==
    SkipOdom(frame) \/ AppendPose(frame, pose) \/ RepublishPath(frame, pose)
=============================================================================
