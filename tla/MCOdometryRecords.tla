-------------------------- MODULE MCOdometryRecords --------------------------
(***************************************************************************)
(* Poses nearer to each other than min_translation, just as far and        *)
(* farther; a path of three points, so that several are erased.            *)
(***************************************************************************)
EXTENDS OdometryRecords

MCPoses == {0, 1, 2, 5}
MCMinTranslations == {0, 2}
=============================================================================
