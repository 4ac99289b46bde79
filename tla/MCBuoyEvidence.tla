--------------------------- MODULE MCBuoyEvidence ---------------------------
(***************************************************************************)
(* Two places out of each other's radius, and a target that is a NaN; the  *)
(* pilot's MANUAL besides the two modes of the controller.                 *)
(***************************************************************************)
EXTENDS BuoyEvidence

Lost == [h |-> NonFinite, v |-> 0]

MCPoints == {[h |-> 0, v |-> 0], [h |-> 2, v |-> 0]}
MCTargets == MCPoints \cup {Lost}
=============================================================================
