-------------------------- MODULE MCBatteryEvidence --------------------------
(***************************************************************************)
(* Two ticks between bring-ups instead of five, and two errors before one  *)
(* instead of ten: enough for either thread to be refused because of the   *)
(* other, and for the counter to be reset on its way.                      *)
(***************************************************************************)
EXTENDS BatteryEvidence
=============================================================================
