--------------------------- MODULE MCDvlEvidence ---------------------------
(***************************************************************************)
(* One good message for each of three velocities (two of them within the   *)
(* rate bound of each other in one time unit, the third within it of one   *)
(* of them in two), and one message for every check that refuses one.      *)
(***************************************************************************)
EXTENDS DvlEvidence

Good == [velocity_valid |-> TRUE, velocity |-> <<1, 0, 0>>, altitude |-> 2,
         fom |-> 1, valid_beams |-> 4, covariance |-> <<1, 1, 1>>]

MCMessages == {
    Good,
    [Good EXCEPT !.velocity = <<1, 1, 1>>, !.covariance = <<>>],
    [Good EXCEPT !.velocity = <<-2, 0, 0>>, !.covariance = <<0, 2, 1>>],
    [Good EXCEPT !.velocity = <<3, 3, 3>>],
    [Good EXCEPT !.velocity_valid = FALSE],
    [Good EXCEPT !.velocity = NonFinite],
    [Good EXCEPT !.altitude = 0],
    [Good EXCEPT !.fom = NonFinite],
    [Good EXCEPT !.valid_beams = 3],
    [Good EXCEPT !.covariance = <<1, 9, 1>>] }

MCParams == {[reacquire_good_samples |-> 2, reacquire_duration |-> 0],
             [reacquire_good_samples |-> 1, reacquire_duration |-> 0],
             [reacquire_good_samples |-> 1, reacquire_duration |-> 1]}
=============================================================================
