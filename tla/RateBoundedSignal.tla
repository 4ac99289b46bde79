------------------------- MODULE RateBoundedSignal -------------------------
(***************************************************************************)
(* What a consumer of a gated scalar sensor may rely on, whatever the      *)
(* sensor delivered and whatever the gate did in between: the stream it    *)
(* receives moves strictly forward in time, and two consecutive values     *)
(* differ by no more than the configured tolerance plus the configured     *)
(* rate over at most MaxDt.                                                *)
(***************************************************************************)
EXTENDS Arith

CONSTANTS Values, Times, Tolerance, Rate, MaxDt

VARIABLE signal   \* the last value received and its time; time 0: none yet

Nothing == [value |-> 0, time |-> 0]

Follows(value, time) ==
    \/ signal = Nothing
    \/ /\ time > signal.time
       /\ Distance(value, signal.value)
            <= RateBound(Tolerance, Rate, MaxDt, time - signal.time)

Receive(value, time) ==
    /\ time > 0
    /\ Follows(value, time)
    /\ signal' = [value |-> value, time |-> time]

\* The producer is restarted and owes nothing to what it sent before.
Restart == signal' = Nothing

Init == signal = Nothing
Next == (\E value \in Values, time \in Times : Receive(value, time)) \/ Restart
Spec == Init /\ [][Next]_signal
=============================================================================
