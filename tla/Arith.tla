------------------------------- MODULE Arith -------------------------------
(***************************************************************************)
(* The few numeric helpers the sensor filters share.  Measurements and     *)
(* times are integers (a unit stands for the smallest step that matters).  *)
(***************************************************************************)
EXTENDS Integers

\* std::abs(a - b)
Distance(a, b) == IF a >= b THEN a - b ELSE b - a

\* std::min and std::max of two numbers
Lesser(a, b)  == IF a <= b THEN a ELSE b
Greater(a, b) == IF a >= b THEN a ELSE b

\* What a rate gate allows after dt: a tolerance plus a slope, the slope
\* counted for at most maxDt.
RateBound(tolerance, slope, maxDt, dt) == tolerance + slope * Lesser(dt, maxDt)
=============================================================================
