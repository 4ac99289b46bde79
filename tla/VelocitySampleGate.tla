------------------------- MODULE VelocitySampleGate -------------------------
(***************************************************************************)
(* auv::VelocitySampleGate (include/auv/velocity_sample_gate.hpp).  The    *)
(* gate's state is one value, the last sample it accepted; update() and    *)
(* reset() are functions of it.  Norms are compared by their squares.      *)
(***************************************************************************)
EXTENDS Arith

CONSTANTS
    MaxVelocity,       \* 0 switches the speed check off
    MaxAcceleration,   \* 0 switches the rate check off
    JumpTolerance,
    MaxRateDt,
    NonFinite          \* a vector or a number that is not finite

ASSUME GateAssumption ==
    /\ MaxVelocity \in Nat /\ MaxAcceleration \in Nat /\ JumpTolerance \in Nat
    /\ MaxRateDt \in Nat \ {0} /\ NonFinite \notin Int

Vectors == Int \X Int \X Int

NormSquared(v) == v[1] * v[1] + v[2] * v[2] + v[3] * v[3]
Difference(v, w) == <<v[1] - w[1], v[2] - w[2], v[3] - w[3]>>

\* have_accepted_sample_ is time > 0: a sample is accepted only with time > 0.
NoSample == [velocity |-> <<0, 0, 0>>, time |-> 0]

TooFast(velocity) ==
    MaxVelocity > 0 /\ NormSquared(velocity) > MaxVelocity * MaxVelocity

AllowedDelta(dt) == RateBound(JumpTolerance, MaxAcceleration, MaxRateDt, dt)

WithinRate(accepted, velocity, time) ==
    \/ MaxAcceleration = 0
    \/ NormSquared(Difference(velocity, accepted.velocity))
         <= AllowedDelta(time - accepted.time) * AllowedDelta(time - accepted.time)

\* Mutant of Decision: a sample with the time of the last one passes.
DecisionWithoutOrder(accepted, velocity, time) ==
    IF velocity = NonFinite            THEN "REJECT_NONFINITE"
    ELSE IF TooFast(velocity)          THEN "REJECT_SPEED"
    ELSE IF time < accepted.time       THEN "REJECT_TIME"
    ELSE IF accepted = NoSample        THEN "ACCEPT"
    ELSE IF WithinRate(accepted, velocity, time) THEN "ACCEPT"
    ELSE "REJECT_RATE"

\* The checks of update() in their order.  Against NoSample the time check is
\* sample_time <= 0, and the rate is not checked.
Decision(accepted, velocity, time) ==
    IF velocity = NonFinite            THEN "REJECT_NONFINITE"
    ELSE IF TooFast(velocity)          THEN "REJECT_SPEED"
    ELSE IF time <= accepted.time      THEN "REJECT_TIME"
    ELSE IF accepted = NoSample        THEN "ACCEPT"
    ELSE IF WithinRate(accepted, velocity, time) THEN "ACCEPT"
    ELSE "REJECT_RATE"
=============================================================================
