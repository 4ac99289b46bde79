----------------------- MODULE CovarianceRecoveryRamp -----------------------
(***************************************************************************)
(* auv::CovarianceRecoveryRamp (include/auv/covariance_recovery_ramp.hpp): *)
(* a variance floor that starts high and decays with every published       *)
(* sample.  Stage 0 is inactive.  The decay is a ratio, rounded down.      *)
(***************************************************************************)
EXTENDS Arith

CONSTANTS InitialVariance, DecayNum, DecayDen, SampleCount

ASSUME RampAssumption ==
    /\ InitialVariance \in Nat /\ SampleCount \in Nat
    /\ DecayNum \in Nat /\ DecayDen \in Nat \ {0} /\ DecayNum <= DecayDen

Idle == [stage |-> 0, current_variance |-> 0]

Triggered == [stage |-> Lesser(SampleCount, 1), current_variance |-> InitialVariance]

Active(ramp) == ramp.stage # 0

Applied(ramp, variance) ==
    IF Active(ramp) THEN Greater(variance, ramp.current_variance) ELSE variance

Decay(variance) == (variance * DecayNum) \div DecayDen

\* Mutant of Advanced: the last stage has no end.
AdvancedPastEnd(ramp) ==
    [stage |-> ramp.stage + 1, current_variance |-> Decay(ramp.current_variance)]

Advanced(ramp) ==
    IF ramp.stage >= SampleCount
    THEN [ramp EXCEPT !.stage = 0]
    ELSE [stage |-> ramp.stage + 1, current_variance |-> Decay(ramp.current_variance)]

AdvancedIfActive(ramp) == IF Active(ramp) THEN Advanced(ramp) ELSE ramp
=============================================================================
