-------------------------- MODULE DepthSampleGate --------------------------
(***************************************************************************)
(* auv::DepthSampleGate (include/auv/depth_sample_gate.hpp): a filter that *)
(* passes a depth sample only if the vehicle could have moved there since  *)
(* the last sample it passed.  After a rejection it withholds samples      *)
(* until ReacquireGoodSamples of them in a row are plausible.              *)
(*                                                                         *)
(* update() is one action per way out of it.  `result` is what the last    *)
(* call returned.                                                          *)
(***************************************************************************)
EXTENDS Arith

CONSTANTS
    MaxVerticalSpeed,      \* constructor parameters, after their clamps
    JumpTolerance,
    MaxRateDt,
    ReacquireGoodSamples,
    NonFinite              \* a NaN or infinite depth

ASSUME GateAssumption ==
    /\ MaxVerticalSpeed \in Nat /\ JumpTolerance \in Nat
    /\ MaxRateDt \in Nat \ {0} /\ ReacquireGoodSamples \in Nat \ {0}
    /\ NonFinite \notin Int

VARIABLES
    have_accepted_sample, recovering, have_recovery_candidate,
    consecutive_good_samples,
    last_accepted_depth, recovery_candidate_depth,
    last_accepted_time, last_observed_time,
    result

recoveryVars == <<recovering, have_recovery_candidate,
                  consecutive_good_samples, recovery_candidate_depth>>
acceptedVars == <<have_accepted_sample, last_accepted_depth, last_accepted_time>>
gateVars == <<recoveryVars, acceptedVars, last_observed_time, result>>

Decisions == {"ACCEPT", "REJECT", "HOLD_FOR_RECOVERY"}

GateInit ==
    /\ have_accepted_sample = FALSE /\ recovering = FALSE
    /\ have_recovery_candidate = FALSE /\ consecutive_good_samples = 0
    /\ last_accepted_depth = 0 /\ recovery_candidate_depth = 0
    /\ last_accepted_time = 0 /\ last_observed_time = 0
    /\ result = [decision |-> "REJECT", reacquired |-> FALSE]
-----------------------------------------------------------------------------
Return(decision, reacquired) ==
    result' = [decision |-> decision, reacquired |-> reacquired]

AllowedDelta(dt) == RateBound(JumpTolerance, MaxVerticalSpeed, MaxRateDt, dt)

AcceptSample(depth, time) ==
    /\ have_accepted_sample' = TRUE
    /\ last_accepted_depth' = depth
    /\ last_accepted_time' = time
    /\ last_observed_time' = time

\* Mutants of EnterRecovery: the samples counted so far survive a rejection;
\* the candidate does.
EnterRecoveryKeepingCount ==
    /\ recovering' = IF have_accepted_sample THEN TRUE ELSE recovering
    /\ have_recovery_candidate' = FALSE
    /\ UNCHANGED <<consecutive_good_samples, recovery_candidate_depth>>

EnterRecoveryKeepingCandidate ==
    /\ recovering' = IF have_accepted_sample THEN TRUE ELSE recovering
    /\ consecutive_good_samples' = 0
    /\ UNCHANGED <<have_recovery_candidate, recovery_candidate_depth>>

EnterRecovery ==
    /\ recovering' = IF have_accepted_sample THEN TRUE ELSE recovering
    /\ consecutive_good_samples' = 0
    /\ have_recovery_candidate' = FALSE
    /\ UNCHANGED recovery_candidate_depth

\* Arguments update() can judge at all, and those it judges against the past.
Usable(depth, time) == depth # NonFinite /\ time > 0
Fresh(depth, time) ==
    Usable(depth, time) /\ have_accepted_sample /\ time > last_observed_time

NearAccepted(depth, time) ==
    /\ time > last_accepted_time
    /\ Distance(depth, last_accepted_depth)
         <= AllowedDelta(time - last_accepted_time)

NearCandidate(depth, time) ==
    (recovering /\ have_recovery_candidate) =>
        Distance(depth, recovery_candidate_depth)
          <= AllowedDelta(time - last_observed_time)

Plausible(depth, time) == NearAccepted(depth, time) /\ NearCandidate(depth, time)
-----------------------------------------------------------------------------
RejectUnusable(depth, time) ==
    /\ ~Usable(depth, time)
    /\ EnterRecovery
    /\ Return("REJECT", FALSE)
    /\ UNCHANGED <<acceptedVars, last_observed_time>>

AcceptFirst(depth, time) ==
    /\ Usable(depth, time) /\ ~have_accepted_sample
    /\ AcceptSample(depth, time)
    /\ Return("ACCEPT", FALSE)
    /\ UNCHANGED recoveryVars

RejectTime(depth, time) ==
    /\ Usable(depth, time) /\ have_accepted_sample
    /\ time <= last_observed_time
    /\ EnterRecovery
    /\ Return("REJECT", FALSE)
    /\ UNCHANGED <<acceptedVars, last_observed_time>>

RejectJump(depth, time) ==
    /\ Fresh(depth, time) /\ ~Plausible(depth, time)
    /\ EnterRecovery
    /\ last_observed_time' = time
    /\ Return("REJECT", FALSE)
    /\ UNCHANGED acceptedVars

\* Mutants of HoldForRecovery: it never ends; it moves the accepted reference.
HoldForever(depth, time) ==
    /\ Fresh(depth, time) /\ Plausible(depth, time) /\ recovering
    /\ consecutive_good_samples' = consecutive_good_samples + 1
    /\ recovery_candidate_depth' = depth
    /\ have_recovery_candidate' = TRUE
    /\ last_observed_time' = time
    /\ Return("HOLD_FOR_RECOVERY", FALSE)
    /\ UNCHANGED <<acceptedVars, recovering>>

HoldMovingReference(depth, time) ==
    /\ Fresh(depth, time) /\ Plausible(depth, time) /\ recovering
    /\ consecutive_good_samples + 1 < ReacquireGoodSamples
    /\ consecutive_good_samples' = consecutive_good_samples + 1
    /\ recovery_candidate_depth' = depth
    /\ have_recovery_candidate' = TRUE
    /\ AcceptSample(depth, time)
    /\ Return("HOLD_FOR_RECOVERY", FALSE)
    /\ UNCHANGED recovering

HoldForRecovery(depth, time) ==
    /\ Fresh(depth, time) /\ Plausible(depth, time) /\ recovering
    /\ consecutive_good_samples + 1 < ReacquireGoodSamples
    /\ consecutive_good_samples' = consecutive_good_samples + 1
    /\ recovery_candidate_depth' = depth
    /\ have_recovery_candidate' = TRUE
    /\ last_observed_time' = time
    /\ Return("HOLD_FOR_RECOVERY", FALSE)
    /\ UNCHANGED <<acceptedVars, recovering>>

Reacquire(depth, time) ==
    /\ Fresh(depth, time) /\ Plausible(depth, time) /\ recovering
    /\ consecutive_good_samples + 1 >= ReacquireGoodSamples
    /\ recovering' = FALSE
    /\ consecutive_good_samples' = 0
    /\ have_recovery_candidate' = FALSE
    /\ recovery_candidate_depth' = depth
    /\ AcceptSample(depth, time)
    /\ Return("ACCEPT", TRUE)

AcceptPlausible(depth, time) ==
    /\ Fresh(depth, time) /\ Plausible(depth, time) /\ ~recovering
    /\ AcceptSample(depth, time)
    /\ Return("ACCEPT", FALSE)
    /\ UNCHANGED recoveryVars

\* The calls that pass the sample on, and those that do not.
Withhold(depth, time) ==
    \/ RejectUnusable(depth, time)
    \/ RejectTime(depth, time)
    \/ RejectJump(depth, time)
    \/ HoldForRecovery(depth, time)

Update(depth, time) ==
    \/ Withhold(depth, time)
    \/ AcceptFirst(depth, time)
    \/ AcceptPlausible(depth, time)
    \/ Reacquire(depth, time)

GateTypeOK ==
    /\ have_accepted_sample \in BOOLEAN /\ recovering \in BOOLEAN
    /\ have_recovery_candidate \in BOOLEAN
    /\ consecutive_good_samples \in 0 .. ReacquireGoodSamples - 1
    /\ last_accepted_depth \in Int /\ recovery_candidate_depth \in Int
    /\ last_accepted_time \in Nat /\ last_observed_time \in Nat
    /\ result \in [decision : Decisions, reacquired : BOOLEAN]
=============================================================================
