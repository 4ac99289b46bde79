-------------------------- MODULE DvlToTwistBridge --------------------------
(***************************************************************************)
(* The node dvl_to_twist_bridge (src/dvl_to_twist_bridge.cpp): passes the  *)
(* Doppler log's velocity on to the state estimator when its quality, its  *)
(* physics (the velocity gate) and its covariance are acceptable.  After   *)
(* any loss it withholds good samples until enough of them have come, and  *)
(* then publishes them with a covariance that recovers step by step.       *)
(*                                                                         *)
(* handle_msg is one action per way out of it; `exit` names the way.  The  *)
(* node is launched with respawn=True, so a crash starts it afresh.        *)
(***************************************************************************)
EXTENDS VelocitySampleGate, CovarianceRecoveryRamp

CONSTANTS
    Params,            \* [reacquire_good_samples, reacquire_duration] settings
    Messages,          \* the messages the driver may send, without their stamp
    RequireValidVelocity, MinAltitude, MaxFom, MinValidBeams,
    UseDvlCovariance, CovarianceScale, DefaultVariance,
    MinLinearVariance, MaxLinearVariance,
    RecoveryTriggerGap,
    MaxClock,          \* bound: how far the node's clock runs
    MaxSkew,           \* bound: how far a stamp may run ahead of that clock
    MaxRespawns        \* bound: how often the process is restarted

Quantity == Int \cup {NonFinite}
MessageType ==
    [velocity_valid : BOOLEAN, velocity : Vectors \cup {NonFinite},
     altitude : Quantity, fom : Quantity, valid_beams : Nat,
     covariance : {<<>>} \cup (Quantity \X Quantity \X Quantity)]

ASSUME BridgeAssumption ==
    /\ Params \subseteq [reacquire_good_samples : Int, reacquire_duration : Int]
    /\ Messages \subseteq MessageType
    /\ RequireValidVelocity \in BOOLEAN /\ UseDvlCovariance \in BOOLEAN
    /\ MinAltitude \in Int /\ MaxFom \in Int /\ MinValidBeams \in Int
    /\ CovarianceScale \in Nat /\ DefaultVariance \in Nat
    /\ MinLinearVariance \in Int /\ MaxLinearVariance \in Int
    /\ RecoveryTriggerGap \in Int
    /\ MaxClock \in Nat \ {0} /\ MaxSkew \in Nat /\ MaxRespawns \in Nat

VARIABLES
    param,                       \* read once by the constructor
    accepted,                    \* the velocity gate's state
    ramp,                        \* the covariance ramp's state
    consecutive_good_samples, first_good_time,
    last_quality_sample_time,
    now, respawns,
    exit,        \* how handle_msg ended, if the last step was a call of it
    published    \* the last message of this process; time 0: none yet

bridgeVars == <<accepted, ramp, consecutive_good_samples, first_good_time,
                last_quality_sample_time, published>>

NoTwist == [velocity |-> <<0, 0, 0>>, time |-> 0,
            sensor |-> <<0, 0, 0>>, variance |-> <<0, 0, 0>>]

BridgeInit ==
    /\ param \in Params
    /\ accepted = NoSample /\ ramp = Idle
    /\ consecutive_good_samples = 0 /\ first_good_time = 0
    /\ last_quality_sample_time = 0
    /\ now = 1 /\ respawns = 0
    /\ exit = "NONE" /\ published = NoTwist
-----------------------------------------------------------------------------
\* is_valid_measurement
ValidMeasurement(msg) ==
    /\ msg.velocity # NonFinite
    /\ MinAltitude > 0 => msg.altitude # NonFinite /\ msg.altitude >= MinAltitude
    /\ MaxFom > 0 => msg.fom # NonFinite /\ msg.fom <= MaxFom
    /\ MinValidBeams > 0 => msg.valid_beams >= MinValidBeams

GoodQuality(msg) ==
    (RequireValidVelocity => msg.velocity_valid) /\ ValidMeasurement(msg)

SampleTime(stamp) == IF stamp <= 0 THEN now ELSE stamp

\* Good samples stopped coming for longer than the trigger gap.
AfterGap(time) ==
    /\ last_quality_sample_time > 0 /\ RecoveryTriggerGap > 0
    /\ time - last_quality_sample_time > RecoveryTriggerGap

\* The diagonal entries 0, 7 and 14; the others are not used downstream of
\* this node's own checks.
Scaled(variance) ==
    IF variance = NonFinite THEN NonFinite ELSE variance * CovarianceScale
Variances(msg) ==
    IF UseDvlCovariance /\ msg.covariance # <<>>
    THEN [i \in 1 .. 3 |-> Scaled(msg.covariance[i])]
    ELSE [i \in 1 .. 3 |-> DefaultVariance]

RejectedCovariance(variances) ==
    /\ MaxLinearVariance > 0
    /\ \E i \in 1 .. 3 :
          variances[i] = NonFinite \/ variances[i] > MaxLinearVariance

Sanitized(variance) ==
    IF MinLinearVariance <= 0 THEN variance
    ELSE IF variance = NonFinite THEN MinLinearVariance
    ELSE Greater(variance, MinLinearVariance)

\* The state of the gate, the ramp and the counter when the gate is reached.
GateBefore(time) == IF AfterGap(time) THEN NoSample ELSE accepted
RampBefore(time) == IF AfterGap(time) THEN Triggered ELSE ramp
CountBefore(time) == IF AfterGap(time) THEN 0 ELSE consecutive_good_samples

GateVerdict(msg, time) == Decision(GateBefore(time), msg.velocity, time)

\* Mutant of RestartReacquisition: the good samples counted survive.
RestartKeepingCount ==
    /\ first_good_time' = 0
    /\ ramp' = Triggered
    /\ UNCHANGED consecutive_good_samples

\* reset_reacquisition and trigger_covariance_recovery
RestartReacquisition ==
    /\ consecutive_good_samples' = 0
    /\ first_good_time' = 0
    /\ ramp' = Triggered

NoteQuality(time) ==
    last_quality_sample_time' = Greater(last_quality_sample_time, time)
-----------------------------------------------------------------------------
RejectQuality(msg, time) ==
    /\ ~GoodQuality(msg)
    /\ RestartReacquisition
    /\ accepted' = NoSample
    /\ exit' = "REJECT_QUALITY"
    /\ UNCHANGED <<last_quality_sample_time, published>>

RejectPhysics(msg, time) ==
    /\ GoodQuality(msg)
    /\ GateVerdict(msg, time) # "ACCEPT"
    /\ NoteQuality(time)
    /\ RestartReacquisition
    /\ accepted' = IF GateVerdict(msg, time) = "REJECT_TIME"
                   THEN NoSample ELSE GateBefore(time)
    /\ exit' = GateVerdict(msg, time)
    /\ UNCHANGED published

\* Mutant of RejectCovariance: the recovery is not triggered.
RejectCovarianceQuietly(msg, time) ==
    /\ GoodQuality(msg)
    /\ GateVerdict(msg, time) = "ACCEPT"
    /\ RejectedCovariance(Variances(msg))
    /\ NoteQuality(time)
    /\ consecutive_good_samples' = 0 /\ first_good_time' = 0
    /\ ramp' = RampBefore(time)
    /\ accepted' = NoSample
    /\ exit' = "REJECT_COVARIANCE"
    /\ UNCHANGED published

RejectCovariance(msg, time) ==
    /\ GoodQuality(msg)
    /\ GateVerdict(msg, time) = "ACCEPT"
    /\ RejectedCovariance(Variances(msg))
    /\ NoteQuality(time)
    /\ RestartReacquisition
    /\ accepted' = NoSample
    /\ exit' = "REJECT_COVARIANCE"
    /\ UNCHANGED published

Acceptable(msg, time) ==
    /\ GoodQuality(msg)
    /\ GateVerdict(msg, time) = "ACCEPT"
    /\ ~RejectedCovariance(Variances(msg))

\* is_reacquired.  The counter runs on while samples are good; it is kept at
\* the number of samples asked for, beyond which it tells nothing.
NoReacquisition ==
    param.reacquire_good_samples <= 1 /\ param.reacquire_duration <= 0
SamplesWanted == Greater(1, param.reacquire_good_samples)

CountGoodSample(time) ==
    IF NoReacquisition
    THEN /\ consecutive_good_samples' = CountBefore(time)
         /\ first_good_time' = IF AfterGap(time) THEN 0 ELSE first_good_time
    ELSE /\ consecutive_good_samples' = Lesser(CountBefore(time) + 1, SamplesWanted)
         /\ first_good_time' =
              IF CountBefore(time) = 0 THEN now ELSE first_good_time

\* Mutant of Reacquired: one sample too many is asked for.
ReacquiredLate ==
    \/ NoReacquisition
    \/ /\ consecutive_good_samples' > SamplesWanted
       /\ \/ param.reacquire_duration <= 0
          \/ now - first_good_time' >= param.reacquire_duration

Reacquired ==   \* of the state after CountGoodSample
    \/ NoReacquisition
    \/ /\ consecutive_good_samples' >= SamplesWanted
       /\ \/ param.reacquire_duration <= 0
          \/ now - first_good_time' >= param.reacquire_duration

AcceptGood(msg, time) ==
    /\ Acceptable(msg, time)
    /\ NoteQuality(time)
    /\ accepted' = [velocity |-> msg.velocity, time |-> time]
    /\ CountGoodSample(time)

HoldForReacquire(msg, time) ==
    /\ AcceptGood(msg, time)
    /\ ~Reacquired
    /\ ramp' = RampBefore(time)
    /\ exit' = "HOLD"
    /\ UNCHANGED published

\* The message sent.  Of its header only the time it was judged by is kept:
\* the stamp, copied from msg, is that time or, in an unstamped message, 0.
\* `sensor` is the variance before the ramp, which is not part of the message.
Twist(msg, time) ==
    LET sensor == [i \in 1 .. 3 |-> Sanitized(Variances(msg)[i])]
    IN  [velocity |-> msg.velocity, time |-> time, sensor |-> sensor,
         variance |-> [i \in 1 .. 3 |-> Applied(RampBefore(time), sensor[i])]]

PublishTwist(msg, time) ==
    /\ AcceptGood(msg, time)
    /\ Reacquired
    /\ ramp' = AdvancedIfActive(RampBefore(time))
    /\ exit' = "PUBLISH"
    /\ published' = Twist(msg, time)

HandleMsg(msg, stamp) ==
    \/ RejectQuality(msg, SampleTime(stamp))
    \/ RejectPhysics(msg, SampleTime(stamp))
    \/ RejectCovariance(msg, SampleTime(stamp))
    \/ HoldForReacquire(msg, SampleTime(stamp))
    \/ PublishTwist(msg, SampleTime(stamp))

Respawn ==
    /\ respawns < MaxRespawns /\ respawns' = respawns + 1
    /\ accepted' = NoSample /\ ramp' = Idle
    /\ consecutive_good_samples' = 0 /\ first_good_time' = 0
    /\ last_quality_sample_time' = 0
    /\ exit' = "NONE" /\ published' = NoTwist
    /\ UNCHANGED <<param, now>>

Tick == /\ now < MaxClock /\ now' = now + 1
        /\ exit' = "NONE"
        /\ UNCHANGED <<bridgeVars, param, respawns>>
=============================================================================
