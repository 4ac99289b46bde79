---------------------------- MODULE DvlEvidence ----------------------------
(***************************************************************************)
(* The DVL bridge fed by an arbitrary driver and watched by an observer    *)
(* that sees the messages going in and how each of them ended.             *)
(***************************************************************************)
EXTENDS DvlToTwistBridge

VARIABLES
    previous,    \* the last message handled: its velocity and time
    run,         \* how many messages in a row, ending with the last one, were
                 \* good and within the rate bound of the one before
    run_start,   \* the clock at the first message of that row
    held,        \* how many messages in a row were held for reacquisition
    held_start,  \* the clock at the first of them
    since        \* messages published since the last loss of the signal, at
                 \* most SinceCap; SinceCap in a new process, which lost nothing

observerVars == <<previous, run, run_start, held, held_start, since>>
vars == <<bridgeVars, exit, param, now, respawns, observerVars>>

GoodOnItsOwn(msg, time) ==
    /\ GoodQuality(msg) /\ ~TooFast(msg.velocity) /\ time > 0
    /\ ~RejectedCovariance(Variances(msg))

Extends(msg, time) ==
    /\ GoodOnItsOwn(msg, time)
    /\ run > 0
    /\ time > previous.time
    /\ WithinRate(previous, msg.velocity, time)

\* Bound of since: past the last stage of the ramp, and past the second message.
SinceCap == Greater(SampleCount, 1) + 1

Lost(time) == exit' \notin {"HOLD", "PUBLISH"} \/ AfterGap(time)

ObserverInit ==
    /\ previous = NoSample
    /\ run = 0 /\ run_start = 0 /\ held = 0 /\ held_start = 0
    /\ since = SinceCap

Observe(msg, time) ==
    /\ previous' = IF GoodOnItsOwn(msg, time)
                   THEN [velocity |-> msg.velocity, time |-> time] ELSE NoSample
    /\ run' = IF ~GoodOnItsOwn(msg, time) THEN 0
              ELSE IF Extends(msg, time) THEN Lesser(run + 1, SamplesWanted)
              ELSE 1
    /\ run_start' = IF Extends(msg, time) THEN run_start ELSE now
    /\ held' = IF exit' # "HOLD" THEN 0
               ELSE IF AfterGap(time) THEN 1 ELSE Lesser(held + 1, SamplesWanted)
    /\ held_start' = IF exit' = "HOLD" /\ held > 0 /\ ~AfterGap(time)
                     THEN held_start ELSE now
    /\ LET before == IF Lost(time) THEN 0 ELSE since
       IN  since' = IF exit' = "PUBLISH"
                    THEN Lesser(before + 1, SinceCap) ELSE before

\* handle_msg, observed.
Receive(msg, stamp) ==
    /\ HandleMsg(msg, stamp)
    /\ Observe(msg, SampleTime(stamp))
    /\ UNCHANGED <<param, now, respawns>>

Restart == /\ Respawn
           /\ previous' = NoSample
           /\ run' = 0 /\ run_start' = 0 /\ held' = 0 /\ held_start' = 0
           /\ since' = SinceCap

Init == BridgeInit /\ ObserverInit
Next == \/ \E msg \in Messages, stamp \in 0 .. now + MaxSkew : Receive(msg, stamp)
        \/ Tick /\ UNCHANGED observerVars
        \/ Restart

Spec == Init /\ [][Next]_vars
-----------------------------------------------------------------------------
Exits == {"NONE", "PUBLISH", "HOLD", "REJECT_QUALITY", "REJECT_COVARIANCE",
          "REJECT_SPEED", "REJECT_TIME", "REJECT_RATE"}
Sample == [velocity : Vectors, time : Nat]

\* Well-typed state: in particular the gate's verdict REJECT_NONFINITE cannot
\* reach the bridge, the ramp's stage stays within its samples, and the good
\* samples counted within those asked for.
TypeOK ==
    /\ param \in Params /\ now \in Nat /\ respawns \in 0 .. MaxRespawns
    /\ accepted \in Sample /\ previous \in Sample
    /\ ramp \in [stage : 0 .. SampleCount, current_variance : Nat]
    /\ consecutive_good_samples \in 0 .. SamplesWanted
    /\ first_good_time \in 0 .. now /\ last_quality_sample_time \in Nat
    /\ exit \in Exits
    /\ published.velocity \in Vectors /\ published.time \in Nat
    /\ run \in 0 .. SamplesWanted /\ held \in 0 .. SamplesWanted
    /\ since \in 0 .. SinceCap

\* dvl_to_twist_bridge.cpp:122-140, 171-191, 291-309: a message is published
\* only on top of reacquire_good_samples messages in a row that were all good
\* and agreed each with the one before, the first of them at least
\* reacquire_duration ago.  No rejection, of whatever kind, may leave a part
\* of the count or the old first_good_time behind.
PublishNeedsEvidence ==
    exit = "PUBLISH" =>
      /\ run >= SamplesWanted
      /\ now - run_start >= param.reacquire_duration

\* dvl_to_twist_bridge.cpp:291-309: and the bridge withholds no more good
\* samples than that: a held sample is one of the first
\* reacquire_good_samples - 1 since the loss, or younger than the duration.
HoldsAreJustified ==
    exit = "HOLD" =>
      \/ held < SamplesWanted
      \/ now - held_start < param.reacquire_duration

\* What InitialVariance has decayed to at the k-th message after a loss.
Floor[k \in 1 .. SampleCount] ==
    IF k = 1 THEN InitialVariance ELSE Decay(Floor[k - 1])

\* dvl_to_twist_bridge.cpp:116, 138, 177, 193-203: the k-th message published
\* after a loss of any kind has the k-th variance of the recovery sequence for
\* a floor, the first SampleCount messages only, whether the loss was noticed
\* by the quality, the physics, the covariance or the silence before it.
RecoveryFloor ==
    exit = "PUBLISH" =>
      \A i \in 1 .. 3 :
        published.variance[i] = IF since <= SampleCount
                                THEN Greater(published.sensor[i], Floor[since])
                                ELSE published.sensor[i]

\* velocity_sample_gate.hpp:75-96 as the estimator sees it: two messages
\* published with no loss between them go forward in time, and their
\* velocities differ by no more than the acceleration limit allows.
PublishedRateBounded ==
    [][(exit' = "PUBLISH" /\ since' >= 2 /\ published # NoTwist) =>
         /\ published'.time > published.time
         /\ WithinRate(published, published'.velocity, published'.time)]_vars
=============================================================================
