------------------------ MODULE PressureToDepthPose ------------------------
(***************************************************************************)
(* The node pressure_to_depth_pose (src/pressure_to_depth_pose.cpp): turns *)
(* pressure messages into the depth pose the state estimator fuses.  It    *)
(* owns a DepthSampleGate, a reference depth captured once, and a variance *)
(* ramp.  rov_start.launch.py starts it with respawn=True, so a crash      *)
(* brings up a new process that has forgotten all three.                   *)
(*                                                                         *)
(* Variances are in units of z_variance / reacquire_variance_samples.      *)
(***************************************************************************)
EXTENDS DepthSampleGate, Sequences, SequencesExt

CONSTANTS
    Params,            \* the parameter settings a launch may use
    Pressures,         \* finite pressures a message may carry
    SurfacePressure, PressurePerDepth,
    DepthOffset,
    ZVariance,         \* z_variance
    VarianceSamples,   \* reacquire_variance_samples, after its clamp
    VarianceScale,     \* reacquire_variance_scale, after its clamp
    MaxClock,          \* bound: how far the node's clock runs
    MaxSkew,           \* bound: how far a stamp may run ahead of that clock
    MaxRespawns        \* bound: how often the process is restarted

ASSUME NodeAssumption ==
    /\ Params \subseteq [enable_depth_gate : BOOLEAN, zero_at_start : BOOLEAN,
                         input_mode : STRING]
    /\ Pressures \subseteq Int /\ SurfacePressure \in Int
    /\ PressurePerDepth \in Nat \ {0}
    /\ DepthOffset \in Int /\ ZVariance \in Nat
    /\ VarianceSamples \in Nat /\ VarianceScale \in Nat \ {0}
    /\ MaxClock \in Nat \ {0} /\ MaxSkew \in Nat /\ MaxRespawns \in Nat

VARIABLES
    param,                      \* read once by the constructor
    have_reference, reference_depth,
    variance_ramp_remaining,
    now,                        \* the node's clock
    respawns,
    published,   \* the last two messages of this process, oldest first
    interrupted, \* history: a sample was withheld since the last message
    since,       \* history: messages since the output was last interrupted
    start_depth  \* history: {} or {the depth first published since launch}

referenceVars == <<have_reference, reference_depth>>
historyVars == <<interrupted, since, start_depth>>
nodeVars == <<referenceVars, variance_ramp_remaining, published, historyVars>>
vars == <<gateVars, nodeVars, param, now, respawns>>

Init ==
    /\ GateInit
    /\ have_reference = FALSE /\ reference_depth = 0
    /\ variance_ramp_remaining = 0
    /\ published = <<>>
    /\ interrupted = FALSE /\ since = VarianceSamples + 1
    /\ param \in Params
    /\ now = 1 /\ respawns = 0 /\ start_depth = {}
-----------------------------------------------------------------------------
DepthOf(pressure) ==
    IF param.input_mode = "pressure_pa"
    THEN (pressure - SurfacePressure) \div PressurePerDepth
    ELSE pressure

\* Mutant of SampleTime: samples are judged by the time they arrive.
ArrivalTime(stamp) == now

SampleTime(stamp) == IF stamp <= 0 THEN now ELSE stamp

\* 1 + (scale - 1) * remaining / samples, times z_variance
OutputVariance(remaining) ==
    ZVariance * (Greater(VarianceSamples, 1) + (VarianceScale - 1) * remaining)

\* Mutant of RampAfter: the ramp runs below its end.
RampAfterUnchecked(remaining) == remaining - 1

RampAfter(remaining) == Greater(remaining - 1, 0)

\* Mutant of ReferenceFor: the reference is taken from every sample.
ReferenceForEach(depth) == IF param.zero_at_start THEN depth ELSE 0

ReferenceFor(depth) ==
    IF have_reference THEN reference_depth
    ELSE IF param.zero_at_start THEN depth ELSE 0

Publish(depth, stamp, remaining) ==
    /\ have_reference' = TRUE
    /\ reference_depth' = ReferenceFor(depth)
    /\ variance_ramp_remaining' = RampAfter(remaining)
    /\ published' =
         Append(IF published = <<>> THEN <<>> ELSE <<Last(published)>>,
                [z        |-> DepthOffset - (depth - reference_depth'),
                 stamp    |-> stamp,
                 variance |-> OutputVariance(remaining),
                 depth    |-> depth])
    /\ interrupted' = FALSE
    /\ since' = IF interrupted THEN 1 ELSE Lesser(since + 1, VarianceSamples + 1)
    /\ start_depth' = IF start_depth = {} THEN {depth} ELSE start_depth
-----------------------------------------------------------------------------
\* handle_msg, one action per way through it.
SkipNonFinite(pressure, stamp) ==
    /\ pressure = NonFinite
    /\ UNCHANGED <<gateVars, nodeVars>>

DropSample(pressure, stamp) ==
    /\ pressure # NonFinite /\ param.enable_depth_gate
    /\ Withhold(DepthOf(pressure), SampleTime(stamp))
    /\ interrupted' = TRUE
    /\ UNCHANGED <<referenceVars, variance_ramp_remaining, published, since,
                   start_depth>>

ForwardSample(pressure, stamp) ==
    /\ pressure # NonFinite /\ param.enable_depth_gate
    /\ \/ AcceptFirst(DepthOf(pressure), SampleTime(stamp))
       \/ AcceptPlausible(DepthOf(pressure), SampleTime(stamp))
    /\ Publish(DepthOf(pressure), stamp, variance_ramp_remaining)

\* Mutant of ForwardReacquired: the ramp is not loaded.
ForwardReacquiredUnramped(pressure, stamp) ==
    /\ pressure # NonFinite /\ param.enable_depth_gate
    /\ Reacquire(DepthOf(pressure), SampleTime(stamp))
    /\ Publish(DepthOf(pressure), stamp, variance_ramp_remaining)

ForwardReacquired(pressure, stamp) ==
    /\ pressure # NonFinite /\ param.enable_depth_gate
    /\ Reacquire(DepthOf(pressure), SampleTime(stamp))
    /\ Publish(DepthOf(pressure), stamp, VarianceSamples)

ForwardUngated(pressure, stamp) ==
    /\ pressure # NonFinite /\ ~param.enable_depth_gate
    /\ Publish(DepthOf(pressure), stamp, variance_ramp_remaining)
    /\ UNCHANGED gateVars

HandleMsg(pressure, stamp) ==
    /\ \/ SkipNonFinite(pressure, stamp)
       \/ DropSample(pressure, stamp)
       \/ ForwardSample(pressure, stamp)
       \/ ForwardReacquired(pressure, stamp)
       \/ ForwardUngated(pressure, stamp)
    /\ UNCHANGED <<param, now, respawns>>

Tick == /\ now < MaxClock
        /\ now' = now + 1
        /\ UNCHANGED <<gateVars, nodeVars, param, respawns>>

\* The process dies and launch starts it again with the same parameters.
Respawn == /\ respawns < MaxRespawns
           /\ respawns' = respawns + 1
           /\ have_accepted_sample' = FALSE /\ recovering' = FALSE
           /\ have_recovery_candidate' = FALSE /\ consecutive_good_samples' = 0
           /\ last_accepted_depth' = 0 /\ recovery_candidate_depth' = 0
           /\ last_accepted_time' = 0 /\ last_observed_time' = 0
           /\ Return("REJECT", FALSE)
           /\ have_reference' = FALSE /\ reference_depth' = 0
           /\ variance_ramp_remaining' = 0
           /\ published' = <<>>
           /\ interrupted' = FALSE /\ since' = VarianceSamples + 1
           /\ UNCHANGED <<param, now, start_depth>>

Next == \/ \E pressure \in Pressures \cup {NonFinite},
              stamp \in 0 .. now + MaxSkew : HandleMsg(pressure, stamp)
        \/ Tick
        \/ Respawn

Spec == Init /\ [][Next]_vars
-----------------------------------------------------------------------------
Message == [z : Int, stamp : Nat, variance : Nat, depth : Int]

\* Well-typed state; the ramp never exceeds its length.
TypeOK ==
    /\ GateTypeOK
    /\ param \in Params
    /\ have_reference \in BOOLEAN /\ reference_depth \in Int
    /\ variance_ramp_remaining \in 0 .. VarianceSamples
    /\ now \in Nat \ {0} /\ respawns \in 0 .. MaxRespawns
    /\ published \in Seq(Message) /\ Len(published) <= 2
    /\ interrupted \in BOOLEAN /\ since \in 1 .. VarianceSamples + 1
    /\ start_depth \subseteq Int

\* pressure_to_depth_pose.cpp:92-116, 132-135: with the gate on, two messages
\* in a row of one process never step further than the vehicle can move, seen
\* by the subscriber in the z it fuses; between two stamped messages the stamp
\* advances.  (An unstamped message is judged by the node's clock but sent on
\* with the stamp 0, so there only the bound for the longest interval is owed.)
PublishedRateBounded ==
    (param.enable_depth_gate /\ Len(published) = 2) =>
      LET m1 == published[1]
          m2 == published[2]
          bothStamped == m1.stamp > 0 /\ m2.stamp > 0
      IN  /\ bothStamped => m1.stamp < m2.stamp
          /\ Distance(m1.z, m2.z) <=
               AllowedDelta(IF bothStamped THEN m2.stamp - m1.stamp ELSE MaxRateDt)

\* pressure_to_depth_pose.cpp:118-147: after an interruption the first
\* VarianceSamples messages, and no other, carry an inflated variance, and it
\* comes down in equal steps, whatever is withheld in between: a second
\* interruption before the ramp has run out starts the ramp anew.
RampFollowsInterruption ==
    published # <<>> =>
      Last(published).variance =
        OutputVariance(VarianceSamples + 1 - since)

\* pressure_to_depth_pose.cpp:127-135: one process reports in one frame; the
\* zero of z never moves between two of its messages.
FrameFixed ==
    Len(published) = 2 =>
      published[1].z + published[1].depth = published[2].z + published[2].depth

\* README.md:150 says of zero_at_start that the depth at the start is the zero
\* and that moving down makes the vertical odom position negative.
DownIsNegative ==
    (param.zero_at_start /\ published # <<>>) =>
      \A start \in start_depth :
        Last(published).depth > start => Last(published).z < DepthOffset
=============================================================================
