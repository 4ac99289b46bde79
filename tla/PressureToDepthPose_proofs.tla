--------------------- MODULE PressureToDepthPose_proofs ---------------------
(***************************************************************************)
(* For every setting of the depth node, any pressures, stamps and number   *)
(* of restarts: what the estimator receives from one process is in one     *)
(* frame, steps no farther than the vehicle moves, and carries the         *)
(* variance that the last interruption asks for.                           *)
(***************************************************************************)
EXTENDS PressureToDepthPose, TLAPS

\* The last message seen from inside the node: its frame, and the ramp's next step.
FrameInv ==
    published # <<>> =>
      /\ have_reference
      /\ Last(published).z = DepthOffset - (Last(published).depth - reference_depth)

RampInv == variance_ramp_remaining = Greater(VarianceSamples - since, 0)

\* The gate knows what was published, and is in recovery exactly while the output is
\* interrupted.
GateInv ==
    IF param.enable_depth_gate
    THEN /\ published # <<>> <=> have_accepted_sample
         /\ interrupted <=> recovering
         /\ recovering => have_accepted_sample
         /\ published # <<>> =>
              /\ Last(published).depth = last_accepted_depth
              /\ Last(published).stamp > 0 => Last(published).stamp = last_accepted_time
    ELSE ~interrupted

Parts == FrameInv /\ RampInv /\ GateInv
IInv == TypeOK /\ Parts /\ PublishedRateBounded /\ RampFollowsInterruption /\ FrameFixed

\* What a message brings (pressure_to_depth_pose.cpp:70-100).
LEMMA InputType ==
    ASSUME TypeOK, NEW pressure \in Pressures, NEW stamp \in 0 .. now + MaxSkew
    PROVE  /\ DepthOf(pressure) \in Int /\ stamp \in Nat
           /\ SampleTime(stamp) \in Nat /\ SampleTime(stamp) > 0
           /\ stamp > 0 => SampleTime(stamp) = stamp
<1> USE GateAssumption, NodeAssumption DEF GateAssumption, NodeAssumption, TypeOK
<1>1. pressure \in Int /\ pressure - SurfacePressure \in Int
  OBVIOUS
<1>2. (pressure - SurfacePressure) \div PressurePerDepth \in Int
  BY <1>1
<1> QED
  BY <1>1, <1>2 DEF DepthOf, SampleTime

\* The variance is a natural number (pressure_to_depth_pose.cpp:137-143).
LEMMA VarianceType ==
    ASSUME NEW remaining \in 0 .. VarianceSamples
    PROVE  OutputVariance(remaining) \in Nat
<1> USE NodeAssumption DEF NodeAssumption
<1>1. VarianceScale - 1 \in Nat /\ Greater(VarianceSamples, 1) \in Nat
  BY DEF Greater
<1>2. (VarianceScale - 1) * remaining \in Nat
  BY <1>1
<1>3. Greater(VarianceSamples, 1) + (VarianceScale - 1) * remaining \in Nat
  BY <1>1, <1>2
<1> QED
  BY <1>3 DEF OutputVariance

\* What is kept of the published messages.
LEMMA Kept ==
    ASSUME published \in Seq(Message), Len(published) <= 2, NEW msg \in Message,
           published' = Append(IF published = <<>> THEN <<>> ELSE <<Last(published)>>,
                               msg)
    PROVE  /\ published' \in Seq(Message) /\ Len(published') <= 2 /\ published' # <<>>
           /\ Last(published') = msg
           /\ Len(published') = 2 =>
                published # <<>> /\ published'[1] = Last(published) /\ published'[2] = msg
<1>1. CASE published = <<>>
  BY <1>1 DEF Last
<1>2. CASE published # <<>>
  <2>1. Last(published) \in Message
    BY <1>2 DEF Last
  <2>2. published' = Append(<<Last(published)>>, msg)
    BY <1>2
  <2> QED
    BY <1>2, <2>1, <2>2 DEF Last
<1> QED
  BY <1>1, <1>2

\* The gate's own state, call by call (depth_sample_gate.hpp:42-108).
LEMMA GateTypeStep ==
    ASSUME GateTypeOK, NEW depth \in Int, NEW time \in Nat, Update(depth, time)
    PROVE  GateTypeOK'
<1> USE GateAssumption DEF GateAssumption, GateTypeOK
<1>1. /\ have_accepted_sample' \in BOOLEAN
      /\ last_accepted_depth' \in Int /\ last_accepted_time' \in Nat
      /\ last_observed_time' \in Nat
  BY DEF Update, Withhold, RejectUnusable, RejectTime, RejectJump, HoldForRecovery,
         AcceptFirst, AcceptPlausible, Reacquire, AcceptSample, acceptedVars
<1>2. /\ recovering' \in BOOLEAN /\ have_recovery_candidate' \in BOOLEAN
      /\ recovery_candidate_depth' \in Int
  BY DEF Update, Withhold, RejectUnusable, RejectTime, RejectJump, EnterRecovery,
         HoldForRecovery, AcceptFirst, AcceptPlausible, Reacquire, recoveryVars
<1>3. consecutive_good_samples' \in 0 .. ReacquireGoodSamples - 1
  <2>1. \/ consecutive_good_samples' = 0
        \/ consecutive_good_samples' = consecutive_good_samples
        \/ /\ consecutive_good_samples' = consecutive_good_samples + 1
           /\ consecutive_good_samples + 1 < ReacquireGoodSamples
    BY DEF Update, Withhold, RejectUnusable, RejectTime, RejectJump, EnterRecovery,
           HoldForRecovery, AcceptFirst, AcceptPlausible, Reacquire, recoveryVars
  <2> QED
    BY <2>1
<1>4. result' \in [decision : Decisions, reacquired : BOOLEAN]
  <2>1. \E decision \in Decisions, reacquired \in BOOLEAN :
          result' = [decision |-> decision, reacquired |-> reacquired]
    BY DEF Update, Withhold, RejectUnusable, RejectTime, RejectJump, Decisions,
           HoldForRecovery, AcceptFirst, AcceptPlausible, Reacquire, Return
  <2> QED
    BY <2>1
<1> QED
  BY <1>1, <1>2, <1>3, <1>4

\* What withholding a sample that can be judged does to the gate: there was an
\* accepted one, and there is a recovery now (depth_sample_gate.hpp:42-64, 76-96).
LEMMA Withheld ==
    ASSUME TypeOK, NEW depth \in Int, NEW time \in Nat, time > 0, Withhold(depth, time)
    PROVE  /\ have_accepted_sample /\ recovering' = TRUE
           /\ UNCHANGED <<have_accepted_sample, last_accepted_depth, last_accepted_time>>
<1>1. Usable(depth, time)
  BY GateAssumption DEF GateAssumption, Usable
<1>2. have_accepted_sample
  BY <1>1 DEF Withhold, RejectUnusable, RejectTime, RejectJump, HoldForRecovery, Fresh
<1>3. UNCHANGED <<have_accepted_sample, last_accepted_depth, last_accepted_time>>
  BY <1>1 DEF Withhold, RejectUnusable, RejectTime, RejectJump, HoldForRecovery,
              acceptedVars
<1>4. recovering' = TRUE
  <2>1. CASE RejectTime(depth, time) \/ RejectJump(depth, time)
    BY <1>2, <2>1 DEF RejectTime, RejectJump, EnterRecovery
  <2>2. CASE HoldForRecovery(depth, time)
    <3>1. recovering /\ recovering' = recovering
      BY <2>2 DEF HoldForRecovery
    <3> QED
      BY <3>1 DEF TypeOK, GateTypeOK
  <2> QED
    BY <1>1, <2>1, <2>2 DEF Withhold, RejectUnusable
<1> QED
  BY <1>2, <1>3, <1>4

\* A message goes out (pressure_to_depth_pose.cpp:127-165).
LEMMA PublishStep ==
    ASSUME IInv, NEW depth \in Int, NEW stamp \in Nat,
           NEW remaining \in 0 .. VarianceSamples, Publish(depth, stamp, remaining)
    PROVE  /\ have_reference' \in BOOLEAN /\ reference_depth' \in Int
           /\ variance_ramp_remaining' \in 0 .. VarianceSamples
           /\ published' \in Seq(Message) /\ Len(published') <= 2 /\ published' # <<>>
           /\ interrupted' = FALSE /\ since' \in 1 .. VarianceSamples + 1
           /\ start_depth' \subseteq Int
           /\ Last(published').z = DepthOffset - (depth - reference_depth')
           /\ Last(published').stamp = stamp /\ Last(published').depth = depth
           /\ Last(published').variance = OutputVariance(remaining)
           /\ Len(published') = 2 =>
                /\ published # <<>> /\ published'[1] = Last(published)
                /\ published'[2] = Last(published') /\ reference_depth' = reference_depth
           /\ FrameInv'
<1> USE NodeAssumption DEF NodeAssumption, IInv, TypeOK, Parts
<1> DEFINE msg == [z |-> DepthOffset - (depth - reference_depth'), stamp |-> stamp,
                   variance |-> OutputVariance(remaining), depth |-> depth]
<1>1. have_reference' = TRUE /\ reference_depth' \in Int
  BY DEF Publish, ReferenceFor
<1>2. have_reference' \in BOOLEAN
  BY <1>1
<1>3. published # <<>> => reference_depth' = reference_depth
  BY DEF Publish, ReferenceFor, FrameInv
<1>4. variance_ramp_remaining' \in 0 .. VarianceSamples
  BY DEF Publish, RampAfter, Greater
<1>5. since' \in 1 .. VarianceSamples + 1
  BY DEF Publish, Lesser
<1>6. start_depth' \subseteq Int
  BY DEF Publish
<1>7. msg \in Message
  BY <1>1, VarianceType DEF Message
<1>8. published' = Append(IF published = <<>> THEN <<>> ELSE <<Last(published)>>, msg)
  BY DEF Publish
<1> HIDE DEF msg
<1>9. /\ published' \in Seq(Message) /\ Len(published') <= 2 /\ published' # <<>>
      /\ Last(published') = msg
      /\ Len(published') = 2 =>
           published # <<>> /\ published'[1] = Last(published) /\ published'[2] = msg
  <2>1. published \in Seq(Message) /\ Len(published) <= 2
    OBVIOUS
  <2> QED
    BY <1>7, <1>8, <2>1, Kept, Zenon
<1>10. FrameInv'
  <2>1. msg.z = DepthOffset - (msg.depth - reference_depth')
    BY DEF msg
  <2> QED
    BY <1>1, <1>9, <2>1 DEF FrameInv
<1>11. interrupted' = FALSE
  BY DEF Publish
<1> QED
  BY <1>1, <1>2, <1>3, <1>4, <1>5, <1>6, <1>9, <1>10, <1>11 DEF msg

\* The frame (pressure_to_depth_pose.cpp:127-135).
LEMMA FrameStep ==
    ASSUME IInv, NEW depth \in Int, NEW stamp \in Nat,
           NEW remaining \in 0 .. VarianceSamples, Publish(depth, stamp, remaining)
    PROVE  FrameFixed'
<1> SUFFICES ASSUME Len(published') = 2
             PROVE  published'[1].z + published'[1].depth
                      = published'[2].z + published'[2].depth
  BY DEF FrameFixed
<1>1. /\ published # <<>> /\ published'[1] = Last(published)
      /\ published'[2].z = DepthOffset - (depth - reference_depth)
      /\ published'[2].depth = depth
  <2>1. /\ published # <<>> /\ published'[1] = Last(published)
        /\ published'[2] = Last(published') /\ reference_depth' = reference_depth
    BY PublishStep
  <2>2. /\ Last(published').z = DepthOffset - (depth - reference_depth')
        /\ Last(published').depth = depth
    BY PublishStep
  <2> QED
    BY <2>1, <2>2
<1>2. Last(published).z = DepthOffset - (Last(published).depth - reference_depth)
  BY <1>1 DEF IInv, Parts, FrameInv
<1>3. Last(published) \in Message
  BY <1>1 DEF IInv, TypeOK, Last
<1>4. Last(published).depth \in Int /\ reference_depth \in Int /\ DepthOffset \in Int
  BY <1>3, NodeAssumption DEF NodeAssumption, IInv, TypeOK, Message
<1> QED
  BY <1>1, <1>2, <1>4

\* The ramp (pressure_to_depth_pose.cpp:118-125, 137-147).
LEMMA RampStep ==
    ASSUME IInv, NEW depth \in Int, NEW stamp \in Nat,
           NEW remaining \in 0 .. VarianceSamples, Publish(depth, stamp, remaining),
           remaining = IF interrupted THEN VarianceSamples ELSE variance_ramp_remaining
    PROVE  RampInv' /\ RampFollowsInterruption'
<1> USE NodeAssumption DEF NodeAssumption
<1>1. since' = IF interrupted THEN 1 ELSE Lesser(since + 1, VarianceSamples + 1)
  BY DEF Publish
<1>2. since \in 1 .. VarianceSamples + 1
      /\ variance_ramp_remaining = Greater(VarianceSamples - since, 0)
  BY DEF IInv, TypeOK, Parts, RampInv
<1>3. remaining = VarianceSamples + 1 - since'
  BY <1>1, <1>2 DEF Lesser, Greater
<1>4. variance_ramp_remaining' = Greater(remaining - 1, 0)
  BY DEF Publish, RampAfter
<1>5. RampInv'
  BY <1>1, <1>2, <1>3, <1>4 DEF RampInv, Lesser, Greater
<1>6. Last(published').variance = OutputVariance(remaining)
  BY PublishStep
<1>7. OutputVariance(remaining) = OutputVariance(VarianceSamples + 1 - since')
  BY <1>3
<1> QED
  BY <1>5, <1>6, <1>7 DEF RampFollowsInterruption

\* The allowance grows with the time, up to that of the longest interval.
LEMMA Allowance ==
    ASSUME NEW dt \in Nat
    PROVE  /\ AllowedDelta(dt) \in Nat /\ AllowedDelta(MaxRateDt) \in Nat
           /\ AllowedDelta(dt) <= AllowedDelta(MaxRateDt)
<1> USE GateAssumption DEF GateAssumption
<1>1. \A a, b \in Nat : MaxVerticalSpeed * a \in Nat
        /\ (a <= b => MaxVerticalSpeed * a <= MaxVerticalSpeed * b)
  OBVIOUS
<1>2. /\ Lesser(dt, MaxRateDt) \in Nat /\ Lesser(MaxRateDt, MaxRateDt) \in Nat
      /\ Lesser(dt, MaxRateDt) <= Lesser(MaxRateDt, MaxRateDt)
  BY DEF Lesser
<1> QED
  BY <1>1, <1>2 DEF AllowedDelta, RateBound

\* The step between two messages (pressure_to_depth_pose.cpp:92-116).
LEMMA RateStep ==
    ASSUME IInv, NEW depth \in Int, NEW stamp \in Nat,
           NEW remaining \in 0 .. VarianceSamples, Publish(depth, stamp, remaining),
           NEW time \in Nat, stamp > 0 => time = stamp,
           param' = param,
           param.enable_depth_gate => NearAccepted(depth, time) \/ ~have_accepted_sample
    PROVE  PublishedRateBounded'
<1> SUFFICES ASSUME param.enable_depth_gate, Len(published') = 2
             PROVE  LET m1 == published'[1]
                        m2 == published'[2]
                        bothStamped == m1.stamp > 0 /\ m2.stamp > 0
                    IN  /\ bothStamped => m1.stamp < m2.stamp
                        /\ Distance(m1.z, m2.z) <=
                             AllowedDelta(IF bothStamped THEN m2.stamp - m1.stamp
                                          ELSE MaxRateDt)
  BY DEF PublishedRateBounded
<1> DEFINE last == Last(published)
<1>1. /\ published # <<>> /\ published'[1] = last
      /\ published'[2].z = DepthOffset - (depth - reference_depth)
      /\ published'[2].stamp = stamp
  <2>1. /\ published # <<>> /\ published'[1] = Last(published)
        /\ published'[2] = Last(published') /\ reference_depth' = reference_depth
    BY PublishStep
  <2>2. /\ Last(published').z = DepthOffset - (depth - reference_depth')
        /\ Last(published').stamp = stamp
    BY PublishStep
  <2> QED
    BY <2>1, <2>2
<1>2. /\ last.z = DepthOffset - (last.depth - reference_depth)
      /\ last.depth = last_accepted_depth
      /\ last.stamp > 0 => last.stamp = last_accepted_time
      /\ have_accepted_sample
  BY <1>1 DEF IInv, Parts, FrameInv, GateInv
<1>3. last \in Message
  BY <1>1 DEF IInv, TypeOK, Last
<1>4. /\ last.stamp \in Nat /\ last.depth \in Int /\ reference_depth \in Int
      /\ DepthOffset \in Int /\ last_accepted_time \in Nat
  BY <1>3, NodeAssumption DEF NodeAssumption, IInv, TypeOK, GateTypeOK, Message
<1> HIDE DEF last
<1>5. /\ time > last_accepted_time
      /\ Distance(depth, last.depth) <= AllowedDelta(time - last_accepted_time)
  BY <1>2 DEF NearAccepted
<1>6. Distance(last.z, published'[2].z) = Distance(depth, last.depth)
  BY <1>1, <1>2, <1>4 DEF Distance
<1>7. AllowedDelta(time - last_accepted_time) <= AllowedDelta(MaxRateDt)
      /\ AllowedDelta(time - last_accepted_time) \in Nat /\ AllowedDelta(MaxRateDt) \in Nat
  <2>1. time - last_accepted_time \in Nat
    BY <1>4, <1>5
  <2> QED
    BY <2>1, Allowance
<1>8. CASE last.stamp > 0 /\ stamp > 0
  <2>1. time - last_accepted_time = stamp - last.stamp /\ last.stamp < stamp
    BY <1>2, <1>5, <1>8
  <2> QED
    BY <1>1, <1>5, <1>6, <1>8, <2>1
<1>9. CASE ~(last.stamp > 0 /\ stamp > 0)
  <2>1. Distance(depth, last.depth) \in Int
    BY <1>4 DEF Distance
  <2>2. Distance(depth, last.depth) <= AllowedDelta(MaxRateDt)
    BY <1>5, <1>7, <2>1
  <2> QED
    BY <1>1, <1>6, <1>9, <2>2
<1> QED
  BY <1>8, <1>9

\* A message that goes out through the gate or past it: what is left to show is
\* the gate's part.
LEMMA OutStep ==
    ASSUME IInv, NEW depth \in Int, NEW stamp \in Nat,
           NEW remaining \in 0 .. VarianceSamples, Publish(depth, stamp, remaining),
           NEW time \in Nat, stamp > 0 => time = stamp,
           remaining = IF interrupted THEN VarianceSamples ELSE variance_ramp_remaining,
           param.enable_depth_gate => NearAccepted(depth, time) \/ ~have_accepted_sample,
           param.enable_depth_gate =>
             /\ have_accepted_sample' = TRUE /\ recovering' = FALSE
             /\ last_accepted_depth' = depth /\ last_accepted_time' = time,
           GateTypeOK', UNCHANGED <<param, now, respawns>>
    PROVE  IInv'
<1>1. TypeOK'
  <2>1. interrupted' \in BOOLEAN
    BY PublishStep
  <2>2. /\ have_reference' \in BOOLEAN /\ reference_depth' \in Int
        /\ variance_ramp_remaining' \in 0 .. VarianceSamples
        /\ published' \in Seq(Message) /\ Len(published') <= 2
        /\ since' \in 1 .. VarianceSamples + 1 /\ start_depth' \subseteq Int
    BY PublishStep
  <2>3. param' \in Params /\ now' \in Nat \ {0} /\ respawns' \in 0 .. MaxRespawns
    BY DEF IInv, TypeOK
  <2> QED
    BY <2>1, <2>2, <2>3 DEF TypeOK
<1>2. GateInv'
  <2>1. /\ published' # <<>> /\ interrupted' = FALSE
        /\ Last(published').depth = depth /\ Last(published').stamp = stamp
    BY PublishStep
  <2>2. param' = param
    OBVIOUS
  <2> QED
    BY <2>1, <2>2 DEF GateInv
<1>3. FrameInv'
  BY PublishStep
<1>4. FrameFixed'
  BY FrameStep
<1>5. RampInv' /\ RampFollowsInterruption'
  BY RampStep
<1>6. PublishedRateBounded'
  BY RateStep
<1> QED
  BY <1>1, <1>2, <1>3, <1>4, <1>5, <1>6 DEF IInv, Parts

\* handle_msg (pressure_to_depth_pose.cpp:70-165).
LEMMA HandleStep ==
    ASSUME IInv, NEW pressure \in Pressures \cup {NonFinite},
           NEW stamp \in 0 .. now + MaxSkew, HandleMsg(pressure, stamp)
    PROVE  IInv'
<1> DEFINE depth == DepthOf(pressure)
           time == SampleTime(stamp)
<1>1. UNCHANGED <<param, now, respawns>>
  BY DEF HandleMsg
<1>2. pressure # NonFinite =>
        /\ depth \in Int /\ stamp \in Nat /\ time \in Nat /\ time > 0
        /\ stamp > 0 => time = stamp
  BY InputType DEF IInv
<1>3. variance_ramp_remaining \in 0 .. VarianceSamples
      /\ VarianceSamples \in 0 .. VarianceSamples
  BY NodeAssumption DEF NodeAssumption, IInv, TypeOK
<1>4. GateTypeOK
  BY DEF IInv, TypeOK
<1>5. CASE SkipNonFinite(pressure, stamp)
  BY <1>1, <1>5
     DEF SkipNonFinite, gateVars, recoveryVars, acceptedVars, nodeVars, referenceVars,
         historyVars, IInv, Parts, TypeOK, GateTypeOK, FrameInv, RampInv, GateInv,
         PublishedRateBounded, RampFollowsInterruption, FrameFixed
<1>6. CASE DropSample(pressure, stamp)
  <2>1. /\ pressure # NonFinite /\ param.enable_depth_gate /\ Withhold(depth, time)
        /\ interrupted' = TRUE
        /\ UNCHANGED <<have_reference, reference_depth, variance_ramp_remaining,
                       published, since, start_depth>>
    BY <1>6 DEF DropSample, referenceVars
  <2>2. /\ have_accepted_sample /\ recovering' = TRUE
        /\ UNCHANGED <<have_accepted_sample, last_accepted_depth, last_accepted_time>>
    BY <1>2, <2>1, Withheld DEF IInv
  <2>3. GateTypeOK'
    BY <1>2, <1>4, <2>1, GateTypeStep DEF Update
  <2>4. interrupted' \in BOOLEAN
    BY <2>1
  <2>5. TypeOK'
    BY <1>1, <2>1, <2>3, <2>4 DEF IInv, TypeOK
  <2>6. GateInv'
    BY <1>1, <2>1, <2>2 DEF IInv, Parts, GateInv
  <2>7. FrameInv' /\ RampInv' /\ FrameFixed' /\ RampFollowsInterruption'
    BY <2>1 DEF IInv, Parts, FrameInv, RampInv, FrameFixed, RampFollowsInterruption
  <2>8. PublishedRateBounded'
    BY <1>1, <2>1 DEF IInv, PublishedRateBounded
  <2> QED
    BY <2>5, <2>6, <2>7, <2>8 DEF IInv, Parts
<1>7. CASE ForwardSample(pressure, stamp)
  <2>1. /\ pressure # NonFinite /\ param.enable_depth_gate
        /\ AcceptFirst(depth, time) \/ AcceptPlausible(depth, time)
        /\ Publish(depth, stamp, variance_ramp_remaining)
    BY <1>7 DEF ForwardSample
  <2>2. (~recovering /\ NearAccepted(depth, time)) \/ ~have_accepted_sample
    BY <2>1 DEF AcceptFirst, AcceptPlausible, Plausible, IInv, Parts, GateInv
  <2>3. ~recovering /\ ~interrupted
    BY <2>1 DEF AcceptFirst, AcceptPlausible, IInv, Parts, GateInv
  <2>4. /\ have_accepted_sample' = TRUE /\ last_accepted_depth' = depth
        /\ last_accepted_time' = time /\ recovering' = recovering
    BY <2>1 DEF AcceptFirst, AcceptPlausible, AcceptSample, recoveryVars
  <2>5. recovering' = FALSE
    BY <2>3, <2>4, <1>4 DEF GateTypeOK
  <2>6. GateTypeOK'
    BY <1>2, <1>4, <2>1, GateTypeStep DEF Update
  <2> HIDE DEF depth, time
  <2> QED
    BY <1>1, <1>2, <1>3, <2>1, <2>2, <2>3, <2>4, <2>5, <2>6, OutStep
<1>8. CASE ForwardReacquired(pressure, stamp)
  <2>1. /\ pressure # NonFinite /\ param.enable_depth_gate /\ Reacquire(depth, time)
        /\ Publish(depth, stamp, VarianceSamples)
    BY <1>8 DEF ForwardReacquired
  <2>2. NearAccepted(depth, time) /\ interrupted
    BY <2>1 DEF Reacquire, Plausible, IInv, Parts, GateInv
  <2>3. /\ have_accepted_sample' = TRUE /\ last_accepted_depth' = depth
        /\ last_accepted_time' = time /\ recovering' = FALSE
    BY <2>1 DEF Reacquire, AcceptSample
  <2>4. GateTypeOK'
    BY <1>2, <1>4, <2>1, GateTypeStep DEF Update
  <2> HIDE DEF depth, time
  <2> QED
    BY <1>1, <1>2, <1>3, <2>1, <2>2, <2>3, <2>4, OutStep
<1>9. CASE ForwardUngated(pressure, stamp)
  <2>1. /\ pressure # NonFinite /\ ~param.enable_depth_gate
        /\ Publish(depth, stamp, variance_ramp_remaining)
    BY <1>9 DEF ForwardUngated
  <2>2. ~interrupted
    BY <2>1 DEF IInv, Parts, GateInv
  <2>3. GateTypeOK'
    BY <1>4, <1>9 DEF ForwardUngated, gateVars, recoveryVars, acceptedVars, GateTypeOK
  <2> HIDE DEF depth, time
  <2> QED
    BY <1>1, <1>2, <1>3, <2>1, <2>2, <2>3, OutStep
<1> HIDE DEF depth, time
<1> QED
  BY <1>5, <1>6, <1>7, <1>8, <1>9 DEF HandleMsg

\* A fresh process (rov_start.launch.py:530-535).
Started ==
    /\ GateInit
    /\ have_reference = FALSE /\ reference_depth = 0
    /\ variance_ramp_remaining = 0 /\ published = <<>>
    /\ interrupted = FALSE /\ since = VarianceSamples + 1
    /\ param \in Params /\ now \in Nat \ {0} /\ respawns \in 0 .. MaxRespawns
    /\ start_depth \subseteq Int

LEMMA FreshProcess == Started => IInv
<1> SUFFICES ASSUME Started PROVE IInv
  OBVIOUS
<1> USE GateAssumption, NodeAssumption DEF GateAssumption, NodeAssumption
<1>1. {have_accepted_sample, recovering, have_recovery_candidate, have_reference,
       interrupted} \subseteq BOOLEAN
  BY DEF Started, GateInit
<1>2. result \in [decision : Decisions, reacquired : BOOLEAN]
  BY DEF Started, GateInit, Decisions
<1>3. published \in Seq(Message) /\ Len(published) = 0
  BY DEF Started
<1>4. TypeOK
  BY <1>1, <1>2, <1>3 DEF Started, GateInit, TypeOK, GateTypeOK
<1>5. FrameInv /\ RampInv
  BY DEF Started, FrameInv, RampInv, Greater
<1>6. GateInv
  BY DEF Started, GateInit, GateInv
<1>7. PublishedRateBounded /\ RampFollowsInterruption /\ FrameFixed
  BY <1>3 DEF Started, PublishedRateBounded, RampFollowsInterruption, FrameFixed
<1> QED
  BY <1>4, <1>5, <1>6, <1>7 DEF IInv, Parts

\* The inductive invariant.
THEOREM Invariance == Spec => []IInv
<1>1. Init => IInv
  <2>1. Init => Started
    BY NodeAssumption DEF NodeAssumption, Init, Started
  <2> QED
    BY <2>1, FreshProcess
<1>2. IInv /\ [Next]_vars => IInv'
  <2> SUFFICES ASSUME IInv, [Next]_vars PROVE IInv'
    OBVIOUS
  <2>1. CASE UNCHANGED vars
    BY <2>1
       DEF vars, gateVars, recoveryVars, acceptedVars, nodeVars, referenceVars,
           historyVars, IInv, Parts, TypeOK, GateTypeOK, FrameInv, RampInv, GateInv,
           PublishedRateBounded, RampFollowsInterruption, FrameFixed
  <2>2. ASSUME NEW pressure \in Pressures \cup {NonFinite},
               NEW stamp \in 0 .. now + MaxSkew, HandleMsg(pressure, stamp)
        PROVE  IInv'
    BY <2>2, HandleStep
  <2>3. CASE Tick
    <3>1. now' \in Nat \ {0}
      BY <2>3 DEF Tick, IInv, TypeOK
    <3> QED
      BY <2>3, <3>1
         DEF Tick, gateVars, recoveryVars, acceptedVars, nodeVars, referenceVars,
             historyVars, IInv, Parts, TypeOK, GateTypeOK, FrameInv, RampInv, GateInv,
             PublishedRateBounded, RampFollowsInterruption, FrameFixed
  <2>4. CASE Respawn
    <3>1. respawns' \in 0 .. MaxRespawns
      BY <2>4, NodeAssumption DEF NodeAssumption, Respawn, IInv, TypeOK
    <3>2. param' \in Params /\ now' \in Nat \ {0} /\ start_depth' \subseteq Int
      BY <2>4 DEF Respawn, IInv, TypeOK
    <3>3. Started'
      BY <2>4, <3>1, <3>2 DEF Respawn, Return, Started, GateInit
    <3>4. Started' => IInv'
      BY FreshProcess, PTL
    <3> QED
      BY <3>3, <3>4
  <2> QED
    BY <2>1, <2>2, <2>3, <2>4 DEF Next
<1> QED
  BY <1>1, <1>2, PTL DEF Spec

\* For all settings the state is well typed, and the variance ramp never exceeds
\* its length.
THEOREM TypeCorrectness == Spec => []TypeOK
<1>1. IInv => TypeOK
  BY DEF IInv
<1> QED
  BY <1>1, Invariance, PTL

\* pressure_to_depth_pose.cpp:92-116, 132-135: two messages in a row never step
\* farther than the vehicle can move, and stamps advance.
THEOREM BoundedSteps == Spec => []PublishedRateBounded
<1>1. IInv => PublishedRateBounded
  BY DEF IInv
<1> QED
  BY <1>1, Invariance, PTL

\* pressure_to_depth_pose.cpp:118-147: the variance of a message is what its place
\* after the last interruption asks for.
THEOREM RampIsFollowed == Spec => []RampFollowsInterruption
<1>1. IInv => RampFollowsInterruption
  BY DEF IInv
<1> QED
  BY <1>1, Invariance, PTL

\* pressure_to_depth_pose.cpp:127-135: one process reports in one frame.
THEOREM OneFrame == Spec => []FrameFixed
<1>1. IInv => FrameFixed
  BY DEF IInv
<1> QED
  BY <1>1, Invariance, PTL
-----------------------------------------------------------------------------
\* What the estimator gets from the node: the vertical position sent last, at the time
\* its sample was judged by; nothing before the first message of a process.
PoseSignal ==
    IF published = <<>> THEN [value |-> 0, time |-> 0]
    ELSE [value |-> Last(published).z, time |-> last_accepted_time]

Pose == INSTANCE RateBoundedSignal WITH
    Values <- Int, Times <- Nat, Tolerance <- JumpTolerance,
    Rate <- MaxVerticalSpeed, MaxDt <- MaxRateDt, signal <- PoseSignal

\* A message that goes out through the gate is a step of the abstract signal: the
\* frame does not move between two messages, so the positions differ by what the
\* depths do (pressure_to_depth_pose.cpp:92-135).
LEMMA ReceiveStep ==
    ASSUME IInv, NEW depth \in Int, NEW stamp \in Nat, NEW time \in Nat, time > 0,
           NEW remaining \in 0 .. VarianceSamples, Publish(depth, stamp, remaining),
           param.enable_depth_gate,
           NearAccepted(depth, time) \/ ~have_accepted_sample,
           last_accepted_time' = time
    PROVE  Pose!Next
<1> USE GateAssumption, NodeAssumption DEF GateAssumption, NodeAssumption
<1> DEFINE z == Last(published').z
<1>1. /\ published' # <<>> /\ z = DepthOffset - (depth - reference_depth')
      /\ reference_depth' \in Int
  BY PublishStep
<1>2. z \in Int
  BY <1>1
<1>3. PoseSignal' = [value |-> z, time |-> time]
  BY <1>1 DEF PoseSignal
<1>4. Pose!Follows(z, time)
  <2>1. CASE published = <<>>
    BY <2>1 DEF PoseSignal, Pose!Follows, Pose!Nothing
  <2>2. CASE published # <<>>
    <3>1. /\ have_reference /\ have_accepted_sample
          /\ Last(published).z = DepthOffset - (Last(published).depth - reference_depth)
          /\ Last(published).depth = last_accepted_depth
      BY <2>2 DEF IInv, Parts, FrameInv, GateInv
    <3>2. reference_depth' = reference_depth
      BY <3>1 DEF Publish, ReferenceFor
    <3>3. /\ last_accepted_depth \in Int /\ last_accepted_time \in Nat
          /\ reference_depth \in Int
      BY DEF IInv, TypeOK, GateTypeOK
    <3>4. Distance(z, Last(published).z) = Distance(depth, last_accepted_depth)
      BY <1>1, <3>1, <3>2, <3>3 DEF Distance
    <3>5. /\ time > last_accepted_time
          /\ Distance(depth, last_accepted_depth)
               <= RateBound(JumpTolerance, MaxVerticalSpeed, MaxRateDt,
                            time - last_accepted_time)
      BY <3>1 DEF NearAccepted, AllowedDelta
    <3>6. PoseSignal.value = Last(published).z /\ PoseSignal.time = last_accepted_time
      BY <2>2 DEF PoseSignal
    <3> HIDE DEF z
    <3> QED
      BY <3>4, <3>5, <3>6 DEF Pose!Follows, Pose!Distance, Pose!RateBound, Pose!Lesser,
         Distance, RateBound, Lesser
  <2> QED
    BY <2>1, <2>2
<1> HIDE DEF z
<1>5. Pose!Receive(z, time)
  BY <1>3, <1>4 DEF Pose!Receive
<1> QED
  BY <1>2, <1>5 DEF Pose!Next

\* One message with the gate on.
LEMMA PoseStep ==
    ASSUME IInv, param.enable_depth_gate, NEW pressure \in Pressures \cup {NonFinite},
           NEW stamp \in 0 .. now + MaxSkew, HandleMsg(pressure, stamp)
    PROVE  Pose!Next \/ UNCHANGED PoseSignal
<1> DEFINE depth == DepthOf(pressure)
           time == SampleTime(stamp)
<1>1. pressure # NonFinite =>
        depth \in Int /\ stamp \in Nat /\ time \in Nat /\ time > 0
  BY InputType DEF IInv
<1>2. variance_ramp_remaining \in 0 .. VarianceSamples
      /\ VarianceSamples \in 0 .. VarianceSamples
  BY NodeAssumption DEF NodeAssumption, IInv, TypeOK
<1>3. CASE SkipNonFinite(pressure, stamp)
  BY <1>3 DEF SkipNonFinite, gateVars, acceptedVars, nodeVars, PoseSignal
<1>4. CASE DropSample(pressure, stamp)
  <2>1. /\ pressure # NonFinite /\ Withhold(depth, time) /\ published' = published
    BY <1>4 DEF DropSample
  <2>2. last_accepted_time' = last_accepted_time
    BY <1>1, <2>1, Withheld DEF IInv
  <2> QED
    BY <2>1, <2>2 DEF PoseSignal
<1>5. CASE ForwardSample(pressure, stamp)
  <2>1. /\ pressure # NonFinite
        /\ AcceptFirst(depth, time) \/ AcceptPlausible(depth, time)
        /\ Publish(depth, stamp, variance_ramp_remaining)
    BY <1>5 DEF ForwardSample
  <2>2. /\ NearAccepted(depth, time) \/ ~have_accepted_sample
        /\ last_accepted_time' = time
    BY <2>1 DEF AcceptFirst, AcceptPlausible, Plausible, AcceptSample
  <2> HIDE DEF depth, time
  <2> QED
    BY <1>1, <1>2, <2>1, <2>2, ReceiveStep
<1>6. CASE ForwardReacquired(pressure, stamp)
  <2>1. /\ pressure # NonFinite /\ Reacquire(depth, time)
        /\ Publish(depth, stamp, VarianceSamples)
    BY <1>6 DEF ForwardReacquired
  <2>2. NearAccepted(depth, time) /\ last_accepted_time' = time
    BY <2>1 DEF Reacquire, Plausible, AcceptSample
  <2> HIDE DEF depth, time
  <2> QED
    BY <1>1, <1>2, <2>1, <2>2, ReceiveStep
<1>7. ~ForwardUngated(pressure, stamp)
  BY DEF ForwardUngated
<1> HIDE DEF depth, time
<1> QED
  BY <1>3, <1>4, <1>5, <1>6, <1>7 DEF HandleMsg

\* pressure_to_depth_pose.cpp:92-135 and rov_start.launch.py:530-535: with the gate on,
\* the stream of poses is a rate-bounded signal, message by message and across any
\* number of rejections and recoveries, which a new process begins afresh.
THEOREM PoseIsRateBounded == Spec /\ param.enable_depth_gate => Pose!Spec
<1> DEFINE Gated == param.enable_depth_gate
<1>1. Init => Pose!Init
  BY DEF Init, PoseSignal, Pose!Init, Pose!Nothing
<1>2. Gated /\ [Next]_vars => Gated'
  BY DEF Next, HandleMsg, Tick, Respawn, vars
<1>3. IInv /\ Gated /\ [Next]_vars => [Pose!Next]_PoseSignal
  <2> SUFFICES ASSUME IInv, Gated, [Next]_vars
               PROVE  Pose!Next \/ UNCHANGED PoseSignal
    OBVIOUS
  <2>1. CASE UNCHANGED vars
    BY <2>1 DEF vars, gateVars, acceptedVars, nodeVars, PoseSignal
  <2>2. ASSUME NEW pressure \in Pressures \cup {NonFinite},
               NEW stamp \in 0 .. now + MaxSkew, HandleMsg(pressure, stamp)
        PROVE  Pose!Next \/ UNCHANGED PoseSignal
    BY <2>2, PoseStep
  <2>3. CASE Tick
    BY <2>3 DEF Tick, gateVars, acceptedVars, nodeVars, PoseSignal
  <2>4. CASE Respawn
    BY <2>4 DEF Respawn, PoseSignal, Pose!Next, Pose!Restart, Pose!Nothing
  <2> QED
    BY <2>1, <2>2, <2>3, <2>4 DEF Next
<1> HIDE DEF Gated
<1>4. Spec /\ Gated => Pose!Spec
  BY <1>1, <1>2, <1>3, Invariance, PTL DEF Spec, Pose!Spec
<1> QED
  BY <1>4 DEF Gated
-----------------------------------------------------------------------------
\* In the first process the zero of depth is the depth it was started at.
StartInv ==
    (respawns = 0 /\ param.zero_at_start) =>
      IF published = <<>> THEN start_depth = {} /\ ~have_reference
      ELSE start_depth = {reference_depth} /\ have_reference

LEMMA StartStep ==
    ASSUME IInv, StartInv, NEW depth \in Int, NEW stamp \in Nat,
           NEW remaining \in 0 .. VarianceSamples, Publish(depth, stamp, remaining),
           UNCHANGED <<param, respawns>>
    PROVE  StartInv'
<1> SUFFICES ASSUME respawns = 0, param.zero_at_start
             PROVE  /\ published' # <<>>
                    /\ start_depth' = {reference_depth'} /\ have_reference'
  BY DEF StartInv
<1>1. published' # <<>> /\ have_reference' = TRUE
  BY PublishStep DEF Publish
<1>2. /\ reference_depth' = IF have_reference THEN reference_depth ELSE depth
      /\ start_depth' = IF start_depth = {} THEN {depth} ELSE start_depth
  BY DEF Publish, ReferenceFor
<1>3. IF published = <<>> THEN start_depth = {} /\ ~have_reference
      ELSE start_depth = {reference_depth} /\ have_reference
  BY DEF StartInv
<1>4. start_depth' = {reference_depth'}
  BY <1>2, <1>3
<1> QED
  BY <1>1, <1>4

\* The other side of the disagreement with README.md:150: as long as the process has
\* not been respawned, a depth below the start is reported as a negative position,
\* whatever was rejected in between.  It takes a respawn to move the zero
\* (pressure_to_depth_pose.cpp:127-135, rov_start.launch.py:530-535).
THEOREM DownIsNegativeUntilRespawn == Spec => [](respawns = 0 => DownIsNegative)
<1>1. Init => StartInv
  BY DEF Init, StartInv
<1>2. IInv /\ StartInv /\ [Next]_vars => StartInv'
  <2> SUFFICES ASSUME IInv, StartInv, [Next]_vars PROVE StartInv'
    OBVIOUS
  <2>1. CASE UNCHANGED vars
    BY <2>1 DEF vars, nodeVars, referenceVars, historyVars, StartInv
  <2>2. ASSUME NEW pressure \in Pressures \cup {NonFinite},
               NEW stamp \in 0 .. now + MaxSkew, HandleMsg(pressure, stamp)
        PROVE  StartInv'
    <3>1. UNCHANGED <<param, respawns>>
      BY <2>2 DEF HandleMsg
    <3>2. CASE SkipNonFinite(pressure, stamp) \/ DropSample(pressure, stamp)
      BY <3>1, <3>2
         DEF SkipNonFinite, DropSample, nodeVars, referenceVars, historyVars, StartInv
    <3>3. ASSUME pressure # NonFinite,
                 NEW remaining \in 0 .. VarianceSamples,
                 Publish(DepthOf(pressure), stamp, remaining)
          PROVE  StartInv'
      <4>1. DepthOf(pressure) \in Int /\ stamp \in Nat
        BY <3>3, InputType DEF IInv
      <4> QED
        BY <3>1, <3>3, <4>1, StartStep
    <3>4. /\ variance_ramp_remaining \in 0 .. VarianceSamples
          /\ VarianceSamples \in 0 .. VarianceSamples
      BY NodeAssumption DEF NodeAssumption, IInv, TypeOK
    <3>5. CASE \/ ForwardSample(pressure, stamp)
               \/ ForwardReacquired(pressure, stamp)
               \/ ForwardUngated(pressure, stamp)
      BY <3>3, <3>4, <3>5 DEF ForwardSample, ForwardReacquired, ForwardUngated
    <3> QED
      BY <2>2, <3>2, <3>5 DEF HandleMsg
  <2>3. CASE Tick
    BY <2>3 DEF Tick, nodeVars, referenceVars, historyVars, StartInv
  <2>4. CASE Respawn
    <3>1. respawns' # 0
      BY <2>4 DEF Respawn, IInv, TypeOK
    <3> QED
      BY <3>1 DEF StartInv
  <2> QED
    BY <2>1, <2>2, <2>3, <2>4 DEF Next
<1>3. IInv /\ StartInv => (respawns = 0 => DownIsNegative)
  <2> SUFFICES ASSUME IInv, StartInv, respawns = 0, param.zero_at_start,
                      published # <<>>, NEW start \in start_depth,
                      Last(published).depth > start
               PROVE  Last(published).z < DepthOffset
    BY DEF DownIsNegative
  <2>1. start = reference_depth /\ reference_depth \in Int
    BY DEF StartInv, IInv, TypeOK
  <2>2. Last(published).z = DepthOffset - (Last(published).depth - reference_depth)
    BY DEF IInv, Parts, FrameInv
  <2>3. Last(published).depth \in Int
    <3>1. published \in Seq(Message) /\ Last(published) = published[Len(published)]
      BY DEF IInv, TypeOK, Last
    <3>2. Len(published) \in 1 .. Len(published)
      BY <3>1
    <3>3. published[Len(published)] \in Message
      BY <3>1, <3>2
    <3> QED
      BY <3>1, <3>3 DEF Message
  <2> QED
    BY <2>1, <2>2, <2>3, NodeAssumption DEF NodeAssumption
<1> QED
  BY <1>1, <1>2, <1>3, Invariance, PTL DEF Spec
=============================================================================
