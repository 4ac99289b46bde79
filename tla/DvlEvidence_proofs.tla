------------------------- MODULE DvlEvidence_proofs -------------------------
(***************************************************************************)
(* For every setting of the gates and of the reacquisition, any messages   *)
(* and stamps: the DVL bridge publishes on top of the evidence asked for,  *)
(* holds no more than that, and its stream steps no farther than the       *)
(* acceleration allows.                                                    *)
(***************************************************************************)
EXTENDS DvlEvidence, WellFoundedInduction, TLAPS

\* Every message the bridge has counted is one of the row the observer has counted,
\* and the gate compares the next one with the last of that row.
CountInv ==
    /\ NoReacquisition => consecutive_good_samples = 0
    /\ consecutive_good_samples <= run
    /\ run_start \in 0 .. now
    /\ consecutive_good_samples > 0 =>
         /\ run_start <= first_good_time
         /\ accepted = previous /\ accepted.time > 0

\* The bridge has counted every message it holds, from the first of them on.
HoldInv ==
    /\ held_start \in 0 .. now
    /\ held > 0 => /\ held <= consecutive_good_samples
                   /\ first_good_time <= held_start

\* Enough good messages, over a long enough time.
Satisfied ==
    \/ NoReacquisition
    \/ /\ consecutive_good_samples >= SamplesWanted
       /\ \/ param.reacquire_duration <= 0
          \/ now - first_good_time >= param.reacquire_duration

\* Until the next loss the gate compares with what was published last, and nothing
\* is held.
StreamInv ==
    (since >= 1 /\ published # NoTwist) =>
      /\ accepted.velocity = published.velocity /\ accepted.time = published.time
      /\ accepted.time > 0
      /\ Satisfied

Parts == CountInv /\ HoldInv /\ StreamInv
IInv == TypeOK /\ Parts /\ PublishNeedsEvidence /\ HoldsAreJustified

\* The settings.
LEMMA Settings ==
    ASSUME TypeOK
    PROVE  /\ param.reacquire_good_samples \in Int /\ param.reacquire_duration \in Int
           /\ SamplesWanted \in Nat \ {0}
           /\ NoReacquisition => SamplesWanted = 1 /\ param.reacquire_duration <= 0
  BY BridgeAssumption
     DEF BridgeAssumption, TypeOK, SamplesWanted, NoReacquisition, Greater

\* The observer counts past the ramp and past the second message.
LEMMA Cap == SinceCap \in Nat /\ SinceCap >= 2 /\ SinceCap > SampleCount
  BY RampAssumption DEF RampAssumption, SinceCap, Greater

\* The ramp's state (covariance_recovery_ramp.hpp:24-58).
LEMMA RampType ==
    /\ Triggered \in [stage : 0 .. SampleCount, current_variance : Nat]
    /\ Idle \in [stage : 0 .. SampleCount, current_variance : Nat]
    /\ \A r \in [stage : 0 .. SampleCount, current_variance : Nat] :
         AdvancedIfActive(r) \in [stage : 0 .. SampleCount, current_variance : Nat]
<1> USE RampAssumption DEF RampAssumption
<1>1. Triggered \in [stage : 0 .. SampleCount, current_variance : Nat]
  BY DEF Triggered, Lesser
<1>2. Idle \in [stage : 0 .. SampleCount, current_variance : Nat]
  BY DEF Idle
<1>3. ASSUME NEW r \in [stage : 0 .. SampleCount, current_variance : Nat]
      PROVE  AdvancedIfActive(r) \in [stage : 0 .. SampleCount, current_variance : Nat]
  <2>1. r.current_variance * DecayNum \in Nat
    OBVIOUS
  <2>2. Decay(r.current_variance) \in Nat
    BY <2>1 DEF Decay
  <2> QED
    BY <2>2 DEF AdvancedIfActive, Active, Advanced
<1> QED
  BY <1>1, <1>2, <1>3

\* What the checks of a message say that is passed on or held
\* (dvl_to_twist_bridge.cpp:104-169, velocity_sample_gate.hpp:60-99).
LEMMA Accepted ==
    ASSUME TypeOK, NEW msg \in Messages, NEW time \in Nat, Acceptable(msg, time)
    PROVE  /\ msg.velocity \in Vectors /\ GoodOnItsOwn(msg, time) /\ time > 0
           /\ ~AfterGap(time) /\ accepted.time > 0 =>
                time > accepted.time /\ WithinRate(accepted, msg.velocity, time)
<1> DEFINE before == GateBefore(time)
<1>1. msg.velocity # NonFinite
  BY DEF Acceptable, GoodQuality, ValidMeasurement
<1>2. msg.velocity \in Vectors
  BY <1>1, BridgeAssumption DEF BridgeAssumption, MessageType
<1>3. before.time \in Nat
  BY DEF GateBefore, NoSample, TypeOK, Sample
<1>4. /\ ~TooFast(msg.velocity) /\ ~(time <= before.time)
      /\ before = NoSample \/ WithinRate(before, msg.velocity, time)
  BY <1>1 DEF Acceptable, GateVerdict, Decision
<1>5. time > before.time
  BY <1>3, <1>4
<1>6. GoodOnItsOwn(msg, time)
  BY <1>3, <1>4, <1>5 DEF GoodOnItsOwn, Acceptable
<1>7. ~AfterGap(time) => before = accepted
  BY DEF GateBefore
<1>8. accepted.time > 0 => accepted # NoSample
  BY DEF NoSample
<1> HIDE DEF before
<1> QED
  BY <1>2, <1>3, <1>4, <1>5, <1>6, <1>7, <1>8

\* The gate's verdicts that reach the bridge.
LEMMA Verdicts ==
    ASSUME NEW msg \in Messages, NEW time, GoodQuality(msg),
           GateVerdict(msg, time) # "ACCEPT"
    PROVE  GateVerdict(msg, time) \in {"REJECT_SPEED", "REJECT_TIME", "REJECT_RATE"}
  BY DEF GateVerdict, Decision, GoodQuality, ValidMeasurement

\* What the observer keeps (a function of the message and of how it ended).
LEMMA ObserverType ==
    ASSUME TypeOK, CountInv, HoldInv, NEW msg \in Messages, NEW time \in Nat,
           Observe(msg, time), UNCHANGED <<param, now>>
    PROVE  /\ previous' \in Sample /\ run' \in 0 .. SamplesWanted
           /\ held' \in 0 .. SamplesWanted /\ since' \in 0 .. SinceCap
           /\ run_start' \in 0 .. now /\ held_start' \in 0 .. now
<1>1. previous' \in Sample
  <2>1. GoodOnItsOwn(msg, time) => msg.velocity \in Vectors
    BY BridgeAssumption
       DEF BridgeAssumption, MessageType, GoodOnItsOwn, GoodQuality, ValidMeasurement
  <2>2. NoSample \in Sample
    BY DEF NoSample, Sample, Vectors
  <2> QED
    BY <2>1, <2>2 DEF Observe, Sample
<1>2. run' \in 0 .. SamplesWanted
  BY Settings DEF Observe, TypeOK, Lesser
<1>3. held' \in 0 .. SamplesWanted
  BY Settings DEF Observe, TypeOK, Lesser
<1>4. since' \in 0 .. SinceCap
  BY Cap DEF Observe, TypeOK, Lesser
<1>5. run_start' \in 0 .. now
  BY DEF Observe, TypeOK, CountInv
<1>6. held_start' \in 0 .. now
  BY DEF Observe, TypeOK, HoldInv
<1> QED
  BY <1>1, <1>2, <1>3, <1>4, <1>5, <1>6

\* A rejection, of whatever kind (dvl_to_twist_bridge.cpp:122-140, 171-180).
LEMMA RejectStep ==
    ASSUME IInv, NEW msg \in Messages, NEW time \in Nat,
           RejectQuality(msg, time) \/ RejectPhysics(msg, time)
             \/ RejectCovariance(msg, time),
           Observe(msg, time), UNCHANGED <<param, now, respawns>>
    PROVE  IInv'
<1> USE DEF IInv
<1>1. /\ consecutive_good_samples' = 0 /\ first_good_time' = 0 /\ ramp' = Triggered
      /\ published' = published
  BY DEF RejectQuality, RejectPhysics, RejectCovariance, RestartReacquisition
<1>2. exit' \in {"REJECT_QUALITY", "REJECT_COVARIANCE", "REJECT_SPEED", "REJECT_TIME",
                 "REJECT_RATE"}
  BY Verdicts DEF RejectQuality, RejectPhysics, RejectCovariance
<1>3. accepted' \in Sample
  <2>1. NoSample \in Sample
    BY DEF NoSample, Sample, Vectors
  <2>2. accepted' \in {NoSample, accepted}
    BY DEF RejectQuality, RejectPhysics, RejectCovariance, GateBefore
  <2> QED
    BY <2>1, <2>2 DEF TypeOK
<1>4. last_quality_sample_time' \in Nat
  BY DEF RejectQuality, RejectPhysics, RejectCovariance, NoteQuality, Greater, TypeOK
<1>5. held' = 0 /\ since' = 0
  BY <1>2 DEF Observe, Lost
<1>6. /\ previous' \in Sample /\ run' \in 0 .. SamplesWanted
      /\ held' \in 0 .. SamplesWanted /\ since' \in 0 .. SinceCap
      /\ run_start' \in 0 .. now /\ held_start' \in 0 .. now
  BY ObserverType DEF Parts
<1>7. SamplesWanted' = SamplesWanted /\ SamplesWanted \in Nat \ {0}
  BY Settings DEF SamplesWanted
<1>8. TypeOK'
  <2>1. consecutive_good_samples' \in 0 .. SamplesWanted'
    BY <1>1, <1>7
  <2>2. now' = now /\ now \in Nat /\ first_good_time' \in 0 .. now'
    BY <1>1 DEF TypeOK
  <2>3. exit' \in Exits
    BY <1>2 DEF Exits
  <2>4. ramp' \in [stage : 0 .. SampleCount, current_variance : Nat]
    BY <1>1, RampType
  <2> QED
    BY <1>1, <1>3, <1>4, <1>6, <1>7, <2>1, <2>2, <2>3, <2>4 DEF TypeOK
<1>9. CountInv'
  BY <1>1, <1>6, <1>7 DEF CountInv
<1>10. HoldInv'
  BY <1>5, <1>6 DEF HoldInv
<1>11. StreamInv'
  BY <1>5 DEF StreamInv
<1>12. PublishNeedsEvidence' /\ HoldsAreJustified'
  BY <1>2 DEF PublishNeedsEvidence, HoldsAreJustified
<1> QED
  BY <1>8, <1>9, <1>10, <1>11, <1>12 DEF Parts

\* A good message is counted (dvl_to_twist_bridge.cpp:182-191, 291-309).
LEMMA CountStep ==
    ASSUME IInv, NEW msg \in Messages, NEW time \in Nat, AcceptGood(msg, time),
           Observe(msg, time), UNCHANGED <<param, now, respawns>>
    PROVE  /\ CountInv'
           /\ run' >= 1 /\ first_good_time' \in 0 .. now
           /\ consecutive_good_samples' \in 0 .. SamplesWanted
           /\ accepted' = [velocity |-> msg.velocity, time |-> time]
           /\ accepted' \in Sample /\ time > 0
           /\ ~NoReacquisition =>
                /\ consecutive_good_samples'
                     = Lesser(CountBefore(time) + 1, SamplesWanted)
                /\ CountBefore(time) > 0 =>
                     first_good_time' = first_good_time /\ ~AfterGap(time)
<1> USE DEF IInv, TypeOK, Parts, CountInv
<1>1. /\ msg.velocity \in Vectors /\ GoodOnItsOwn(msg, time) /\ time > 0
      /\ ~AfterGap(time) /\ accepted.time > 0 =>
           time > accepted.time /\ WithinRate(accepted, msg.velocity, time)
  BY Accepted DEF AcceptGood
<1>2. /\ accepted' = [velocity |-> msg.velocity, time |-> time]
      /\ previous' = [velocity |-> msg.velocity, time |-> time]
  BY <1>1 DEF AcceptGood, Observe
<1>3. accepted' \in Sample
  BY <1>1, <1>2 DEF Sample
<1>4. /\ run' = IF Extends(msg, time) THEN Lesser(run + 1, SamplesWanted) ELSE 1
      /\ run_start' = IF Extends(msg, time) THEN run_start ELSE now
  BY <1>1 DEF Observe
<1>5. /\ SamplesWanted \in Nat \ {0}
      /\ NoReacquisition => SamplesWanted = 1
  BY Settings
<1>6. run' \in Nat /\ run' >= 1 /\ run_start' \in 0 .. now
  BY <1>4, <1>5 DEF Lesser
<1>7. /\ CountBefore(time) \in 0 .. SamplesWanted
      /\ CountBefore(time) > 0 => ~AfterGap(time)
      /\ ~AfterGap(time) => CountBefore(time) = consecutive_good_samples
      /\ AfterGap(time) => CountBefore(time) = 0
  BY <1>5 DEF CountBefore
<1>8. NoReacquisition' = NoReacquisition /\ SamplesWanted' = SamplesWanted
  BY DEF NoReacquisition, SamplesWanted
<1>9. CountGoodSample(time)
  BY DEF AcceptGood
<1>10. CASE NoReacquisition
  <2>1. consecutive_good_samples' = 0
    BY <1>7, <1>9, <1>10 DEF CountGoodSample
  <2>2. first_good_time' \in 0 .. now
    BY <1>9, <1>10 DEF CountGoodSample
  <2>3. CountInv'
    BY <1>6, <1>8, <2>1
  <2> QED
    BY <1>1, <1>2, <1>3, <1>5, <1>6, <1>10, <2>1, <2>2, <2>3
<1>11. CASE ~NoReacquisition
  <2>1. /\ consecutive_good_samples' = Lesser(CountBefore(time) + 1, SamplesWanted)
        /\ first_good_time' = IF CountBefore(time) = 0 THEN now ELSE first_good_time
    BY <1>9, <1>11 DEF CountGoodSample
  <2>2. consecutive_good_samples' \in 1 .. SamplesWanted
    BY <1>5, <1>7, <2>1 DEF Lesser
  <2>3. CountBefore(time) > 0 => Extends(msg, time)
    <3> SUFFICES ASSUME CountBefore(time) > 0 PROVE Extends(msg, time)
      OBVIOUS
    <3>1. consecutive_good_samples > 0 /\ ~AfterGap(time)
      BY <1>7
    <3>2. accepted = previous /\ accepted.time > 0 /\ run > 0
      BY <3>1
    <3> QED
      BY <1>1, <3>1, <3>2 DEF Extends
  <2>4. consecutive_good_samples' <= run'
    BY <1>4, <1>5, <1>6, <1>7, <2>1, <2>3 DEF Lesser
  <2>5. run_start' <= first_good_time'
    BY <1>4, <1>6, <1>7, <2>1, <2>3
  <2>6. accepted' = previous' /\ accepted'.time > 0
    BY <1>1, <1>2
  <2>7. CountInv'
    BY <1>6, <1>8, <1>11, <2>4, <2>5, <2>6
  <2>8. first_good_time' \in 0 .. now
    BY <2>1
  <2> QED
    BY <1>1, <1>2, <1>3, <1>6, <1>7, <1>11, <2>1, <2>2, <2>7, <2>8
<1> QED
  BY <1>10, <1>11

\* The typed state after a good message, held or published.
LEMMA GoodType ==
    ASSUME IInv, NEW msg \in Messages, NEW time \in Nat, AcceptGood(msg, time),
           Observe(msg, time), UNCHANGED <<param, now, respawns>>,
           ramp' = RampBefore(time) \/ ramp' = AdvancedIfActive(RampBefore(time)),
           exit' \in {"HOLD", "PUBLISH"},
           published' = published \/ published' = Twist(msg, time)
    PROVE  TypeOK'
<1> USE DEF IInv
<1>1. /\ first_good_time' \in 0 .. now /\ accepted' \in Sample
      /\ consecutive_good_samples' \in 0 .. SamplesWanted
  BY CountStep
<1>2. /\ previous' \in Sample /\ run' \in 0 .. SamplesWanted
      /\ held' \in 0 .. SamplesWanted /\ since' \in 0 .. SinceCap
  BY ObserverType DEF Parts
<1>3. SamplesWanted' = SamplesWanted
  BY DEF SamplesWanted
<1>4. last_quality_sample_time' \in Nat
  BY DEF AcceptGood, NoteQuality, Greater, TypeOK
<1>5. ramp' \in [stage : 0 .. SampleCount, current_variance : Nat]
  <2>1. RampBefore(time) \in [stage : 0 .. SampleCount, current_variance : Nat]
    BY RampType DEF RampBefore, TypeOK
  <2> QED
    BY <2>1, RampType
<1>6. published'.velocity \in Vectors /\ published'.time \in Nat
  <2>1. msg.velocity \in Vectors
    BY Accepted DEF AcceptGood
  <2> QED
    BY <2>1 DEF Twist, TypeOK
<1>7. exit' \in Exits
  BY DEF Exits
<1>8. param' \in Params /\ now' \in Nat /\ respawns' \in 0 .. MaxRespawns /\ now' = now
  BY DEF TypeOK
<1> QED
  BY <1>1, <1>2, <1>3, <1>4, <1>5, <1>6, <1>7, <1>8 DEF TypeOK

\* A good message is held (dvl_to_twist_bridge.cpp:182-191, 291-309).
LEMMA HoldStep ==
    ASSUME IInv, NEW msg \in Messages, NEW time \in Nat, HoldForReacquire(msg, time),
           Observe(msg, time), UNCHANGED <<param, now, respawns>>
    PROVE  IInv'
<1>1. /\ AcceptGood(msg, time) /\ ~Reacquired /\ exit' = "HOLD" /\ published' = published
      /\ ramp' = RampBefore(time)
  BY DEF HoldForReacquire
<1>2. TypeOK'
  BY <1>1, GoodType
<1>3. /\ CountInv' /\ first_good_time' \in 0 .. now
      /\ consecutive_good_samples' \in 0 .. SamplesWanted
  BY <1>1, CountStep
<1>4. ~NoReacquisition
  BY <1>1 DEF Reacquired
<1>5. /\ consecutive_good_samples' = Lesser(CountBefore(time) + 1, SamplesWanted)
      /\ CountBefore(time) > 0 => first_good_time' = first_good_time /\ ~AfterGap(time)
  BY <1>1, <1>4, CountStep
<1>6. /\ SamplesWanted \in Nat \ {0} /\ param.reacquire_duration \in Int
      /\ SamplesWanted' = SamplesWanted /\ now' = now /\ param' = param
      /\ now \in Nat /\ consecutive_good_samples \in Nat /\ since \in Nat
      /\ held \in Nat /\ held_start \in 0 .. now /\ first_good_time \in Nat
  BY Settings DEF SamplesWanted, IInv, TypeOK, Parts, HoldInv
<1>7. ~AfterGap(time) => CountBefore(time) = consecutive_good_samples
  BY DEF CountBefore
<1>8. CountBefore(time) \in Nat
  BY <1>6 DEF CountBefore
<1>9. /\ held' = IF AfterGap(time) THEN 1 ELSE Lesser(held + 1, SamplesWanted)
      /\ held_start' = IF held > 0 /\ ~AfterGap(time) THEN held_start ELSE now
      /\ since' = IF AfterGap(time) THEN 0 ELSE since
  BY <1>1 DEF Observe, Lost
<1>10. held > 0 => held <= consecutive_good_samples /\ first_good_time <= held_start
  BY DEF IInv, Parts, HoldInv
<1>11. held' <= consecutive_good_samples'
  BY <1>5, <1>6, <1>7, <1>8, <1>9, <1>10 DEF Lesser
<1>12. first_good_time' <= held_start' /\ held_start' \in 0 .. now
  BY <1>3, <1>5, <1>6, <1>7, <1>9, <1>10
<1>13. HoldInv'
  BY <1>6, <1>11, <1>12 DEF HoldInv
<1>14. \/ consecutive_good_samples' < SamplesWanted
       \/ /\ ~(param.reacquire_duration <= 0)
          /\ now - first_good_time' < param.reacquire_duration
  BY <1>1, <1>3, <1>6 DEF Reacquired
<1>15. HoldsAreJustified'
  <2>1. held' \in Nat
    BY <1>6, <1>9 DEF Lesser
  <2>2. held' < SamplesWanted \/ now - held_start' < param.reacquire_duration
    BY <1>3, <1>6, <1>11, <1>12, <1>14, <2>1
  <2> QED
    BY <1>6, <2>2 DEF HoldsAreJustified
<1>16. PublishNeedsEvidence'
  BY <1>1 DEF PublishNeedsEvidence
<1>17. StreamInv'
  <2> SUFFICES ASSUME since' >= 1, published' # NoTwist
               PROVE  FALSE
    BY DEF StreamInv
  <2>1. ~AfterGap(time) /\ since >= 1 /\ published # NoTwist
    BY <1>1, <1>6, <1>9
  <2>2. /\ consecutive_good_samples >= SamplesWanted
        /\ \/ param.reacquire_duration <= 0
           \/ now - first_good_time >= param.reacquire_duration
    BY <1>4, <2>1 DEF IInv, Parts, StreamInv, Satisfied
  <2>3. /\ consecutive_good_samples' = SamplesWanted
        /\ first_good_time' = first_good_time
    BY <1>5, <1>6, <1>7, <2>1, <2>2 DEF Lesser
  <2> QED
    BY <1>6, <1>14, <2>2, <2>3
<1> QED
  BY <1>2, <1>3, <1>13, <1>15, <1>16, <1>17 DEF IInv, Parts

\* A good message is published (dvl_to_twist_bridge.cpp:182-247).
LEMMA PublishStep ==
    ASSUME IInv, NEW msg \in Messages, NEW time \in Nat, PublishTwist(msg, time),
           Observe(msg, time), UNCHANGED <<param, now, respawns>>
    PROVE  IInv'
<1>1. /\ AcceptGood(msg, time) /\ Reacquired /\ exit' = "PUBLISH"
      /\ published' = Twist(msg, time) /\ ramp' = AdvancedIfActive(RampBefore(time))
  BY DEF PublishTwist
<1>2. TypeOK'
  BY <1>1, GoodType
<1>3. /\ CountInv' /\ first_good_time' \in 0 .. now /\ run' >= 1
      /\ accepted' = [velocity |-> msg.velocity, time |-> time] /\ time > 0
  BY <1>1, CountStep
<1>4. /\ SamplesWanted \in Nat \ {0} /\ param.reacquire_duration \in Int
      /\ NoReacquisition => SamplesWanted = 1 /\ param.reacquire_duration <= 0
      /\ SamplesWanted' = SamplesWanted /\ NoReacquisition' = NoReacquisition
      /\ now' = now /\ param' = param /\ now \in Nat
  BY Settings DEF SamplesWanted, NoReacquisition, IInv, TypeOK
<1>5. Satisfied'
  BY <1>1, <1>4 DEF Satisfied, Reacquired
<1>6. held' = 0
  BY <1>1 DEF Observe
<1>7. held_start' \in 0 .. now
  BY ObserverType DEF IInv, Parts
<1>8. HoldInv'
  BY <1>4, <1>6, <1>7 DEF HoldInv
<1>9. published'.velocity = msg.velocity /\ published'.time = time
  BY <1>1 DEF Twist
<1>10. StreamInv'
  BY <1>3, <1>5, <1>9 DEF StreamInv
<1>11. HoldsAreJustified'
  BY <1>1 DEF HoldsAreJustified
<1>12. run' \in Nat /\ run_start' \in 0 .. now /\ consecutive_good_samples' \in Nat
  BY <1>2, <1>3, <1>4 DEF TypeOK, CountInv
<1>13. PublishNeedsEvidence'
  <2>1. CASE NoReacquisition
    BY <1>3, <1>4, <1>12, <2>1 DEF PublishNeedsEvidence
  <2>2. CASE ~NoReacquisition
    <3>1. /\ consecutive_good_samples' >= SamplesWanted
          /\ \/ param.reacquire_duration <= 0
             \/ now - first_good_time' >= param.reacquire_duration
      BY <1>1, <2>2 DEF Reacquired
    <3>2. consecutive_good_samples' <= run' /\ run_start' <= first_good_time'
      BY <1>3, <1>4, <1>12, <3>1 DEF CountInv
    <3>3. run' >= SamplesWanted
      BY <1>4, <1>12, <3>1, <3>2
    <3>4. now - run_start' >= param.reacquire_duration
      BY <1>3, <1>4, <1>12, <3>1, <3>2
    <3> QED
      BY <1>4, <3>3, <3>4 DEF PublishNeedsEvidence
  <2> QED
    BY <2>1, <2>2
<1> QED
  BY <1>2, <1>3, <1>8, <1>10, <1>11, <1>13 DEF IInv, Parts

\* A fresh process (rov_start.launch.py, respawn=True).
Fresh ==
    /\ param \in Params /\ now \in Nat /\ respawns \in 0 .. MaxRespawns
    /\ accepted = NoSample /\ ramp = Idle
    /\ consecutive_good_samples = 0 /\ first_good_time = 0
    /\ last_quality_sample_time = 0
    /\ exit = "NONE" /\ published = NoTwist
    /\ previous = NoSample
    /\ run = 0 /\ run_start = 0 /\ held = 0 /\ held_start \in 0 .. now
    /\ since = SinceCap

LEMMA FreshProcess == Fresh => IInv
<1> SUFFICES ASSUME Fresh PROVE IInv
  OBVIOUS
<1> USE DEF Fresh
<1>1. NoSample \in Sample /\ NoTwist.velocity \in Vectors /\ NoTwist.time \in Nat
  BY DEF NoSample, NoTwist, Sample, Vectors
<1>2. SamplesWanted \in Nat \ {0}
  BY BridgeAssumption DEF BridgeAssumption, SamplesWanted, Greater
<1>3. exit \in Exits
  BY DEF Exits
<1>4. ramp \in [stage : 0 .. SampleCount, current_variance : Nat]
  BY RampType
<1>5. since \in 0 .. SinceCap
  BY Cap
<1>6. TypeOK
  BY <1>1, <1>2, <1>3, <1>4, <1>5 DEF TypeOK
<1>7. CountInv /\ HoldInv /\ StreamInv
  BY DEF CountInv, HoldInv, StreamInv
<1>8. PublishNeedsEvidence /\ HoldsAreJustified
  BY DEF PublishNeedsEvidence, HoldsAreJustified
<1> QED
  BY <1>6, <1>7, <1>8 DEF IInv, Parts

\* The time a message is judged by (dvl_to_twist_bridge.cpp:104-114).
LEMMA TimeType ==
    ASSUME TypeOK, NEW stamp \in 0 .. now + MaxSkew
    PROVE  SampleTime(stamp) \in Nat
  BY BridgeAssumption DEF BridgeAssumption, SampleTime, TypeOK

\* The inductive invariant.
THEOREM Invariance == Spec => []IInv
<1>1. Init => IInv
  <2>1. Init => Fresh
    BY BridgeAssumption
       DEF BridgeAssumption, Init, BridgeInit, ObserverInit, Fresh
  <2> QED
    BY <2>1, FreshProcess
<1>2. IInv /\ [Next]_vars => IInv'
  <2> SUFFICES ASSUME IInv, [Next]_vars PROVE IInv'
    OBVIOUS
  <2>1. CASE UNCHANGED vars
    BY <2>1
       DEF vars, bridgeVars, observerVars, IInv, Parts, TypeOK, CountInv, HoldInv,
           StreamInv, Satisfied, NoReacquisition, SamplesWanted, PublishNeedsEvidence,
           HoldsAreJustified
  <2>2. ASSUME NEW msg \in Messages, NEW stamp \in 0 .. now + MaxSkew,
               Receive(msg, stamp)
        PROVE  IInv'
    <3> DEFINE time == SampleTime(stamp)
    <3>1. time \in Nat
      BY TimeType DEF IInv
    <3>2. Observe(msg, time) /\ UNCHANGED <<param, now, respawns>>
      BY <2>2 DEF Receive
    <3>3. \/ RejectQuality(msg, time) \/ RejectPhysics(msg, time)
             \/ RejectCovariance(msg, time)
          \/ HoldForReacquire(msg, time)
          \/ PublishTwist(msg, time)
      BY <2>2 DEF Receive, HandleMsg
    <3> HIDE DEF time
    <3> QED
      BY <3>1, <3>2, <3>3, RejectStep, HoldStep, PublishStep
  <2>3. CASE Tick /\ UNCHANGED observerVars
    <3>1. /\ now' = now + 1 /\ exit' = "NONE" /\ now \in Nat
          /\ UNCHANGED <<accepted, ramp, consecutive_good_samples, first_good_time,
                         last_quality_sample_time, published, param, respawns, previous,
                         run, run_start, held, held_start, since>>
      BY <2>3 DEF Tick, bridgeVars, observerVars, IInv, TypeOK
    <3>2. NoReacquisition' = NoReacquisition /\ SamplesWanted' = SamplesWanted
      BY <3>1 DEF NoReacquisition, SamplesWanted
    <3>3. now' \in Nat /\ first_good_time' \in 0 .. now' /\ exit' \in Exits
      BY <3>1 DEF IInv, TypeOK, Exits
    <3>4. TypeOK'
      BY <3>1, <3>2, <3>3 DEF IInv, TypeOK
    <3>5. CountInv' /\ HoldInv'
      BY <3>1, <3>2 DEF IInv, Parts, CountInv, HoldInv
    <3>6. Satisfied => Satisfied'
      <4>1. param.reacquire_duration \in Int /\ first_good_time \in Int
        BY Settings DEF IInv, TypeOK
      <4> QED
        BY <3>1, <3>2, <4>1 DEF Satisfied
    <3>7. StreamInv'
      BY <3>1, <3>6 DEF IInv, Parts, StreamInv
    <3>8. PublishNeedsEvidence' /\ HoldsAreJustified'
      BY <3>1 DEF PublishNeedsEvidence, HoldsAreJustified
    <3> QED
      BY <3>4, <3>5, <3>7, <3>8 DEF IInv, Parts
  <2>4. CASE Restart
    <3>1. /\ respawns' \in 0 .. MaxRespawns /\ param' \in Params /\ now' \in Nat
          /\ held_start' \in 0 .. now'
      BY <2>4, BridgeAssumption DEF BridgeAssumption, Restart, Respawn, IInv, TypeOK
    <3>2. Fresh'
      BY <2>4, <3>1 DEF Restart, Respawn, Fresh
    <3>3. Fresh' => IInv'
      BY FreshProcess, PTL
    <3> QED
      BY <3>2, <3>3
  <2> QED
    BY <2>1, <2>2, <2>3, <2>4 DEF Next
<1> QED
  BY <1>1, <1>2, PTL DEF Spec

\* For all settings the state is well typed: the gate's verdict REJECT_NONFINITE
\* does not reach the bridge, and ramp and count stay within their bounds.
THEOREM TypeCorrectness == Spec => []TypeOK
<1>1. IInv => TypeOK
  BY DEF IInv
<1> QED
  BY <1>1, Invariance, PTL

\* dvl_to_twist_bridge.cpp:122-140, 171-191, 291-309: what is published rests on a
\* row of good messages that is long enough and old enough.
THEOREM Evidence == Spec => []PublishNeedsEvidence
<1>1. IInv => PublishNeedsEvidence
  BY DEF IInv
<1> QED
  BY <1>1, Invariance, PTL

\* dvl_to_twist_bridge.cpp:291-309: what is held is one of the first messages since
\* the loss, or younger than the duration.
THEOREM JustifiedHolds == Spec => []HoldsAreJustified
<1>1. IInv => HoldsAreJustified
  BY DEF IInv
<1> QED
  BY <1>1, Invariance, PTL

\* Two messages of a stream (velocity_sample_gate.hpp:75-96).
LEMMA NextOfStream ==
    ASSUME IInv, NEW msg \in Messages, NEW time \in Nat, Observe(msg, time),
           PublishTwist(msg, time), since' >= 2, published # NoTwist
    PROVE  /\ published'.time > published.time
           /\ WithinRate(published, published'.velocity, published'.time)
<1>1. /\ Acceptable(msg, time) /\ exit' = "PUBLISH"
      /\ published'.velocity = msg.velocity /\ published'.time = time
  BY DEF PublishTwist, AcceptGood, Twist
<1>2. since' = Lesser((IF AfterGap(time) THEN 0 ELSE since) + 1, SinceCap)
  BY <1>1 DEF Observe, Lost
<1>3. since \in Nat /\ SampleCount \in Nat
  BY RampAssumption DEF RampAssumption, IInv, TypeOK
<1>4. ~AfterGap(time) /\ since >= 1
  BY <1>2, <1>3 DEF Lesser
<1>5. /\ accepted.velocity = published.velocity /\ accepted.time = published.time
      /\ accepted.time > 0
  BY <1>4 DEF IInv, Parts, StreamInv
<1>6. time > accepted.time /\ WithinRate(accepted, msg.velocity, time)
  BY <1>1, <1>4, <1>5, Accepted DEF IInv
<1> QED
  BY <1>1, <1>5, <1>6 DEF WithinRate

\* dvl_to_twist_bridge.cpp:193-247, velocity_sample_gate.hpp:75-96: two messages
\* published with no loss between them go forward in time, within the acceleration.
THEOREM BoundedStream == Spec => PublishedRateBounded
<1>1. IInv /\ [Next]_vars =>
        [(exit' = "PUBLISH" /\ since' >= 2 /\ published # NoTwist) =>
           /\ published'.time > published.time
           /\ WithinRate(published, published'.velocity, published'.time)]_vars
  <2> SUFFICES ASSUME IInv, Next, exit' = "PUBLISH", since' >= 2, published # NoTwist
               PROVE  /\ published'.time > published.time
                      /\ WithinRate(published, published'.velocity, published'.time)
    OBVIOUS
  <2>1. PICK msg \in Messages, stamp \in 0 .. now + MaxSkew : Receive(msg, stamp)
    BY DEF Next, Tick, Restart, Respawn
  <2> DEFINE time == SampleTime(stamp)
  <2>2. time \in Nat
    BY TimeType DEF IInv
  <2>3. Observe(msg, time) /\ PublishTwist(msg, time)
    <3>1. exit' \notin {"REJECT_QUALITY", "REJECT_COVARIANCE", "HOLD"}
      OBVIOUS
    <3>2. ~RejectPhysics(msg, time)
      BY Verdicts DEF RejectPhysics
    <3> QED
      BY <2>1, <3>1, <3>2
         DEF Receive, HandleMsg, RejectQuality, RejectCovariance, HoldForReacquire
  <2> HIDE DEF time
  <2> QED
    BY <2>2, <2>3, NextOfStream
<1> QED
  BY <1>1, Invariance, PTL DEF Spec, PublishedRateBounded

\* velocity_sample_gate.hpp:75-96, why a velocity that has really changed is refused
\* while messages keep coming: a rejection by the rate leaves the reference where it
\* was, and what is let through without a gap in the good samples is no farther from
\* the reference than the longest interval allows, however old the reference is.
RateHoldsReference ==
    [][/\ exit' = "REJECT_RATE" => accepted' = accepted
       /\ (exit' \in {"HOLD", "PUBLISH"} /\ accepted.time > 0
             /\ ~AfterGap(accepted'.time) /\ MaxAcceleration > 0) =>
            NormSquared(Difference(accepted'.velocity, accepted.velocity))
              <= AllowedDelta(MaxRateDt) * AllowedDelta(MaxRateDt)]_vars

\* The square of the allowance grows up to MaxRateDt only.
LEMMA AllowanceGrows ==
    ASSUME NEW dt \in Nat
    PROVE  AllowedDelta(dt) * AllowedDelta(dt)
             <= AllowedDelta(MaxRateDt) * AllowedDelta(MaxRateDt)
<1> USE GateAssumption DEF GateAssumption
<1>1. \A a, b, c \in Nat : a <= b => c * a <= c * b /\ c * a \in Nat /\ c * b \in Nat
  OBVIOUS
<1>2. Lesser(dt, MaxRateDt) \in Nat /\ Lesser(dt, MaxRateDt) <= MaxRateDt
  BY DEF Lesser
<1>3. /\ AllowedDelta(dt) = JumpTolerance + MaxAcceleration * Lesser(dt, MaxRateDt)
      /\ AllowedDelta(MaxRateDt) = JumpTolerance + MaxAcceleration * MaxRateDt
  BY DEF AllowedDelta, RateBound, Lesser
<1>4. /\ MaxAcceleration * Lesser(dt, MaxRateDt) <= MaxAcceleration * MaxRateDt
      /\ MaxAcceleration * Lesser(dt, MaxRateDt) \in Nat
      /\ MaxAcceleration * MaxRateDt \in Nat
  BY <1>1, <1>2
<1>5. AllowedDelta(dt) \in Nat /\ AllowedDelta(MaxRateDt) \in Nat
      /\ AllowedDelta(dt) <= AllowedDelta(MaxRateDt)
  BY <1>3, <1>4
<1>6. \A a, b \in Nat : a <= b => a * a <= b * b
  <2> SUFFICES ASSUME NEW a \in Nat, NEW b \in Nat, a <= b PROVE a * a <= b * b
    OBVIOUS
  <2>1. a * a <= a * b /\ b * a <= b * b
    BY <1>1
  <2> QED
    BY <2>1
<1> QED
  BY <1>5, <1>6

\* A message that is let through without a gap (velocity_sample_gate.hpp:75-96).
LEMMA NearReference ==
    ASSUME TypeOK, NEW msg \in Messages, NEW time \in Nat, AcceptGood(msg, time),
           accepted.time > 0, ~AfterGap(time), MaxAcceleration > 0
    PROVE  NormSquared(Difference(msg.velocity, accepted.velocity))
             <= AllowedDelta(MaxRateDt) * AllowedDelta(MaxRateDt)
<1>1. /\ msg.velocity \in Vectors
      /\ time > accepted.time /\ WithinRate(accepted, msg.velocity, time)
  BY Accepted DEF AcceptGood
<1>2. accepted.velocity \in Vectors /\ accepted.time \in Nat
  BY DEF TypeOK, Sample
<1>3. time - accepted.time \in Nat
  BY <1>1, <1>2
<1> DEFINE dt == time - accepted.time
           norm == NormSquared(Difference(msg.velocity, accepted.velocity))
<1>4. norm <= AllowedDelta(dt) * AllowedDelta(dt)
  BY <1>1, GateAssumption DEF WithinRate, GateAssumption
<1>5. AllowedDelta(dt) * AllowedDelta(dt)
        <= AllowedDelta(MaxRateDt) * AllowedDelta(MaxRateDt)
  BY <1>3, AllowanceGrows
<1>6. norm \in Int
  BY <1>1, <1>2 DEF Vectors, NormSquared, Difference
<1>7. AllowedDelta(dt) \in Int /\ AllowedDelta(MaxRateDt) \in Int
  BY <1>3, GateAssumption DEF GateAssumption, AllowedDelta, RateBound, Lesser
<1>8. /\ AllowedDelta(dt) * AllowedDelta(dt) \in Int
      /\ AllowedDelta(MaxRateDt) * AllowedDelta(MaxRateDt) \in Int
  BY <1>7
<1> HIDE DEF dt, norm
<1> QED
  BY <1>4, <1>5, <1>6, <1>8 DEF norm

\* The reference stays, and binds what is let through (velocity_sample_gate.hpp:75-96).
THEOREM RateRejectionLasts == Spec => RateHoldsReference
<1>1. IInv /\ [Next]_vars =>
        [/\ exit' = "REJECT_RATE" => accepted' = accepted
         /\ (exit' \in {"HOLD", "PUBLISH"} /\ accepted.time > 0
               /\ ~AfterGap(accepted'.time) /\ MaxAcceleration > 0) =>
              NormSquared(Difference(accepted'.velocity, accepted.velocity))
                <= AllowedDelta(MaxRateDt) * AllowedDelta(MaxRateDt)]_vars
  <2> SUFFICES ASSUME IInv, Next
               PROVE  /\ exit' = "REJECT_RATE" => accepted' = accepted
                      /\ (exit' \in {"HOLD", "PUBLISH"} /\ accepted.time > 0
                            /\ ~AfterGap(accepted'.time) /\ MaxAcceleration > 0) =>
                           NormSquared(Difference(accepted'.velocity,
                                                  accepted.velocity))
                             <= AllowedDelta(MaxRateDt) * AllowedDelta(MaxRateDt)
    OBVIOUS
  <2>1. CASE Tick \/ Restart
    BY <2>1 DEF Tick, Restart, Respawn
  <2>2. ASSUME NEW msg \in Messages, NEW stamp \in 0 .. now + MaxSkew,
               Receive(msg, stamp)
        PROVE  /\ exit' = "REJECT_RATE" => accepted' = accepted
               /\ (exit' \in {"HOLD", "PUBLISH"} /\ accepted.time > 0
                     /\ ~AfterGap(accepted'.time) /\ MaxAcceleration > 0) =>
                    NormSquared(Difference(accepted'.velocity, accepted.velocity))
                      <= AllowedDelta(MaxRateDt) * AllowedDelta(MaxRateDt)
    <3> DEFINE time == SampleTime(stamp)
    <3>1. time \in Nat
      BY TimeType DEF IInv
    <3>2. \/ RejectQuality(msg, time) \/ RejectPhysics(msg, time)
             \/ RejectCovariance(msg, time)
          \/ HoldForReacquire(msg, time)
          \/ PublishTwist(msg, time)
      BY <2>2 DEF Receive, HandleMsg
    <3> HIDE DEF time
    <3>3. CASE RejectQuality(msg, time) \/ RejectCovariance(msg, time)
      BY <3>3 DEF RejectQuality, RejectCovariance
    <3>4. CASE RejectPhysics(msg, time)
      <4>1. exit' \notin {"HOLD", "PUBLISH"}
        BY <3>4, Verdicts DEF RejectPhysics
      <4>2. ASSUME exit' = "REJECT_RATE" PROVE accepted' = accepted
        <5>1. GateVerdict(msg, time) = "REJECT_RATE" /\ accepted' = GateBefore(time)
          BY <3>4, <4>2 DEF RejectPhysics
        <5>2. GateBefore(time) # NoSample
          BY <5>1 DEF GateVerdict, Decision
        <5> QED
          BY <5>1, <5>2 DEF GateBefore
      <4> QED
        BY <4>1, <4>2
    <3>5. CASE HoldForReacquire(msg, time) \/ PublishTwist(msg, time)
      <4>1. AcceptGood(msg, time) /\ exit' # "REJECT_RATE"
        BY <3>5 DEF HoldForReacquire, PublishTwist
      <4>2. accepted' = [velocity |-> msg.velocity, time |-> time]
        BY <4>1 DEF AcceptGood
      <4> QED
        BY <3>1, <4>1, <4>2, NearReference DEF IInv
    <3> QED
      BY <3>2, <3>3, <3>4, <3>5
  <2> QED
    BY <2>1, <2>2 DEF Next
<1> QED
  BY <1>1, Invariance, PTL DEF Spec, RateHoldsReference
-----------------------------------------------------------------------------
\* A set of numbers has a least member: what takes the place of an induction.
LEMMA LeastNumber ==
    ASSUME NEW T, T \subseteq Nat, T # {}
    PROVE  \E x \in T : \A y \in T : x <= y
<1> DEFINE R == OpToRel(<, Nat)
<1>1. IsWellFoundedOn(R, Nat)
  BY NatLessThanWellFounded
<1> HIDE DEF R
<1>2. PICK x \in T : \A y \in T : ~(<<y, x>> \in R)
  BY <1>1, WFMin
<1>3. \A y \in T : ~(y < x)
  BY <1>2 DEF R, OpToRel
<1> QED
  BY <1>3

\* The recovery sequence of n messages.
IsFloor(f, n) ==
    f = [k \in 1 .. n |-> IF k = 1 THEN InitialVariance ELSE Decay(f[k - 1])]

\* There is one of any length: one is continued by one message.
LEMMA FloorExists == \A n \in Nat : \E f : IsFloor(f, n)
<1> DEFINE T == {n \in Nat : ~ \E f : IsFloor(f, n)}
<1> SUFFICES ASSUME T # {} PROVE FALSE
  OBVIOUS
<1>1. PICK x \in T : \A y \in T : x <= y
  BY LeastNumber
<1>2. CASE x = 0
  <2> DEFINE f == [k \in 1 .. 0 |-> InitialVariance]
  <2>1. IsFloor(f, 0)
    BY DEF IsFloor
  <2> QED
    BY <1>2, <2>1
<1>3. CASE x > 0
  <2>1. x - 1 \in Nat /\ x - 1 \notin T
    BY <1>1, <1>3
  <2>2. PICK f : IsFloor(f, x - 1)
    BY <2>1
  <2> DEFINE last == IF x = 1 THEN InitialVariance ELSE Decay(f[x - 1])
             g == [k \in 1 .. x |-> IF k < x THEN f[k] ELSE last]
             h == [k \in 1 .. x |-> IF k = 1 THEN InitialVariance ELSE Decay(g[k - 1])]
  <2>3. ASSUME NEW k \in 1 .. x PROVE g[k] = h[k]
    <3>1. CASE k < x
      <4>1. f[k] = IF k = 1 THEN InitialVariance ELSE Decay(f[k - 1])
        BY <2>2, <3>1 DEF IsFloor
      <4>2. k # 1 => g[k - 1] = f[k - 1]
        BY <3>1
      <4> QED
        BY <3>1, <4>1, <4>2
    <3>2. CASE k = x
      <4>1. k # 1 => g[k - 1] = f[k - 1]
        BY <3>2
      <4> QED
        BY <3>2, <4>1
    <3> QED
      BY <3>1, <3>2
  <2>4. IsFloor(g, x)
    <3>1. g = h
      BY <2>3
    <3> QED
      BY <3>1 DEF IsFloor
  <2> QED
    BY <2>4
<1> QED
  BY <1>2, <1>3

\* Floor begins with InitialVariance, and each entry is the decay of the one before.
LEMMA FloorSteps ==
    \A k \in 1 .. SampleCount :
      Floor[k] = IF k = 1 THEN InitialVariance ELSE Decay(Floor[k - 1])
<1>1. PICK f : IsFloor(f, SampleCount)
  BY FloorExists, RampAssumption DEF RampAssumption
<1>2. IsFloor(Floor, SampleCount)
  BY <1>1 DEF IsFloor, Floor
<1> QED
  BY <1>2 DEF IsFloor

\* The sequence never rises: what is published after a loss is trusted no less than
\* the message before it (covariance_recovery_ramp.hpp:44-58).
THEOREM FloorDecays ==
    /\ \A k \in 1 .. SampleCount : Floor[k] \in 0 .. InitialVariance
    /\ \A k \in 2 .. SampleCount : Floor[k] <= Floor[k - 1]
<1> USE RampAssumption DEF RampAssumption
<1>1. \A v \in Nat : Decay(v) \in 0 .. v
  <2> SUFFICES ASSUME NEW v \in Nat PROVE Decay(v) \in 0 .. v
    OBVIOUS
  <2>1. v * DecayNum \in Nat /\ v * DecayNum <= v * DecayDen
    OBVIOUS
  <2> DEFINE q == (v * DecayNum) \div DecayDen
  <2>2. q \in Nat /\ DecayDen * q <= v * DecayNum
    BY <2>1
  <2> HIDE DEF q
  <2>3. DecayDen * q <= DecayDen * v
    BY <2>1, <2>2
  <2>4. ~(q > v)
    BY <2>2, <2>3
  <2> QED
    BY <2>2, <2>4 DEF Decay, q
<1>2. ASSUME NEW k \in 2 .. SampleCount, Floor[k - 1] \in Nat
      PROVE  Floor[k] \in 0 .. Floor[k - 1]
  BY <1>1, <1>2, FloorSteps
<1>3. \A k \in 1 .. SampleCount : Floor[k] \in 0 .. InitialVariance
  <2> DEFINE T == {k \in 1 .. SampleCount : Floor[k] \notin 0 .. InitialVariance}
  <2> SUFFICES ASSUME T # {} PROVE FALSE
    OBVIOUS
  <2> T \subseteq Nat
    OBVIOUS
  <2>1. PICK k \in T : \A j \in T : k <= j
    BY LeastNumber
  <2>2. k \in 1 .. SampleCount /\ Floor[k] \notin 0 .. InitialVariance
    OBVIOUS
  <2>3. CASE k = 1
    BY <2>2, <2>3, FloorSteps
  <2>4. CASE k > 1
    <3>1. k - 1 \in 1 .. SampleCount /\ k - 1 \notin T
      BY <2>1, <2>2, <2>4
    <3>2. Floor[k - 1] \in 0 .. InitialVariance
      BY <3>1
    <3>3. Floor[k] \in 0 .. Floor[k - 1]
      BY <1>2, <2>2, <2>4, <3>2
    <3> QED
      BY <2>2, <3>2, <3>3
  <2> QED
    BY <2>2, <2>3, <2>4
<1>4. ASSUME NEW k \in 2 .. SampleCount PROVE Floor[k] <= Floor[k - 1]
  <2>1. Floor[k - 1] \in Nat
    BY <1>3
  <2> QED
    BY <1>2, <2>1
<1> QED
  BY <1>3, <1>4

\* The ramp stands where the messages published since the loss have brought it.
RampFollows ==
    /\ since < SampleCount =>
         ramp = [stage |-> since + 1, current_variance |-> Floor[since + 1]]
    /\ since >= SampleCount => ramp.stage = 0

RampInv == RampFollows /\ RecoveryFloor

\* Triggered stands at the beginning of the sequence.
LEMMA TriggeredFollows ==
    /\ SampleCount > 0 =>
         Triggered = [stage |-> 1, current_variance |-> Floor[1]]
    /\ SampleCount = 0 => Triggered.stage = 0
<1> USE RampAssumption DEF RampAssumption
<1>1. SampleCount > 0 => Floor[1] = InitialVariance
  BY FloorSteps
<1> QED
  BY <1>1 DEF Triggered, Lesser

\* One step along the sequence (covariance_recovery_ramp.hpp:44-58).
LEMMA AdvancedFollows ==
    ASSUME NEW k \in 1 .. SampleCount
    PROVE  LET ramp_k == [stage |-> k, current_variance |-> Floor[k]]
           IN  IF k < SampleCount
               THEN AdvancedIfActive(ramp_k)
                      = [stage |-> k + 1, current_variance |-> Floor[k + 1]]
               ELSE AdvancedIfActive(ramp_k).stage = 0
<1> USE RampAssumption DEF RampAssumption
<1>1. k < SampleCount => Floor[k + 1] = Decay(Floor[k])
  BY FloorSteps
<1> QED
  BY <1>1 DEF AdvancedIfActive, Active, Advanced

\* One message, whatever became of it.
LEMMA RampStep ==
    ASSUME IInv, RampInv, NEW msg \in Messages, NEW time \in Nat,
           Observe(msg, time),
           \/ /\ RejectQuality(msg, time) \/ RejectPhysics(msg, time)
                   \/ RejectCovariance(msg, time)
           \/ HoldForReacquire(msg, time)
           \/ PublishTwist(msg, time)
    PROVE  RampInv'
<1> DEFINE before == IF Lost(time) THEN 0 ELSE since
<1> USE RampAssumption DEF RampAssumption
<1>1. since \in Nat
  BY DEF IInv, TypeOK
<1>2. CASE RejectQuality(msg, time) \/ RejectPhysics(msg, time)
             \/ RejectCovariance(msg, time)
  <2>1. ramp' = Triggered
    BY <1>2 DEF RejectQuality, RejectPhysics, RejectCovariance, RestartReacquisition
  <2>2. exit' \notin {"HOLD", "PUBLISH"}
    BY <1>2, Verdicts DEF RejectQuality, RejectPhysics, RejectCovariance
  <2>3. since' = 0
    BY <2>2 DEF Observe, Lost
  <2>4. RampFollows'
    BY <2>1, <2>3, TriggeredFollows DEF RampFollows
  <2>5. RecoveryFloor'
    BY <2>2 DEF RecoveryFloor
  <2> QED
    BY <2>4, <2>5 DEF RampInv
<1>3. ASSUME exit' \in {"HOLD", "PUBLISH"}
      PROVE  /\ before \in Nat
             /\ before < SampleCount =>
                  RampBefore(time) = [stage |-> before + 1,
                                      current_variance |-> Floor[before + 1]]
             /\ before >= SampleCount => RampBefore(time).stage = 0
  <2>1. CASE AfterGap(time)
    <3>1. before = 0 /\ RampBefore(time) = Triggered
      BY <2>1 DEF Lost, RampBefore
    <3> QED
      BY <3>1, TriggeredFollows
  <2>2. CASE ~AfterGap(time)
    <3>1. before = since /\ RampBefore(time) = ramp
      BY <1>3, <2>2 DEF Lost, RampBefore
    <3> QED
      BY <1>1, <3>1 DEF RampInv, RampFollows
  <2> QED
    BY <2>1, <2>2
<1>4. CASE HoldForReacquire(msg, time)
  <2>1. exit' = "HOLD" /\ ramp' = RampBefore(time)
    BY <1>4 DEF HoldForReacquire
  <2>2. since' = before
    BY <2>1 DEF Observe
  <2>3. RampFollows' /\ RecoveryFloor'
    BY <1>3, <2>1, <2>2 DEF RampFollows, RecoveryFloor
  <2> QED
    BY <2>3 DEF RampInv
<1>5. CASE PublishTwist(msg, time)
  <2>1. /\ exit' = "PUBLISH" /\ ramp' = AdvancedIfActive(RampBefore(time))
        /\ published' = Twist(msg, time)
    BY <1>5 DEF PublishTwist
  <2>2. since' = Lesser(before + 1, SinceCap)
    BY <2>1 DEF Observe
  <2> HIDE DEF before
  <2>3. CASE before < SampleCount
    <3>1. since' = before + 1
      BY <1>3, <2>1, <2>2, <2>3, Cap DEF Lesser
    <3>2. RampBefore(time) = [stage |-> since', current_variance |-> Floor[since']]
      BY <1>3, <2>1, <2>3, <3>1
    <3>3. since' \in 1 .. SampleCount
      BY <1>3, <2>1, <2>3, <3>1
    <3>4. ramp' = AdvancedIfActive([stage |-> since', current_variance |-> Floor[since']])
      BY <2>1, <3>2
    <3>5. /\ since' < SampleCount =>
               ramp' = [stage |-> since' + 1, current_variance |-> Floor[since' + 1]]
          /\ since' >= SampleCount => ramp'.stage = 0
      BY <3>3, <3>4, AdvancedFollows
    <3>6. RampFollows'
      BY <3>5 DEF RampFollows
    <3>7. \A v : Applied(RampBefore(time), v) = Greater(v, Floor[since'])
      BY <3>2, <3>3 DEF Applied, Active
    <3>8. RecoveryFloor'
      BY <2>1, <3>3, <3>7 DEF RecoveryFloor, Twist
    <3> QED
      BY <3>6, <3>8 DEF RampInv
  <2>4. CASE before >= SampleCount
    <3>1. since' \in Nat /\ since' > SampleCount
      BY <1>3, <2>1, <2>2, <2>4, Cap DEF Lesser
    <3>2. RampBefore(time).stage = 0
      BY <1>3, <2>1, <2>4
    <3>3. RampFollows'
      BY <2>1, <3>1, <3>2 DEF RampFollows, AdvancedIfActive, Active
    <3>4. \A v : Applied(RampBefore(time), v) = v
      BY <3>2 DEF Applied, Active
    <3>5. RecoveryFloor'
      BY <2>1, <3>1, <3>4 DEF RecoveryFloor, Twist
    <3> QED
      BY <3>3, <3>5 DEF RampInv
  <2> QED
    BY <1>3, <2>1, <2>3, <2>4
<1> QED
  BY <1>2, <1>4, <1>5

\* dvl_to_twist_bridge.cpp:116, 138, 177, 193-203: for every initial variance, decay
\* and number of samples, the k-th message after a loss of any kind has the k-th
\* variance of the sequence for a floor, and no message after the last of them has one.
THEOREM RecoveryFollowsLoss == Spec => []RecoveryFloor
<1>1. Init => RampInv
  <2> SUFFICES ASSUME Init PROVE RampInv
    OBVIOUS
  <2>1. ramp = Idle /\ exit = "NONE" /\ since = SinceCap
    BY DEF Init, BridgeInit, ObserverInit
  <2> QED
    BY <2>1, Cap, RampAssumption
       DEF RampAssumption, RampInv, RampFollows, RecoveryFloor, Idle
<1>2. IInv /\ RampInv /\ [Next]_vars => RampInv'
  <2> SUFFICES ASSUME IInv, RampInv, [Next]_vars PROVE RampInv'
    OBVIOUS
  <2>1. CASE UNCHANGED vars
    BY <2>1 DEF vars, bridgeVars, observerVars, RampInv, RampFollows, RecoveryFloor
  <2>2. ASSUME NEW msg \in Messages, NEW stamp \in 0 .. now + MaxSkew,
               Receive(msg, stamp)
        PROVE  RampInv'
    <3> DEFINE time == SampleTime(stamp)
    <3>1. time \in Nat
      BY TimeType DEF IInv
    <3>2. Observe(msg, time)
      BY <2>2 DEF Receive
    <3>3. \/ RejectQuality(msg, time) \/ RejectPhysics(msg, time)
             \/ RejectCovariance(msg, time)
          \/ HoldForReacquire(msg, time)
          \/ PublishTwist(msg, time)
      BY <2>2 DEF Receive, HandleMsg
    <3> HIDE DEF time
    <3> QED
      BY <3>1, <3>2, <3>3, RampStep
  <2>3. CASE Tick /\ UNCHANGED observerVars
    BY <2>3 DEF Tick, bridgeVars, observerVars, RampInv, RampFollows, RecoveryFloor
  <2>4. CASE Restart
    <3>1. ramp' = Idle /\ exit' = "NONE" /\ since' = SinceCap
      BY <2>4 DEF Restart, Respawn
    <3> QED
      BY <3>1, Cap, RampAssumption
         DEF RampAssumption, RampInv, RampFollows, RecoveryFloor, Idle
  <2> QED
    BY <2>1, <2>2, <2>3, <2>4 DEF Next
<1>3. RampInv => RecoveryFloor
  BY DEF RampInv
<1> QED
  BY <1>1, <1>2, <1>3, Invariance, PTL DEF Spec
=============================================================================
