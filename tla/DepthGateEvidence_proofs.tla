---------------------- MODULE DepthGateEvidence_proofs ----------------------
(***************************************************************************)
(* For every value of the parameters, every set of depths and times and    *)
(* any number of calls: the depth gate's state is well typed, its output   *)
(* is a rate-bounded signal, and a recovery ends on evidence, neither      *)
(* sooner nor later.                                                       *)
(***************************************************************************)
EXTENDS DepthGateEvidence, TLAPS

\* The gate's memory of what it accepted is what the observer received.
MemoryInv ==
    /\ have_accepted_sample =>
         /\ output = [value |-> last_accepted_depth, time |-> last_accepted_time]
         /\ last_accepted_time > 0
         /\ last_accepted_time <= last_observed_time
         /\ latest = last_observed_time
    /\ ~have_accepted_sample => output = Nothing /\ latest = 0 /\ run = 0

\* The gate counts only samples the observer counted, and its candidate is the
\* argument of the previous call.
RecoveryInv ==
    recovering =>
      /\ have_accepted_sample
      /\ consecutive_good_samples <= run
      /\ consecutive_good_samples > 0 => have_recovery_candidate
      /\ have_recovery_candidate =>
           previous = [depth |-> recovery_candidate_depth,
                       time |-> last_observed_time]

IInv == TypeOK /\ MemoryInv /\ RecoveryInv

\* The well-typed state of the gate and of the observer, call by call
\* (depth_sample_gate.hpp:42-108).
LEMMA TypeStep ==
    ASSUME TypeOK, NEW depth \in Depths \cup {NonFinite}, NEW time \in SampleTimes,
           Update(depth, time), Observe(depth, time)
    PROVE  TypeOK'
<1> USE GateAssumption, CallerAssumption DEF GateAssumption, CallerAssumption, TypeOK, GateTypeOK, Decisions
<1>1. depth \in Int \cup {NonFinite} /\ time \in Int
  OBVIOUS
<1>2. Usable(depth, time) => depth \in Int /\ time \in Nat
  BY <1>1 DEF Usable
<1>3. GateTypeOK'
  <2>1. have_accepted_sample' \in BOOLEAN
    BY DEF Update, Withhold, RejectUnusable, RejectTime, RejectJump, EnterRecovery,
       HoldForRecovery, AcceptFirst, AcceptPlausible, Reacquire, AcceptSample, acceptedVars, recoveryVars
  <2>2. recovering' \in BOOLEAN
    BY DEF Update, Withhold, RejectUnusable, RejectTime, RejectJump, EnterRecovery,
       HoldForRecovery, AcceptFirst, AcceptPlausible, Reacquire, AcceptSample, acceptedVars, recoveryVars
  <2>3. have_recovery_candidate' \in BOOLEAN
    BY DEF Update, Withhold, RejectUnusable, RejectTime, RejectJump, EnterRecovery,
       HoldForRecovery, AcceptFirst, AcceptPlausible, Reacquire, AcceptSample, acceptedVars, recoveryVars
  <2>4. consecutive_good_samples' \in 0 .. ReacquireGoodSamples - 1
    <3>1. \/ consecutive_good_samples' = 0
          \/ consecutive_good_samples' = consecutive_good_samples
          \/ /\ consecutive_good_samples' = consecutive_good_samples + 1
             /\ consecutive_good_samples + 1 < ReacquireGoodSamples
      BY DEF Update, Withhold, RejectUnusable, RejectTime, RejectJump, EnterRecovery,
         HoldForRecovery, AcceptFirst, AcceptPlausible, Reacquire, recoveryVars
    <3> QED
      BY <3>1
  <2>5. last_accepted_depth' \in Int /\ recovery_candidate_depth' \in Int
    BY <1>2 DEF Update, Withhold, RejectUnusable, RejectTime, RejectJump, EnterRecovery, Fresh,
       HoldForRecovery, AcceptFirst, AcceptPlausible, Reacquire, AcceptSample, acceptedVars, recoveryVars
  <2>6. last_accepted_time' \in Nat /\ last_observed_time' \in Nat
    BY <1>2 DEF Update, Withhold, RejectUnusable, RejectTime, RejectJump, EnterRecovery, Fresh,
       HoldForRecovery, AcceptFirst, AcceptPlausible, Reacquire, AcceptSample, acceptedVars, recoveryVars
  <2>7. result' \in [decision : Decisions, reacquired : BOOLEAN]
    <3>1. \E decision \in Decisions, reacquired \in BOOLEAN :
            result' = [decision |-> decision, reacquired |-> reacquired]
      BY DEF Update, Withhold, RejectUnusable, RejectTime, RejectJump,
         HoldForRecovery, AcceptFirst, AcceptPlausible, Reacquire, Return
    <3> QED
      BY <3>1
  <2> QED
    BY <2>1, <2>2, <2>3, <2>4, <2>5, <2>6, <2>7
<1>4. result'.decision = "ACCEPT" => Usable(depth, time)
  BY DEF Update, Withhold, RejectUnusable, RejectTime, RejectJump,
     HoldForRecovery, AcceptFirst, AcceptPlausible, Reacquire, Fresh, Return
<1>5. output' \in [value : Int, time : Nat]
  BY <1>2, <1>4 DEF Observe
<1>6. latest' \in Nat /\ run' \in 0 .. ReacquireGoodSamples + 1
  BY <1>2 DEF Observe, Greater, Lesser
<1>7. previous' \in [depth : Int \cup {NonFinite}, time : Int]
  BY <1>1 DEF Observe
<1> QED
  BY <1>3, <1>5, <1>6, <1>7

\* A call that changes the accepted sample is one whose result is ACCEPT, and
\* the other way round.
LEMMA MemoryStep ==
    ASSUME IInv, NEW depth \in Depths \cup {NonFinite}, NEW time \in SampleTimes,
           Update(depth, time), Observe(depth, time)
    PROVE  MemoryInv'
<1> USE GateAssumption, CallerAssumption
    DEF IInv, TypeOK, GateTypeOK, MemoryInv, Observe, Return, Nothing
<1>1. Usable(depth, time) => depth \in Int /\ time \in Nat /\ time > 0
  BY DEF Usable
<1>2. CASE RejectUnusable(depth, time)
  BY <1>2 DEF RejectUnusable, EnterRecovery, acceptedVars, Normal
<1>3. CASE RejectTime(depth, time)
  BY <1>3, <1>1 DEF RejectTime, EnterRecovery, acceptedVars, Greater
<1>4. CASE RejectJump(depth, time)
  BY <1>4, <1>1 DEF RejectJump, EnterRecovery, acceptedVars, Fresh, Greater
<1>5. CASE HoldForRecovery(depth, time)
  BY <1>5, <1>1 DEF HoldForRecovery, acceptedVars, Fresh, Greater
<1>6. CASE AcceptFirst(depth, time)
  BY <1>6, <1>1 DEF AcceptFirst, AcceptSample, Greater
<1>7. CASE AcceptPlausible(depth, time)
  BY <1>7, <1>1 DEF AcceptPlausible, AcceptSample, Fresh, Greater
<1>8. CASE Reacquire(depth, time)
  BY <1>8, <1>1 DEF Reacquire, AcceptSample, Fresh, Greater
<1> QED
  BY <1>2, <1>3, <1>4, <1>5, <1>6, <1>7, <1>8 DEF Update, Withhold

\* A sample the gate calls plausible while it recovers prolongs the row the
\* observer counts, by at least as much as the gate's own count
\* (depth_sample_gate.hpp:73-92).
LEMMA PlausibleIsEvidence ==
    ASSUME IInv, NEW depth \in Depths \cup {NonFinite}, NEW time \in SampleTimes,
           Observe(depth, time),
           recovering, Fresh(depth, time), Plausible(depth, time)
    PROVE  run' >= consecutive_good_samples + 1
<1> USE GateAssumption, CallerAssumption DEF IInv, TypeOK, GateTypeOK
<1>1. have_accepted_sample /\ latest = last_observed_time
      /\ output = [value |-> last_accepted_depth, time |-> last_accepted_time]
  BY DEF Fresh, MemoryInv
<1>2. Normal(depth, time)
  BY <1>1 DEF Normal, Fresh, Plausible, NearAccepted
<1>3. CASE have_recovery_candidate
  <2>1. previous = [depth |-> recovery_candidate_depth, time |-> last_observed_time]
    BY <1>3 DEF RecoveryInv
  <2>2. Agrees(depth, time)
    BY <1>3, <2>1 DEF Agrees, Plausible, NearCandidate
  <2>3. consecutive_good_samples <= run
    BY DEF RecoveryInv
  <2> QED
    BY <1>2, <2>2, <2>3 DEF Observe, Lesser
<1>4. CASE ~have_recovery_candidate
  <2>1. consecutive_good_samples = 0
    BY <1>4 DEF RecoveryInv
  <2> QED
    BY <1>2, <2>1 DEF Observe, Lesser
<1> QED
  BY <1>3, <1>4

LEMMA RecoveryStep ==
    ASSUME IInv, NEW depth \in Depths \cup {NonFinite}, NEW time \in SampleTimes,
           Update(depth, time), Observe(depth, time)
    PROVE  RecoveryInv'
<1> USE GateAssumption, CallerAssumption DEF IInv, TypeOK, GateTypeOK, RecoveryInv
<1>1. run' \in Nat /\ previous' = [depth |-> depth, time |-> time]
  BY DEF Observe, Lesser
<1>2. CASE RejectUnusable(depth, time)
  <2>1. consecutive_good_samples' = 0 /\ ~have_recovery_candidate'
        /\ have_accepted_sample' = have_accepted_sample
    BY <1>2 DEF RejectUnusable, EnterRecovery, acceptedVars
  <2>2. recovering' => have_accepted_sample
    <3>1. CASE have_accepted_sample
      BY <3>1
    <3>2. CASE ~have_accepted_sample
      BY <1>2, <3>2 DEF RejectUnusable, EnterRecovery
    <3> QED
      BY <3>1, <3>2
  <2> QED
    BY <1>1, <2>1, <2>2
<1>3. CASE RejectTime(depth, time)
  BY <1>1, <1>3 DEF RejectTime, EnterRecovery, acceptedVars
<1>4. CASE RejectJump(depth, time)
  BY <1>1, <1>4 DEF RejectJump, EnterRecovery, acceptedVars, Fresh
<1>5. CASE HoldForRecovery(depth, time)
  <2>1. run' >= consecutive_good_samples + 1
    BY <1>5, PlausibleIsEvidence DEF HoldForRecovery
  <2> QED
    BY <1>1, <1>5, <2>1 DEF HoldForRecovery, acceptedVars
<1>6. CASE AcceptFirst(depth, time)
  BY <1>6 DEF AcceptFirst, AcceptSample, recoveryVars
<1>7. CASE AcceptPlausible(depth, time)
  BY <1>7 DEF AcceptPlausible, AcceptSample, recoveryVars
<1>8. CASE Reacquire(depth, time)
  BY <1>8 DEF Reacquire
<1> QED
  BY <1>2, <1>3, <1>4, <1>5, <1>6, <1>7, <1>8 DEF Update, Withhold

LEMMA InitInvariant == Init => IInv
<1> SUFFICES ASSUME Init PROVE IInv
  OBVIOUS
<1>1. GateTypeOK
  <2>1. result \in [decision : Decisions, reacquired : BOOLEAN]
    BY DEF Decisions, Init, GateInit
  <2>2. consecutive_good_samples \in 0 .. ReacquireGoodSamples - 1
    BY GateAssumption DEF GateAssumption, Init, GateInit
  <2>3. /\ have_accepted_sample \in BOOLEAN /\ recovering \in BOOLEAN
        /\ have_recovery_candidate \in BOOLEAN
    BY DEF Init, GateInit
  <2>4. /\ last_accepted_depth \in Int /\ recovery_candidate_depth \in Int
        /\ last_accepted_time \in Nat /\ last_observed_time \in Nat
    BY DEF Init, GateInit
  <2> QED
    BY <2>1, <2>2, <2>3, <2>4 DEF GateTypeOK
<1>2. TypeOK
  <2>1. output \in [value : Int, time : Nat]
    BY DEF Nothing, Init
  <2>2. previous \in [depth : Int \cup {NonFinite}, time : Int]
    BY DEF Init
  <2>3. latest \in Nat /\ run \in 0 .. ReacquireGoodSamples + 1
    BY GateAssumption DEF GateAssumption, Init
  <2> QED
    BY <1>1, <2>1, <2>2, <2>3 DEF TypeOK
<1>3. MemoryInv /\ RecoveryInv
  BY DEF MemoryInv, RecoveryInv, Init, GateInit
<1> QED
  BY <1>2, <1>3 DEF IInv

LEMMA NextInvariant == IInv /\ [Next]_vars => IInv'
<1> SUFFICES ASSUME IInv, [Next]_vars PROVE IInv'
  OBVIOUS
<1>1. CASE Next
  <2> PICK depth \in Depths \cup {NonFinite}, time \in SampleTimes :
        Update(depth, time) /\ Observe(depth, time)
    BY <1>1 DEF Next
  <2>1. TypeOK'
    BY TypeStep DEF IInv
  <2>2. MemoryInv'
    BY MemoryStep
  <2>3. RecoveryInv'
    BY RecoveryStep
  <2> QED
    BY <2>1, <2>2, <2>3 DEF IInv
<1>2. CASE UNCHANGED vars
  BY <1>2 DEF vars, gateVars, recoveryVars, acceptedVars, observerVars, IInv,
     TypeOK, GateTypeOK, MemoryInv, RecoveryInv
<1> QED
  BY <1>1, <1>2

\* The gate's memory, its recovery state and the observer's account of the
\* calls agree in every reachable state (depth_sample_gate.hpp:42-146).
THEOREM Invariance == Spec => []IInv
BY InitInvariant, NextInvariant, PTL DEF Spec

\* The state of the gate and of its observer is well typed; in particular
\* consecutive_good_samples_ stays below reacquire_good_samples_.
THEOREM TypeCorrectness == Spec => []TypeOK
<1>1. IInv => TypeOK
  BY DEF IInv
<1> QED
  BY <1>1, Invariance, PTL

\* A recovery ends only on ReacquireGoodSamples consecutive normal samples
\* (depth_sample_gate.hpp:76-103).
THEOREM ReacquireEvidence == Spec => ReacquireNeedsEvidence
<1>1. IInv /\ [Next]_vars =>
        [result'.reacquired => run' >= ReacquireGoodSamples]_vars
  <2> SUFFICES ASSUME IInv, Next, result'.reacquired
               PROVE  run' >= ReacquireGoodSamples
    OBVIOUS
  <2> PICK depth \in Depths \cup {NonFinite}, time \in SampleTimes :
        Update(depth, time) /\ Observe(depth, time)
    BY DEF Next
  <2>1. Reacquire(depth, time)
    BY DEF Update, Withhold, RejectUnusable, RejectTime, RejectJump,
       HoldForRecovery, AcceptFirst, AcceptPlausible, Return
  <2>2. run' >= consecutive_good_samples + 1
    BY <2>1, PlausibleIsEvidence DEF Reacquire
  <2>3. consecutive_good_samples + 1 >= ReacquireGoodSamples
    BY <2>1 DEF Reacquire
  <2> QED
    BY <2>2, <2>3, TypeStep, GateAssumption DEF IInv, TypeOK, GateTypeOK
<1> QED
  BY <1>1, Invariance, PTL DEF Spec, ReacquireNeedsEvidence

\* Conversely, the gate misses at most one of the samples the observer counts: one
\* that disagreed with the candidate.
RowInv ==
    recovering => /\ run <= consecutive_good_samples + 1
                  /\ have_recovery_candidate => consecutive_good_samples > 0

\* A rejected sample is not normal, or it disagrees with the call before
\* (depth_sample_gate.hpp:46-61, 76-86).
LEMMA RejectedRow ==
    ASSUME IInv, RowInv, NEW depth \in Depths \cup {NonFinite}, NEW time \in SampleTimes,
           Observe(depth, time),
           \/ RejectUnusable(depth, time)
           \/ RejectTime(depth, time)
           \/ RejectJump(depth, time)
    PROVE  run' <= 1
<1> USE GateAssumption, CallerAssumption DEF IInv, TypeOK, GateTypeOK
<1>1. CASE RejectUnusable(depth, time)
  BY <1>1 DEF RejectUnusable, Normal, Observe
<1>2. CASE RejectTime(depth, time)
  <2>1. time <= latest
    BY <1>2 DEF RejectTime, MemoryInv
  <2> QED
    BY <2>1 DEF Normal, Observe
<1>3. CASE RejectJump(depth, time)
  <2>1. /\ have_accepted_sample /\ time > last_observed_time
        /\ ~NearAccepted(depth, time) \/ ~NearCandidate(depth, time)
    BY <1>3 DEF RejectJump, Fresh, Plausible
  <2>2. /\ output = [value |-> last_accepted_depth, time |-> last_accepted_time]
        /\ last_accepted_time > 0 /\ last_accepted_time <= last_observed_time
    BY <2>1 DEF MemoryInv
  <2>3. CASE ~NearAccepted(depth, time)
    <3>1. ~Normal(depth, time)
      BY <2>1, <2>2, <2>3 DEF NearAccepted, Normal, Nothing
    <3> QED
      BY <3>1 DEF Observe
  <2>4. CASE ~NearCandidate(depth, time)
    <3>1. /\ run > 0
          /\ previous = [depth |-> recovery_candidate_depth, time |-> last_observed_time]
      BY <2>4 DEF NearCandidate, RecoveryInv, RowInv
    <3>2. ~Agrees(depth, time)
      BY <2>4, <3>1 DEF NearCandidate, Agrees
    <3> QED
      BY <3>2 DEF Observe
  <2> QED
    BY <2>1, <2>3, <2>4
<1> QED
  BY <1>1, <1>2, <1>3

\* A held sample prolongs both counts by one (depth_sample_gate.hpp:88-97).
LEMMA HeldRow ==
    ASSUME IInv, RowInv, NEW depth \in Depths \cup {NonFinite}, NEW time \in SampleTimes,
           Observe(depth, time), HoldForRecovery(depth, time)
    PROVE  /\ run' <= consecutive_good_samples + 2
           /\ consecutive_good_samples' = consecutive_good_samples + 1
           /\ consecutive_good_samples + 1 < ReacquireGoodSamples
<1>1. /\ consecutive_good_samples' = consecutive_good_samples + 1
      /\ consecutive_good_samples + 1 < ReacquireGoodSamples
      /\ run <= consecutive_good_samples + 1
  BY DEF HoldForRecovery, RowInv
<1>2. run' <= run + 1
  BY GateAssumption DEF GateAssumption, IInv, TypeOK, Observe, Lesser
<1> QED
  BY <1>1, <1>2, GateAssumption DEF GateAssumption, IInv, TypeOK, GateTypeOK, Observe, Lesser

\* The gate's count and the observer's row differ by one at the most.
THEOREM RowInvariance == Spec => []RowInv
<1>1. Init => RowInv
  BY DEF Init, GateInit, RowInv
<1>2. IInv /\ RowInv /\ [Next]_vars => RowInv'
  <2> SUFFICES ASSUME IInv, RowInv, [Next]_vars PROVE RowInv'
    OBVIOUS
  <2>1. CASE UNCHANGED vars
    BY <2>1 DEF vars, gateVars, recoveryVars, observerVars, RowInv
  <2>2. CASE Next
    <3> PICK depth \in Depths \cup {NonFinite}, time \in SampleTimes :
          Update(depth, time) /\ Observe(depth, time)
      BY <2>2 DEF Next
    <3>1. CASE \/ RejectUnusable(depth, time)
               \/ RejectTime(depth, time)
               \/ RejectJump(depth, time)
      <4>1. run' <= 1
        BY <3>1, RejectedRow
      <4>2. consecutive_good_samples' = 0 /\ have_recovery_candidate' = FALSE
        BY <3>1 DEF RejectUnusable, RejectTime, RejectJump, EnterRecovery
      <4> QED
        BY <4>1, <4>2 DEF RowInv
    <3>2. CASE HoldForRecovery(depth, time)
      BY <3>2, HeldRow DEF IInv, TypeOK, GateTypeOK, RowInv
    <3>3. CASE AcceptFirst(depth, time)
      <4>1. ~recovering'
        BY <3>3 DEF AcceptFirst, recoveryVars, IInv, RecoveryInv
      <4> QED
        BY <4>1 DEF RowInv
    <3>4. CASE AcceptPlausible(depth, time) \/ Reacquire(depth, time)
      BY <3>4 DEF AcceptPlausible, Reacquire, recoveryVars, RowInv
    <3> QED
      BY <3>1, <3>2, <3>3, <3>4 DEF Update, Withhold
  <2> QED
    BY <2>1, <2>2
<1> QED
  BY <1>1, <1>2, Invariance, PTL DEF Spec

\* A signal that is back to normal is passed on with the sample after
\* ReacquireGoodSamples at the latest (depth_sample_gate.hpp:83-106).
THEOREM EvidenceIsEnough == Spec => EvidenceSuffices
<1>1. IInv /\ RowInv /\ [Next]_vars =>
        [run' = ReacquireGoodSamples + 1 => result'.decision = "ACCEPT"]_vars
  <2> SUFFICES ASSUME IInv, RowInv, Next, run' = ReacquireGoodSamples + 1
               PROVE  result'.decision = "ACCEPT"
    OBVIOUS
  <2> PICK depth \in Depths \cup {NonFinite}, time \in SampleTimes :
        Update(depth, time) /\ Observe(depth, time)
    BY DEF Next
  <2>1. ~(run' <= 1)
    BY GateAssumption DEF GateAssumption
  <2>2. ~HoldForRecovery(depth, time)
    BY HeldRow, GateAssumption DEF GateAssumption, IInv, TypeOK, GateTypeOK
  <2>3. AcceptFirst(depth, time) \/ AcceptPlausible(depth, time) \/ Reacquire(depth, time)
    BY <2>1, <2>2, RejectedRow DEF Update, Withhold
  <2> QED
    BY <2>3 DEF AcceptFirst, AcceptPlausible, Reacquire, Return
<1> QED
  BY <1>1, RowInvariance, Invariance, PTL DEF Spec, EvidenceSuffices

\* What the caller is handed on implements the abstract rate-bounded signal
\* (depth_sample_gate.hpp:57-106): every call is a step of it or leaves it.
THEOREM OutputIsRateBounded == Spec => OutputRateBounded
<1> USE GateAssumption, CallerAssumption
<1>1. Init => Signal!Init
  BY DEF Init, Nothing, Signal!Init, Signal!Nothing
<1>2. IInv /\ [Next]_vars => [Signal!Next]_output
  <2> SUFFICES ASSUME IInv, Next, output' # output
               PROVE  Signal!Next
    BY DEF vars, observerVars
  <2> PICK depth \in Depths \cup {NonFinite}, time \in SampleTimes :
        Update(depth, time) /\ Observe(depth, time)
    BY DEF Next
  <2>1. result'.decision = "ACCEPT"
        /\ output' = [value |-> depth, time |-> time]
    BY DEF Observe
  <2>2. Usable(depth, time) /\
        (~have_accepted_sample \/ NearAccepted(depth, time))
    BY <2>1 DEF Update, Withhold, RejectUnusable, RejectTime, RejectJump,
       HoldForRecovery, AcceptFirst, AcceptPlausible, Reacquire, Return,
       Fresh, Plausible
  <2>3. depth \in Depths /\ time > 0
    BY <2>2 DEF Usable
  <2>4. Signal!Follows(depth, time)
    <3>1. CASE ~have_accepted_sample
      BY <3>1 DEF IInv, MemoryInv, Nothing, Signal!Follows, Signal!Nothing
    <3>2. CASE have_accepted_sample
      <4>1. output.value = last_accepted_depth /\ output.time = last_accepted_time
        BY <3>2 DEF IInv, MemoryInv
      <4>2. time > output.time
            /\ Distance(depth, output.value)
                 <= RateBound(JumpTolerance, MaxVerticalSpeed, MaxRateDt,
                              time - output.time)
        BY <2>2, <3>2, <4>1 DEF NearAccepted, AllowedDelta
      <4> QED
        BY <4>2 DEF Signal!Follows, Signal!Distance, Signal!RateBound,
           Signal!Lesser, Distance, RateBound, Lesser
    <3> QED
      BY <3>1, <3>2
  <2> QED
    BY <2>1, <2>3, <2>4 DEF Signal!Next, Signal!Receive
<1> QED
  BY <1>1, <1>2, Invariance, PTL DEF Spec, OutputRateBounded, Signal!Spec
-----------------------------------------------------------------------------
\* The allowance grows with the time since the last accepted sample, and only up to
\* MaxRateDt (depth_sample_gate.hpp:67-71, 126-129).
LEMMA AllowanceGrows ==
    ASSUME NEW dt \in Nat
    PROVE  /\ AllowedDelta(dt) <= AllowedDelta(MaxRateDt)
           /\ dt <= MaxRateDt => AllowedDelta(dt) = JumpTolerance + MaxVerticalSpeed * dt
<1> USE GateAssumption DEF GateAssumption
<1>1. \A a, b \in Nat : a <= b => MaxVerticalSpeed * a <= MaxVerticalSpeed * b
  OBVIOUS
<1>2. /\ Lesser(dt, MaxRateDt) \in Nat /\ Lesser(dt, MaxRateDt) <= MaxRateDt
      /\ Lesser(MaxRateDt, MaxRateDt) = MaxRateDt
      /\ dt <= MaxRateDt => Lesser(dt, MaxRateDt) = dt
  BY DEF Lesser
<1>3. MaxVerticalSpeed * Lesser(dt, MaxRateDt) <= MaxVerticalSpeed * MaxRateDt
  BY <1>1, <1>2
<1>4. /\ MaxVerticalSpeed * Lesser(dt, MaxRateDt) \in Int
      /\ MaxVerticalSpeed * MaxRateDt \in Int
  BY <1>2
<1>5. /\ AllowedDelta(dt) = JumpTolerance + MaxVerticalSpeed * Lesser(dt, MaxRateDt)
      /\ AllowedDelta(MaxRateDt) = JumpTolerance + MaxVerticalSpeed * MaxRateDt
  BY <1>2 DEF AllowedDelta, RateBound
<1> QED
  BY <1>2, <1>3, <1>4, <1>5

\* depth_sample_gate.hpp:66-81, the limit of the recovery: a depth farther from
\* the last one passed on than the longest interval allows is never passed on,
\* however much time has gone by and however many samples agree with it.
FarIsRefused ==
    [][(output # Nothing /\ previous'.depth # NonFinite
          /\ Distance(previous'.depth, output.value) > AllowedDelta(MaxRateDt))
         => result'.decision # "ACCEPT" /\ output' = output]_vars

\* depth_sample_gate.hpp:64-81, 99-106: and where tracking goes on.  After a
\* sample that was passed on, the next one is too if it is later by no more than
\* MaxRateDt and no farther than the vehicle moves in that time: only an outage, a
\* jump or a sample out of order can begin a recovery.
TrackingGoesOn ==
    [][(result.decision = "ACCEPT"
          /\ Usable(previous'.depth, previous'.time)
          /\ previous'.time > previous.time
          /\ previous'.time - previous.time <= MaxRateDt
          /\ Distance(previous'.depth, previous.depth)
               <= JumpTolerance + MaxVerticalSpeed * (previous'.time - previous.time))
         => result'.decision = "ACCEPT"]_vars

\* While the last call was passed on, the gate's memory is that call.
TrackingInv ==
    result.decision = "ACCEPT" =>
      /\ have_accepted_sample /\ ~recovering
      /\ previous = [depth |-> last_accepted_depth, time |-> last_accepted_time]
      /\ last_observed_time = last_accepted_time

\* A sample is passed on only if it is the first or in reach of the last.
LEMMA AcceptedIsNear ==
    ASSUME NEW depth, NEW time, Update(depth, time), result'.decision = "ACCEPT"
    PROVE  /\ Usable(depth, time)
           /\ ~have_accepted_sample \/ NearAccepted(depth, time)
BY DEF Update, Withhold, RejectUnusable, RejectTime, RejectJump, HoldForRecovery,
   AcceptFirst, AcceptPlausible, Reacquire, Return, Fresh, Plausible

\* A depth out of reach for the longest interval is out of reach for ever
\* (depth_sample_gate.hpp:66-81).
THEOREM OutOfReach == Spec => FarIsRefused
<1> USE GateAssumption, CallerAssumption DEF GateAssumption, CallerAssumption
<1>1. IInv /\ [Next]_vars =>
        [(output # Nothing /\ previous'.depth # NonFinite
            /\ Distance(previous'.depth, output.value) > AllowedDelta(MaxRateDt))
           => result'.decision # "ACCEPT" /\ output' = output]_vars
  <2> SUFFICES ASSUME IInv, Next, output # Nothing, previous'.depth # NonFinite,
                      Distance(previous'.depth, output.value) > AllowedDelta(MaxRateDt)
               PROVE  result'.decision # "ACCEPT" /\ output' = output
    OBVIOUS
  <2> PICK depth \in Depths \cup {NonFinite}, time \in SampleTimes :
        Update(depth, time) /\ Observe(depth, time)
    BY DEF Next
  <2>1. previous' = [depth |-> depth, time |-> time] /\ depth \in Int /\ time \in Int
    BY DEF Observe
  <2>2. /\ have_accepted_sample /\ last_accepted_depth \in Int
        /\ last_accepted_time \in Nat /\ output.value = last_accepted_depth
    BY DEF IInv, TypeOK, GateTypeOK, MemoryInv
  <2>3. ~NearAccepted(depth, time)
    <3> SUFFICES ASSUME NearAccepted(depth, time) PROVE FALSE
      OBVIOUS
    <3>1. time - last_accepted_time \in Nat
      BY <2>1, <2>2 DEF NearAccepted
    <3>2. /\ AllowedDelta(time - last_accepted_time) <= AllowedDelta(MaxRateDt)
          /\ Distance(depth, last_accepted_depth)
               <= AllowedDelta(time - last_accepted_time)
          /\ Distance(depth, last_accepted_depth) > AllowedDelta(MaxRateDt)
      BY <2>1, <2>2, <3>1, AllowanceGrows DEF NearAccepted
    <3>3. /\ Distance(depth, last_accepted_depth) \in Int
          /\ AllowedDelta(time - last_accepted_time) \in Int
          /\ AllowedDelta(MaxRateDt) \in Int
      BY <2>1, <2>2, <3>1 DEF Distance, AllowedDelta, RateBound, Lesser
    <3> QED
      BY <3>2, <3>3
  <2>4. result'.decision # "ACCEPT"
    BY <2>2, <2>3, AcceptedIsNear
  <2> QED
    BY <2>4 DEF Observe
<1> QED
  BY <1>1, Invariance, PTL DEF Spec, FarIsRefused

LEMMA TrackingStep ==
    ASSUME IInv, NEW depth \in Depths \cup {NonFinite}, NEW time \in SampleTimes,
           Update(depth, time), Observe(depth, time)
    PROVE  TrackingInv'
<1> SUFFICES ASSUME result'.decision = "ACCEPT"
             PROVE  /\ have_accepted_sample' /\ ~recovering'
                    /\ previous' = [depth |-> last_accepted_depth',
                                    time |-> last_accepted_time']
                    /\ last_observed_time' = last_accepted_time'
  BY DEF TrackingInv
<1>1. \/ AcceptFirst(depth, time) \/ AcceptPlausible(depth, time)
      \/ Reacquire(depth, time)
  BY DEF Update, Withhold, RejectUnusable, RejectTime, RejectJump, HoldForRecovery, Return
<1>2. AcceptSample(depth, time)
  BY <1>1 DEF AcceptFirst, AcceptPlausible, Reacquire
<1>3. ~recovering'
  BY <1>1 DEF AcceptFirst, AcceptPlausible, Reacquire, recoveryVars, IInv, RecoveryInv
<1> QED
  BY <1>2, <1>3 DEF AcceptSample, Observe

\* A gradual motion that is sampled often enough is passed on sample by sample
\* (depth_sample_gate.hpp:64-81, 99-106).
THEOREM TracksGradualMotion == Spec => TrackingGoesOn
<1> USE GateAssumption, CallerAssumption DEF GateAssumption, CallerAssumption
<1>1. Init => TrackingInv
  BY DEF Init, GateInit, TrackingInv
<1>2. IInv /\ TrackingInv /\ [Next]_vars => TrackingInv'
  <2> SUFFICES ASSUME IInv, TrackingInv, [Next]_vars PROVE TrackingInv'
    OBVIOUS
  <2>1. CASE Next
    BY <2>1, TrackingStep DEF Next
  <2>2. CASE UNCHANGED vars
    BY <2>2 DEF vars, gateVars, recoveryVars, acceptedVars, observerVars, TrackingInv
  <2> QED
    BY <2>1, <2>2
<1>3. IInv /\ TrackingInv /\ [Next]_vars =>
        [(result.decision = "ACCEPT"
            /\ Usable(previous'.depth, previous'.time)
            /\ previous'.time > previous.time
            /\ previous'.time - previous.time <= MaxRateDt
            /\ Distance(previous'.depth, previous.depth)
                 <= JumpTolerance + MaxVerticalSpeed * (previous'.time - previous.time))
           => result'.decision = "ACCEPT"]_vars
  <2> SUFFICES ASSUME IInv, TrackingInv, Next, result.decision = "ACCEPT",
                      Usable(previous'.depth, previous'.time),
                      previous'.time > previous.time,
                      previous'.time - previous.time <= MaxRateDt,
                      Distance(previous'.depth, previous.depth)
                        <= JumpTolerance
                             + MaxVerticalSpeed * (previous'.time - previous.time)
               PROVE  result'.decision = "ACCEPT"
    OBVIOUS
  <2> PICK depth \in Depths \cup {NonFinite}, time \in SampleTimes :
        Update(depth, time) /\ Observe(depth, time)
    BY DEF Next
  <2>1. /\ previous' = [depth |-> depth, time |-> time] /\ Usable(depth, time)
        /\ depth \in Int /\ time \in Int
    BY DEF Observe, Usable
  <2>2. /\ have_accepted_sample /\ ~recovering
        /\ previous = [depth |-> last_accepted_depth, time |-> last_accepted_time]
        /\ last_observed_time = last_accepted_time
        /\ last_accepted_depth \in Int /\ last_accepted_time \in Nat
    BY DEF TrackingInv, IInv, TypeOK, GateTypeOK
  <2>3. /\ time > last_accepted_time /\ time - last_accepted_time \in Nat
        /\ time - last_accepted_time <= MaxRateDt
        /\ Distance(depth, last_accepted_depth)
             <= JumpTolerance + MaxVerticalSpeed * (time - last_accepted_time)
    BY <2>1, <2>2
  <2>4. AllowedDelta(time - last_accepted_time)
          = JumpTolerance + MaxVerticalSpeed * (time - last_accepted_time)
    BY <2>3, AllowanceGrows
  <2>5. Fresh(depth, time) /\ Plausible(depth, time)
    BY <2>1, <2>2, <2>3, <2>4 DEF Fresh, Plausible, NearAccepted, NearCandidate
  <2>6. AcceptPlausible(depth, time)
    <3>1. ~RejectUnusable(depth, time) /\ ~RejectJump(depth, time)
      BY <2>1, <2>5 DEF RejectUnusable, RejectJump
    <3>2. ~RejectTime(depth, time)
      <4>1. ~(time <= last_observed_time)
        BY <2>1, <2>2, <2>3
      <4> QED
        BY <4>1 DEF RejectTime
    <3>3. /\ ~HoldForRecovery(depth, time) /\ ~AcceptFirst(depth, time)
          /\ ~Reacquire(depth, time)
      BY <2>2 DEF HoldForRecovery, AcceptFirst, Reacquire
    <3> QED
      BY <3>1, <3>2, <3>3 DEF Update, Withhold
  <2> QED
    BY <2>6 DEF AcceptPlausible, Return
<1> QED
  BY <1>1, <1>2, <1>3, Invariance, PTL DEF Spec, TrackingGoesOn
=============================================================================
