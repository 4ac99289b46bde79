------------------------- MODULE DepthGateEvidence -------------------------
(***************************************************************************)
(* The depth gate driven by an arbitrary caller, watched by an observer    *)
(* that sees only the arguments and the results of the calls.  The         *)
(* observer's variables say what the gate OUGHT to go by, so that the      *)
(* gate's own counter, candidate and times can be judged against them.     *)
(***************************************************************************)
EXTENDS DepthSampleGate

CONSTANTS
    Depths,        \* the finite depths the caller passes
    SampleTimes    \* the times it passes, in or out of order

ASSUME CallerAssumption == Depths \subseteq Int /\ SampleTimes \subseteq Int

VARIABLES
    output,    \* the last sample passed on: [value, time], time 0 for none
    latest,    \* the latest time of any usable sample since the first passed
    previous,  \* the arguments of the previous call
    run        \* how many calls in a row, ending with the last one, were
               \* normal and agreed with the call before (counted to N + 1)

observerVars == <<output, latest, previous, run>>
vars == <<gateVars, observerVars>>

Nothing == [value |-> 0, time |-> 0]

Signal == INSTANCE RateBoundedSignal WITH
    Values <- Depths, Times <- SampleTimes, Tolerance <- JumpTolerance,
    Rate <- MaxVerticalSpeed, MaxDt <- MaxRateDt, signal <- output

\* A sample later than all others and reachable from the last one passed on.
Normal(depth, time) ==
    /\ Usable(depth, time)
    /\ time > latest
    /\ output = Nothing
       \/ Distance(depth, output.value) <= AllowedDelta(time - output.time)

Agrees(depth, time) ==
    run > 0 =>
      Distance(depth, previous.depth) <= AllowedDelta(time - previous.time)

Observe(depth, time) ==
    /\ output' = IF result'.decision = "ACCEPT"
                 THEN [value |-> depth, time |-> time] ELSE output
    /\ latest' = IF Usable(depth, time) THEN Greater(latest, time) ELSE latest
    /\ previous' = [depth |-> depth, time |-> time]
    /\ run' = IF ~Normal(depth, time) THEN 0
              ELSE IF Agrees(depth, time)
                   THEN Lesser(run + 1, ReacquireGoodSamples + 1) ELSE 1

Init == /\ GateInit
        /\ output = Nothing /\ latest = 0 /\ run = 0
        /\ previous = [depth |-> NonFinite, time |-> 0]

Next == \E depth \in Depths \cup {NonFinite}, time \in SampleTimes :
            Update(depth, time) /\ Observe(depth, time)

Spec == Init /\ [][Next]_vars
-----------------------------------------------------------------------------
\* Bounded, well-typed state of the gate and of the observer; the counter
\* never reaches the number of samples that ends the recovery.
TypeOK ==
    /\ GateTypeOK
    /\ output \in [value : Int, time : Nat] /\ latest \in Nat
    /\ previous \in [depth : Int \cup {NonFinite}, time : Int]
    /\ run \in 0 .. ReacquireGoodSamples + 1

\* depth_sample_gate.hpp:76-103 (and README "Depth"): a recovery ends only on
\* the last of ReacquireGoodSamples consecutive calls that were each later
\* than every sample before, reachable from the last sample passed on, and in
\* agreement with the call before.  The gate must never count a sample from
\* before a rejection, or skip the comparison between two of them.
ReacquireNeedsEvidence ==
    [][result'.reacquired => run' >= ReacquireGoodSamples]_vars

\* depth_sample_gate.hpp:83-106: conversely the gate cannot withhold a signal
\* that is back to normal.  One normal sample beyond ReacquireGoodSamples is
\* needed, since a sample that disagrees with the candidate is rejected
\* without becoming the first of the next row.
EvidenceSuffices ==
    [][run' = ReacquireGoodSamples + 1 => result'.decision = "ACCEPT"]_vars

\* depth_sample_gate.hpp:57-86: what the caller is handed on is a
\* rate-bounded signal, across any number of rejections and recoveries.
OutputRateBounded == Signal!Spec
=============================================================================
