----------------------------- MODULE DepthOutage -----------------------------
(***************************************************************************)
(* The depth gate across an outage: an observer follows samples that no    *)
(* vehicle faster than MaxVerticalSpeed is needed to explain, however long *)
(* the time between two of them.                                           *)
(***************************************************************************)
EXTENDS DepthGateEvidence

VARIABLE
    withheld   \* {} or {n}: n gradual samples in a row have been withheld since
               \* one was passed on, and nothing else came (counted to N + 1)

\* Later than the call before, at no more than the speed the gate is set to.
Gradually(depth, time) ==
    /\ Usable(depth, time) /\ time > previous.time
    /\ Distance(depth, previous.depth)
         <= JumpTolerance + MaxVerticalSpeed * (time - previous.time)

OutageInit == Init /\ withheld = {}

OutageNext ==
    \E depth \in Depths \cup {NonFinite}, time \in SampleTimes :
        /\ Update(depth, time) /\ Observe(depth, time)
        /\ withheld' = IF result'.decision = "ACCEPT" THEN {0}
                       ELSE {Lesser(n + 1, ReacquireGoodSamples + 1) :
                               n \in {n \in withheld : Gradually(depth, time)}}

OutageSpec == OutageInit /\ [][OutageNext]_<<vars, withheld>>
-----------------------------------------------------------------------------
\* README.md:150: abrupt changes of depth are rejected, and normal samples in a
\* row restore the signal.  So where nothing ever changed abruptly, not even
\* across an outage, ReacquireGoodSamples + 1 samples in a row are not withheld.
GradualMotionIsFollowed == ReacquireGoodSamples + 1 \notin withheld
=============================================================================
