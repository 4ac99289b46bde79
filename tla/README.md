# TLA+ models of the underwater vehicle's ROS 2 package `auv`

The package bridges sensors and operators to an ArduSub autopilot through MAVROS and feeds an external Kalman filter (robot_localization). Most of its programs are single-threaded ROS nodes whose handlers keep a little memory between messages; one runs three threads. What can go wrong is in that memory: what a rejected sample leaves behind, what a late timer, a late answer, a restart or another thread does between two handlers.

Source paths below are relative to the repository (`src/` here); line numbers are those of this commit.

## 1. Inventory

| Component | State it keeps | Operations | Hard part | What makes it correct |
|---|---|---|---|---|
| `DepthSampleGate` (include/auv/depth_sample_gate.hpp) | accepted depth and time, last observed time, recovery flag, count and candidate | `update` | rejections in the middle of a recovery; four interacting times | recovery exactly on consecutive agreeing samples; output is rate bounded |
| `PressureToDepthPose` (src/pressure_to_depth_pose.cpp) | the gate, the reference depth, the variance ramp | `handle_msg` | unstamped messages, interruptions during the ramp, respawn | one frame, bounded steps, inflated variance after each interruption |
| `VelocitySampleGate` (include/auv/velocity_sample_gate.hpp) | accepted velocity and time | `update`, `reset` | order of the checks | rate bound, forward time |
| `CovarianceRecoveryRamp` (include/auv/covariance_recovery_ramp.hpp) | stage, current variance | `trigger`, `apply`, `advance` | last stage, trigger while active | applies to exactly `sample_count` messages |
| `DvlToTwistBridge` (src/dvl_to_twist_bridge.cpp) | gate, ramp, count and first time of good samples, last quality time | `handle_msg` | five kinds of rejection and a gap, each with its own resets | publishes on evidence, holds no more than asked, recovers step by step |
| `Joy2Mavros` (src/joy2mavros.cpp) | last message, pending ALT_HOLD and two deadlines, lights | `joyCallback`, 50 ms timer | timer and callback in any order around the deadlines | a mode change is prepared by a neutral stick, the stick is otherwise obeyed |
| `BuoyPositionControl` (src/buoy_position_control.cpp) | position, target, hold position, mode, time of the last request | three callbacks, control loop | asynchronous mode requests, stale mode | holds where it arrived, mode follows intent, no flood |
| guided control terminal (src/guided_control.cpp) | state machine, origin, target, last pose and mode, input buffer | `loop`, callbacks, two blocking service calls | callbacks inside the calls; requests lost or late; lines that are typed at one time and read at another | stream before request, only lines that end after the takeover are obeyed, takeover and flight complete |
| battery bridge v2 (scripts/dronecan2mavros_battery_v2.py) | DroneCAN stack, error count, attempt time, lock, stop flag | spin thread, watchdog thread, main/shutdown | threads, subprocesses, limited joins, closes that raise | no stack forgotten, spaced bring-ups, recovery, timely exit |
| DVL position bridge (src/dvl_position_to_odom_bridge.cpp) | origin, last published sample | `handle_msg` | origin taken once and reset on a jump; stamps in any order switch the speed check and the twist off | one frame between two resets, judgement by the last position published, a twist never leads across a reset |
| IMU rate configuration (scripts/mavros_imu_rate_config.py) | attempt | `configure`, once | time-outs | *not modelled*, see below |
| battery bridge v1 (scripts/dronecan2mavros_battery.py) | – | – | – | *not modelled*: superseded by v2, which the launch file starts |
| trajectory recorder (src/localization_debug.cpp) | path, last pose recorded | `odomCallback` | bounded path, NaN poses, poses too near | the path ends where the vehicle is, within `min_translation` |
| start frame publisher (src/start_frame_publisher.cpp) | start frame | odometry callback, timer | late subscribers, restart | the first finite pose since the start, and no other |
| converters (`odom2mavros`, `vfr2atm_pressure`, `tf_broadcaster`, `cam2baselink_static_tf`) | none | one message in, one out | – | no behaviour over time |
| launch files, `auv_ekf.yaml` | – | start, respawn | respawn loses state | respawn is an action of the respawned nodes' modules; the filter is external |

Not modelled, and why:

- *IMU rate configuration* is one sequential pass over a list of requests with a bounded number of attempts. A request that timed out may be carried out late, but it sets the same rate that the next attempt sets, and nothing reads the exit code: no order of steps makes a difference.
- *Converters*: each message is converted on its own; a model would restate the formulas.
- *Battery bridge v1*: the launch file starts v2. Of v2, what `on_batt` publishes (a function of one message), log throttling and the setting `auto_bringup` off (which removes threads' steps and adds none) are left out.
- *State estimator*: robot_localization is an external numerical program, of which the repository holds a configuration.
- *Launch files*: respawning is an action of the respawned nodes' modules; the plumbing of arguments is not modelled.

Interactions. Depth and DVL bridge publish to the filter; the filter's odometry is what the buoy controller flies on and what the trajectory recorder and the start frame publisher record. Joystick bridge, buoy controller and guided control each ask MAVROS for modes and send setpoints or RC overrides, with no arbitration among them. MAVROS and the autopilot are modelled from how the nodes use them: a mode request may be lost, refused, or carried out at any later time and in any order, and reports of the mode lag behind.

## 2. Modules

`Arith` holds `Distance`, `Lesser`, `Greater` and `RateBound`. In every node's module one action is one whole run of a handler, except where the handler itself lets something else run (a blocking service call in `GuidedControl`, a thread switch in `BatteryBridge`); a handler with several ways out is one operator per way, and their disjunction is the handler.

| Module | Models | Notes |
|---|---|---|
| `RateBoundedSignal` | abstract specification | a signal whose samples advance in time and whose steps stay within tolerance + rate · time |
| `DepthSampleGate` | the depth gate | `RejectUnusable`, `AcceptFirst`, `RejectTime`, `RejectJump`, `HoldForRecovery`, `Reacquire`, `AcceptPlausible` are the returns of `update`, in its order |
| `DepthGateEvidence` | any caller of the gate, and an observer of calls and results | the observer never reads the gate's private state; it is what the gate is judged by |
| `DepthOutage` | the same caller across an outage | composes the gate and its observer with a second one that follows samples no speed limit refuses |
| `PressureToDepthPose` | the depth node, composing the gate | stamps, clock, both input modes, ramp, one respawn |
| `VelocitySampleGate`, `CovarianceRecoveryRamp` | the two header classes as operators on records | one call = one function from state and arguments to verdict or new state |
| `DvlToTwistBridge` | the DVL node, composing the two | every rejection with exactly the resets it makes |
| `DvlEvidence` | arbitrary driver and an observer of what goes in and comes out | |
| `JoyToMavros` | `joyCallback`, the timer, dropped requests, respawn | only the vertical channel: the others are functions of the current message |
| `JoyEvidence` | observer of the pilot's wishes and of the stick | |
| `BuoyPositionControl` | the controller with the autopilot's mode and requests in flight | |
| `BuoyEvidence` | targets (a NaN among them), a pilot, a vehicle that drifts or flies to the setpoint, crash, and the moment the world settles | |
| `GuidedControl` | the terminal: passes of `loop`, waits for services, callbacks inside them | `at` says where the thread is. `queue` is what the terminal holds, `text_read` and `input_buffer` what the passes of `loop` have made of it: the text of a line goes into the buffer in every state, the state decides at its newline |
| `GuidedMission` | autopilot, vehicle, operator and pilot around it | the operator types at any time; `heard` is the history of lines that ended after GUIDED had been reported |
| `BatteryBridge` | the spin thread, the watchdog, and shutdown | `spin_at`, `dog_at`, `main_at` say where each thread is. `CloseStack(failing)` drops the references first and then tries to close allocator, monitor and node one by one; those in `failing` raise, which is logged and passed over, so that the node may stay open. An initialisation is three steps (`MakeNode`, `InitOpens`, `InitEnds`), each of which may fail instead |
| `BatteryEvidence` | the CAN interface, the clock and an observer | `lost` counts the nodes whose own close raised, `held_for` the ticks in a row that the spin thread has been in a long operation since the shutdown |
| `DvlPositionToOdomBridge` | `handle_msg` of the DVL position bridge | `Skip`, `Reject`, `ResetOrigin`, `Forward` are its ways out; angles that differ by a full `Turn` are the same orientation, as they have the same quaternion |
| `DvlPositionEvidence` | arbitrary driver and an observer of the raw poses | the observer never sees the origin |
| `LocalizationDebug`, `StartFramePublisher` | the two recorders | one action per callback |
| `OdometryRecords` | both recorders on one stream of odometry | the second through `INSTANCE` |
| `*_proofs` | – | eight modules: the proofs of section 5 |
| `MC*` | values for TLC | |

Data are abstracted: depths, velocities, times and variances are small integers (the ramp's division is rounded down to an integer, see `Decay`), positions have one coordinate (two in the buoy controller, because the hold position mixes them), angles are whole parts of a `Turn`, a NaN or an infinity is the model value `NonFinite`, messages are records with the fields that decide something. Log text, frame ids, off-diagonal covariances and topic names are left out. A ROS time of 0 is "no stamp".

## 3. What the runs show

| Run | Configuration | Result |
|---|---|---|
| `depth_gate` | `MCDepthGateEvidence` | no error, 13 thousand states. A recovery ends on `ReacquireGoodSamples` consecutive agreeing normal samples (`ReacquireNeedsEvidence`), one more always suffices (`EvidenceSuffices`), and what is passed on implements `RateBoundedSignal` (`OutputRateBounded`) |
| `depth_node` | `MCPressureToDepthPose` | no error, 100 thousand states. Published z bounded, one frame per process, and the ramp follows each interruption |
| `depth_respawn` | `MCDepthRespawn` | **violation** of `DownIsNegative` (README.md:150): see section 6 |
| `depth_outage` | `MCDepthOutage` | **violation** of `GradualMotionIsFollowed` (README.md:150): see section 6 |
| `dvl_twist` | `MCDvlEvidence` | no error, 27 thousand states. `PublishNeedsEvidence`, `HoldsAreJustified`, `RecoveryFloor`, `PublishedRateBounded` for three settings of reacquisition |
| `joy` | `MCJoyEvidence` | no error, 1.0 thousand states. `AltHoldIsPrepared`, `NeutralPeriodsAreKept`, `StickIsHonoured`, and (liveness) `AltHoldIsRequested` |
| `dvl_position` | `MCDvlPosition` | no error, 6 thousand states. A message is refused exactly if the raw positions jump (`JumpsExactly`), all positions between two resets are in one frame (`OneFrameBetweenResets`), and a twist is the velocity of the raw path (`TwistMatchesPath`), for nine settings of the parameters |
| `buoy` | `MCBuoyEvidence` | no error, 34 thousand states. `HoldsWhereItArrived`, `RequestsAreSpaced`, and (liveness) `ModeFollowsIntent`, `FlightCompletes` |
| `guided` | `MCGuidedMission` | no error, 105 thousand states. `StreamBeforeRequest`, `OnlyHeardLines`, and (liveness) `TakeoverCompletes`, `MoveCompletes` |
| `guided_yaw` | `MCGuidedYaw` | **violation** of `YawIsLeftAlone` (the comment of guided_control.cpp:119) |
| `battery` | `MCBatteryEvidence` | no error, 25 thousand states. `NoStackForgotten`, `BringupsAreSpaced`, `ExitIsTimely`, `ExitLeavesBusyStack`, and (liveness) `LinkIsRecovered` |
| `records` | `MCOdometryRecords` | no error, 4 thousand states. `PathFollows`, `StartFrameFixed` |

Each passing run but `records` also checks one type invariant, which carries the bounds of counters. For every property a faulty version of a definition stands next to the original in its module (its comment begins "Mutant of"); with it in the original's place, TLC finds the property violated. None of them is part of a specification.

### Bounds

- `depth_gate`: depths 0, 2, 3, 5 and times 0 to 7 with tolerance 1 and rate 1. Some pairs of depths are in reach in one unit, some in two, some never; eight times leave room for an acceptance, a rejection, a recovery of three samples with an interruption in it. The order of the calls is not bounded: times may repeat and go back.
- `depth_node`: clock to 5 (4 for the violation), stamps up to 1 ahead of it (`MaxSkew`), one respawn (`MaxRespawns`), recovery with 2 samples and a ramp of 2: every combination of "withheld, held, reacquired, ramped, withheld again" fits.
- `dvl_twist`: clock to 3, stamps up to 1 ahead; one message for each check that refuses one. The messages at one time are not limited in number, so long rows of rejections and acceptances occur.
- `joy`: the time before an ALT_HOLD request is 3 timer periods instead of 20, after it 2; timers only count down to 0, so the run is unbounded in time. Which of the two is longer makes a difference (a repeated wish replaces the period after a request by its own): the run has the order of the defaults, the theorems hold for both.
- `buoy`: two places out of each other's radius and a target that is a NaN; request interval 2; requests in flight are a set of modes.
- `guided`: 2 setpoints instead of 30 before the request; two places; the operator's lines are an offset without a yaw and a yaw with an offset. The terminal holds one line at a time (`QueueLimit`; two in `guided_yaw`): it stays there through the whole takeover, and a second one can be typed as soon as its newline is read, which is what it takes for one line's text to stand in front of another's. The theorems hold for any number.
- `battery`: a tick is a second; 2 ticks between bring-ups instead of 5, join time-out 2, 2 errors instead of 10. Long operations take any number of ticks. One node's close may raise (`MaxLost`); those of allocator and monitor, any number of times. The waits of 0.01 s and 0.5 s are within a tick, and so are the closes: where a property speaks of ticks, what takes less than one is assumed to be done within it (`SpinBusy`, `DogBusy`).
- `dvl_position`: the settings of the launch file (no limits, nothing zeroed), and with limits every combination of zeroing the position, zeroing the orientation and resetting on a jump; raw positions within and beyond the speed limit and the norm of each other; stamps 1, 2, 3, 5 in any order with a longest interval of 2, so that every pair of messages is too old, in reach or too far apart for some choice.
- `records`: poses 0, 1, 2, 5 and a NaN, two frames and an empty one, a path of three points, so that several are erased; `min_translation` 0 and 2.
- `depth_outage`: depths 0, 1, 5 with rate 1, tolerance 1 and a longest allowance of 2, times to 8: an outage of four is longer than the allowance grows, and a whole recovery fits after it.

Counters of the observers are capped just above the value a property compares them with, and their comments say at which.

### Fairness

- *Vehicle* (`WF` on `Fly`, `Follow`, `Odom`): in the guided mode the vehicle reaches the setpoint it is told again and again, and the filter reports where it is.
- *Executor and threads* (`WF` on handlers, timer, loop, thread steps, clock): the process keeps being scheduled.
- *Autopilot and services* (`SF`): a request repeated for ever is some time obeyed, and a service that is looked for again and again is some time ready. Without that no controller could bring anything about; a single request may still be lost, refused or late, any number of times.
- *Settling*: liveness properties speak of what happens once nobody interferes (`settled`, a step that need not happen). Safety properties hold before and after.
- *Battery*: a bring-up and each step of an initialisation (`MakeNode`, `InitOpens`) tried for ever some time succeed, and a removed interface raises an error. `BringupIsQuick` says that after settling a bring-up takes less than `can_retry_interval` (5 s, the launch default, for a few `ip` commands). This is needed: the state of the link is read before `_bringup_lock` is waited for and not looked at again after it (lines 329-343), so if bring-ups took longer, a thread that queued behind a successful one would take the link down again, and the two threads could go on like that. The liveness check shows that behaviour when `BringupIsQuick` is left out.

Deadlock is checked in all runs but that of the battery bridge, whose process exits.

## 4. Properties and hazards

`PROJECT.json` lists the hazards with their lines. The rule followed for the properties: an observer that sees only what crosses the component's interface states what ought to be, and the component's own counters, flags and deadlines are judged against it. For example `PublishNeedsEvidence` compares a publication with the row of good messages the observer counted itself, not with `consecutive_good_samples_`.

Hazards without a property, and limits of those that have one:

- velocity_sample_gate.hpp:90: a velocity that has really changed by more than the limit is refused for as long as messages keep coming. No document claims that the velocity recovers, so there is nothing to compare the code with; the model contains it (`Decision` compares with the velocity accepted last, which a rejection leaves alone), and the theorem `RateRejectionLasts` says how far it goes: the reference stays, and what is let through without a gap in the good samples lies within `AllowedDelta(MaxRateDt)` of it.
- dvl_position_to_odom_bridge.cpp:103: only the position of a message is checked for finiteness. A NaN yaw in the message that gives the origin makes every later orientation a NaN, until a reset; the filter's configuration does not take this topic in. `OneFrameBetweenResets` says exactly that: of two sound messages of a frame both orientations are NaNs or none is.
- joy2mavros.cpp:188: between a deadline that has passed and the timer run that notices it, a stick does reach the vehicle. `AltHoldIsPrepared` speaks of the period from the wish to its deadline, which the code promises.
- dronecan2mavros_battery_v2.py:451: a stack may stay open at exit. `ExitLeavesBusyStack` says when, apart from closes that raised: the spin thread was in a long operation (a subprocess, a request, or the wait for the lock) in every tick of its join's time-out. That its other waits end within a tick of the stop flag is an assumption of the model's clock (`Tick`), justified by `_wait_or_stop`, which waits on the stop event; it is not a result.
- dronecan2mavros_battery_v2.py:423-438: the references are dropped before anything is closed, and an exception of a close is logged only. A node whose own close raises may so stay open for good with nobody holding it. The code accepts that; `NoStackForgotten` counts these nodes (`lost`) and says there are no others: neither a failing close of the allocator or the monitor, nor an initialisation that fails half way, leaves one behind.
- guided_control.cpp:70-105: a line typed before the takeover is complete is not dropped as such. Its characters are read one per pass in every state, and it is obeyed if its newline is read after the takeover. `OnlyHeardLines` states exactly that, and that nothing is left of a line whose newline came too early.
- joy2mavros.cpp:113: a new wish for ALT_HOLD within the period after a request overwrites the deadline with its own, which is the earlier one if `alt_hold_post_entry_neutral_sec` is the longer parameter. `NeutralPeriodsAreKept` says so: only a new wish ends that period.
- depth_sample_gate.hpp:65 and dvl_to_twist_bridge.cpp:118: after a stamp far in the future the properties count as the code does, from that time on; that the lock-out lasts until the clock has caught up is not contradicted by any document.
- buoy_position_control.cpp:195: the controller asks for the hold mode all the time without a target and so overrides a mode the pilot picks. `ModeFollowsIntent` states it (its first conjunct, which does not assume that the pilot has stopped), and no document excludes it.
- buoy_position_control.cpp:176: a target that is a NaN is never arrived at; `FlightCompletes` is stated for finite ones.

## 5. What is proved

TLAPS checks every proof with no step left open. A theorem holds for all values of the constants that satisfy the named assumptions, all of which say no more than which kind of value a parameter is (an interval is a positive number, messages have the fields of messages, a NaN is no integer, the two modes of the buoy controller are different modes); none relates two durations or thresholds to each other. The gates' and the ramp's constructors enforce theirs (`std::max`, `std::clamp`: no negative limit, a decay of at most 1); the joystick bridge, the buoy controller and the battery bridge take theirs as they are configured, and a negative duration there is not covered. In each module `Invariance` shows that the inductive invariant `IInv` holds: it is the type invariant together with the parts named below, which say how the component's own memory is tied to what the observer saw. They are needed because the properties speak of the observer only, whose account no step of the code reads.

| Module | Theorems | Assumptions | The strengthening |
|---|---|---|---|
| `DepthGateEvidence_proofs` | `TypeCorrectness`; `ReacquireEvidence` (`ReacquireNeedsEvidence`); `EvidenceIsEnough` (`EvidenceSuffices`); `OutputIsRateBounded` (the gate implements `RateBoundedSignal`); `OutOfReach` and `TracksGradualMotion`, see below | `GateAssumption`, `CallerAssumption` | `MemoryInv`: the accepted depth and time are the observer's `output`. `RecoveryInv`: during a recovery the gate's count is at most the observer's row, and the candidate is the previous call. `RowInv`, the converse, an invariant under the others: the observer's row is at most one longer than the count, since a sample that disagrees with the candidate is rejected without beginning the next row. `TrackingInv`: after an acceptance the gate's memory is the previous call, and there is no recovery |
| `PressureToDepthPose_proofs` | `TypeCorrectness`; `BoundedSteps` (`PublishedRateBounded`); `RampIsFollowed` (`RampFollowsInterruption`); `OneFrame` (`FrameFixed`); `PoseIsRateBounded` (with the gate on, the node implements `RateBoundedSignal`); `DownIsNegativeUntilRespawn`, see below | `GateAssumption`, `NodeAssumption` | `FrameInv`: the last pose is its depth seen from the reference. `RampInv`: the ramp that remains is `VarianceSamples` less the messages since the interruption. `GateInv`: the gate is recovering exactly while the output is interrupted, and what it accepted last was published last. `StartInv`: until a respawn the reference is the depth published first |
| `DvlEvidence_proofs` | `TypeCorrectness`; `Evidence` (`PublishNeedsEvidence`); `JustifiedHolds` (`HoldsAreJustified`); `BoundedStream` (`PublishedRateBounded`); `RecoveryFollowsLoss` (`RecoveryFloor`); `FloorDecays`; `RateRejectionLasts` | `GateAssumption` of the velocity gate, `BridgeAssumption`, `RampAssumption` | `CountInv`: the count is at most the observer's row, which began no later than `first_good_time`, and the gate's reference is the message before. `HoldInv`: every held message has been counted. `StreamInv`: until the next loss the gate's reference is what was published last. `RampFollows`: the ramp stands where the messages published since the loss have brought it |
| `Odometry_proofs` | the bridge: `TypeCorrectness`; `ExactJumps` (`JumpsExactly`); `OneFrame` (`OneFrameBetweenResets`); `TwistOfPath` (`TwistMatchesPath`). The recorders: `StartFrameStays` (`StartFrameFixed`); `PathIsKept` (`PathFollows`) | `PositionAssumption`; `RecorderAssumption`, `RecordsAssumption` | `FrameInv`: the origin is where the observer's frame began, and the last odometry is the last raw pose seen from it. `SpoiltInv`: a sound message went out with a NaN only on account of the origin. Angles modulo a turn have lemmas of their own. `StartInv`: the publisher has the first pose or none. `PathInv`: the path ends in the last pose recorded and, when `min_translation` is positive and no NaN began it, its points are integers spaced as they should be, which erasing the oldest of them does not change (`NewestOf`) |
| `JoyEvidence_proofs` | `TypeCorrectness`; `NeutralPeriods` (`NeutralPeriodsAreKept`); `Prepared` (`AltHoldIsPrepared`); `Honoured` (`StickIsHonoured`) | `JoyAssumption` | `DeadlineInv`: the deadlines and the times since wish and request add up: a pending request waits as long as it must, and the channel is neutral for as long as one of the two asks for, and no longer |
| `BuoyEvidence_proofs` | `TypeCorrectness`; `HoldingPlace` (`HoldsWhereItArrived`); `Spacing` (`RequestsAreSpaced`) | `BuoyAssumption` | there is no target and no hold position before the first odometry; a target has been reached only with a hold position taken; the request's age is no more than the time since the observer saw one |
| `GuidedMission_proofs` | `TypeCorrectness`; `StreamFirst` (`StreamBeforeRequest`); `HeardOnly` (`OnlyHeardLines`) | `GuidedAssumption`, `MissionAssumption` | `TakeoverInv`: no more setpoints are counted than were published, the target is the origin while initialising, nothing leaves that state before GUIDED was seen, and the thread waits for the answer to a yaw command in a flying state only. `InputInv`: the buffer is empty, or holds the text of the first line of the queue or, during its yaw command, of the line just ended. `TargetInv`: the target is the origin or that of a line heard |
| `BatteryEvidence_proofs` | `TypeCorrectness`; `NoForgottenStack` (`NoStackForgotten`); `TimelyExit` (`ExitIsTimely`); `BusyStack` (`ExitLeavesBusyStack`); `SpacedBringups` (`BringupsAreSpaced`) | `BatteryAssumption`, `EvidenceAssumption` | `StackInv`: where a node is opened the bridge has none, and those open besides are the `lost` ones. `ExitInv`: what the joins have taken and may still take; in the first join either the spin thread has ended, or the ticks it has been held (`held_for`) and the rest of the join add up to its time-out. The age of the last attempt is the observer's |

How a proof is laid out: lemmas on the helpers and on what a message brings; for each way out of a handler, a lemma per part of the invariant it can disturb; `Invariance` over the actions of `Next`; then each property, by itself if it is a part of the invariant and by a step lemma under it if it is an action property. The heart of the depth gate's proof is `PlausibleIsEvidence` (what the gate finds plausible prolongs the observer's row); of the DVL bridge's, that a rejection of any kind that leaves a count behind would break `CountInv`; of the joystick bridge's, that each of the three callbacks keeps the sums of `DeadlineInv`.

Five theorems go beyond what the runs check. Two say how far a disagreement of section 6 reaches, for all settings: `DownIsNegativeUntilRespawn` (as long as the process was not respawned, a depth below the start is a negative position, so that the respawn alone moves the zero) and `OutOfReach` (a depth farther from the last accepted one than the longest interval allows is never accepted, however much time has gone by), with `TracksGradualMotion` as its other side: after an acceptance, the next sample within `max_rate_dt` and within the speed limit is accepted, so that it takes an outage, a jump or disorder to lose the signal. `RateRejectionLasts` is the same for the velocity gate. `PoseIsRateBounded` carries the refinement from the gate to the whole node: what the estimator receives is a `RateBoundedSignal` whose restarts are the respawns. TLC found no counterexample to any of them on the instance of its module (a clock of 4 and the gate on for `PoseIsRateBounded`).

`RecoveryFloor` compares with `Floor`, a recursive function. The provers have no induction over data, so the proof takes least counterexamples instead: `LeastNumber` (from the library's well-foundedness of `<`) gives a smallest number for which there is no recovery sequence, and `FloorExists` continues the sequence before it by one; `FloorSteps` then has the equation of `Floor`, and everything else is an invariant. `FloorDecays` is proved the same way.

What stays with TLC is the liveness (`AltHoldIsRequested`, `ModeFollowsIntent`, `FlightCompletes`, `TakeoverCompletes`, `MoveCompletes`, `LinkIsRecovered`), because fairness and ENABLED are out of the prover's reach here. Every invariant and every action property of the passing runs is a theorem.

## 6. Disagreements met

1. **Respawn moves the zero of depth** (`depth_respawn`). README.md:150 says the depth at the start is the reference and below it the vertical position is negative. The reference is in the process (pressure_to_depth_pose.cpp:127), and the launch file respawns the node: started again at depth, it reports 0 there while the filter goes on.
2. **The depth signal need not recover from an outage** (`depth_outage`). README.md:150 says that abrupt changes are excluded and that normal samples in a row restore the signal. The allowance grows with the time since the last accepted sample, but only up to `max_rate_dt` (depth_sample_gate.hpp:71; 0.62 m with the launch file's settings). A vehicle that moved farther while the sensor was silent, never faster than `max_vertical_speed`, is refused from then on, however many consistent samples come. The unit test `PersistentStepCannotBecomeValidAsTimePasses` covers an abrupt step, for which this is intended.
3. **Setpoints ask for a yaw** (`guided_yaw`). guided_control.cpp:119 says yaw is ignored by the type mask; 2496 does not contain IGNORE_YAW (1024).

## 7. Plan

Done: all nodes with a memory of their own, except the IMU script (section 1); a proof of every safety property of every component.

Left, in this order:

1. `ModeArbitration`: joystick bridge, buoy controller and guided control with one autopilot: whose request wins, and for how long.
2. An abstract specification of evidence before publication (lose, collect, pass) that depth gate and DVL bridge both implement, beside `RateBoundedSignal`.
3. The velocity bridge's stream as an instance of a rate-bounded signal of vectors.
