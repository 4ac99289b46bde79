------------------------ MODULE GuidedMission_proofs ------------------------
(***************************************************************************)
(* For every number of setpoints, any lines, modes and positions, whatever *)
(* the pilot does and whatever becomes of the requests: the autopilot is   *)
(* asked for GUIDED after the stream of setpoints only, and is sent        *)
(* nothing but the origin and lines that ended after GUIDED was seen.      *)
(***************************************************************************)
EXTENDS GuidedMission, TLAPS

\* The program counts no more setpoints than it has published, and waits in its
\* initialisation, at the origin it took, until GUIDED has been seen.
TakeoverInv ==
    /\ streamed \in Nat /\ init_counter <= streamed
    /\ \A p, q \in current_pose : p = q
    /\ \A p, q \in origin : p = q
    /\ currentState = "INITIALIZING" => origin = {target}
    /\ ~guided_seen => currentState \in {"AWAITING_ORIGIN", "INITIALIZING"}
    /\ currentState = "AWAITING_ORIGIN" => setpoint = {}
    /\ at = "yaw" => currentState \in {"HOLDING", "MOVING"}

\* The buffer holds the text of the line whose newline comes next, or of the line
\* whose yaw command is waited for, and else nothing.
InputInv ==
    /\ text_read => queue # <<>> /\ input_buffer = <<Head(queue)>> /\ at # "yaw"
    /\ ~text_read /\ at # "yaw" => input_buffer = <<>>
    /\ at = "yaw" => input_buffer # <<>> /\ Head(input_buffer) \in heard

\* The target is the origin or that of a line heard.
TargetInv == \A o \in origin : target = o \/ \E line \in heard : target = o + line.offset

IInv == TypeOK /\ TakeoverInv /\ InputInv /\ TargetInv /\ StreamBeforeRequest /\ OnlyHeardLines

\* What a pass publishes is its target (guided_control.cpp:55-60, 117-124).
LEMMA PublishedSetpoint ==
    ASSUME TypeOK, TargetInv, OnlyHeardLines, Publish,
           UNCHANGED <<origin, heard, yaw_in_flight>>
    PROVE  /\ setpoint' \subseteq [position : Int, type_mask : Nat]
           /\ origin # {} => OnlyHeardLines'
<1> USE GuidedAssumption DEF GuidedAssumption, TypeOK
<1>1. setpoint' = {[position |-> target, type_mask |-> TypeMask]}
  BY DEF Publish
<1>2. setpoint' \subseteq [position : Int, type_mask : Nat]
  BY <1>1
<1>3. ASSUME origin # {} PROVE OnlyHeardLines'
  <2>1. PICK o \in origin : target = o \/ \E line \in heard : target = o + line.offset
    BY <1>3 DEF TargetInv
  <2>2. \A s \in setpoint' : s.position = target
    BY <1>1
  <2>3. \A yaw \in yaw_in_flight : \E line \in heard : line.yaw = yaw
    BY DEF OnlyHeardLines
  <2> QED
    BY <2>1, <2>2, <2>3 DEF OnlyHeardLines
<1> QED
  BY <1>2, <1>3

\* A line is executed on top of the origin (guided_control.cpp:86-101).
LEMMA OffsetType ==
    ASSUME TypeOK, TakeoverInv, TargetInv, NEW line \in Lines, line \in heard',
           heard \subseteq heard', ApplyOffset(line.offset), UNCHANGED origin,
           currentState \in {"HOLDING", "MOVING"}
    PROVE  /\ target' \in Int /\ currentState' \in {"HOLDING", "MOVING"}
           /\ TargetInv'
<1> USE GuidedAssumption DEF GuidedAssumption, TypeOK, TakeoverInv, TargetInv
<1>1. line.offset \in Int
  OBVIOUS
<1>2. CASE line.offset = 0
  BY <1>2 DEF ApplyOffset
<1>3. CASE line.offset # 0
  <2>1. PICK o \in origin : target' = o + line.offset
    BY <1>3 DEF ApplyOffset
  <2>2. \A p \in origin : p = o
    OBVIOUS
  <2>3. currentState' = "MOVING"
    BY <1>3 DEF ApplyOffset
  <2> QED
    BY <1>1, <2>1, <2>2, <2>3
<1> QED
  BY <1>2, <1>3

\* What the observer counts in a pass (guided_control.cpp:117-151).
LEMMA CountStep ==
    ASSUME IInv, PassSwitch
    PROVE  /\ streamed' \in Nat
           /\ mode_in_flight # {} => streamed' > InitPublishCount
           /\ currentState # "AWAITING_ORIGIN" =>
                Lesser(init_counter + 1, InitPublishCount + 1) <= streamed'
           /\ currentState = "AWAITING_ORIGIN" => streamed' = streamed
           /\ guided_seen => guided_seen'
           /\ UNCHANGED <<worldVars, heard, yaw_asked, poseVars, inputVars, yaw_in_flight>>
<1> USE GuidedAssumption DEF GuidedAssumption, IInv, TypeOK, TakeoverInv
<1>1. streamed' = IF currentState = "AWAITING_ORIGIN" THEN streamed
                  ELSE Lesser(streamed + 1, InitPublishCount + 1)
  BY DEF PassSwitch
<1>2. streamed' \in Nat /\ (mode_in_flight # {} => streamed' > InitPublishCount)
  BY <1>1 DEF Lesser, StreamBeforeRequest
<1>3. currentState # "AWAITING_ORIGIN" =>
        Lesser(init_counter + 1, InitPublishCount + 1) <= streamed'
  BY <1>1 DEF Lesser
<1>4. UNCHANGED <<worldVars, heard, yaw_asked, poseVars, inputVars, yaw_in_flight>>
  BY DEF PassSwitch, Switch, AwaitOrigin, InitializeStreams, InitializeAsks,
         InitializeCannotAsk, InitializeEnds, Hold, Move, flightVars
<1>5. guided_seen => guided_seen'
  BY DEF PassSwitch
<1> QED
  BY <1>1, <1>2, <1>3, <1>4, <1>5

\* A pass of loop(), or the rest of one (guided_control.cpp:105-180).
LEMMA PassStep ==
    ASSUME IInv, PassSwitch
    PROVE  IInv'
<1> USE GuidedAssumption
        DEF GuidedAssumption, IInv, TypeOK, TakeoverInv, InputInv, StreamBeforeRequest,
            poseVars, flightVars, inputVars, worldVars
<1>0. /\ streamed' \in Nat
      /\ mode_in_flight # {} => streamed' > InitPublishCount
      /\ currentState # "AWAITING_ORIGIN" =>
           Lesser(init_counter + 1, InitPublishCount + 1) <= streamed'
      /\ currentState = "AWAITING_ORIGIN" => streamed' = streamed
      /\ guided_seen => guided_seen'
      /\ fcu_mode' = fcu_mode /\ position' = position /\ settled' = settled
      /\ heard' = heard /\ yaw_asked' = yaw_asked
      /\ current_pose' = current_pose /\ current_mode' = current_mode
      /\ queue' = queue /\ text_read' = text_read /\ input_buffer' = input_buffer
      /\ yaw_in_flight' = yaw_in_flight
  BY CountStep
<1>1. CASE AwaitOrigin /\ current_pose = {}
  <2>1. /\ at # "yaw" /\ at' = "loop" /\ streamed' = streamed
        /\ UNCHANGED <<currentState, origin, current_pose, current_mode, target,
                       init_counter, queue, text_read, input_buffer, setpoint,
                       mode_in_flight, yaw_in_flight, fcu_mode, position, settled,
                       heard, yaw_asked>>
    BY <1>1, <1>0 DEF AwaitOrigin, AtSwitch
  <2>2. TypeOK'
    BY <2>1
  <2>3. TargetInv' /\ OnlyHeardLines'
    BY <2>1 DEF TargetInv, OnlyHeardLines
  <2> QED
    BY <2>1, <2>2, <2>3, <1>0
<1>2. CASE AwaitOrigin /\ current_pose # {}
  <2>1. PICK pose \in current_pose : target' = pose
    BY <1>2 DEF AwaitOrigin
  <2>2. origin' = {target'} /\ target' \in Int
    <3>1. current_pose = {pose} /\ pose \in Int
      BY <2>1
    <3> QED
      BY <1>2, <2>1, <3>1 DEF AwaitOrigin
  <2>3. setpoint = {} /\ at # "yaw" /\ heard' = heard
    BY <1>2, <1>0 DEF AwaitOrigin, AtSwitch
  <2>4. /\ currentState' = "INITIALIZING" /\ init_counter' = 0 /\ at' = "loop"
        /\ UNCHANGED <<current_pose, current_mode, queue, text_read, input_buffer,
                       setpoint, mode_in_flight, yaw_in_flight>>
    BY <1>2 DEF AwaitOrigin
  <2>5. TypeOK'
    BY <2>2, <2>3, <2>4, <1>0
  <2>6. TargetInv' /\ OnlyHeardLines'
    BY <2>2, <2>3, <2>4 DEF TargetInv, OnlyHeardLines
  <2>7. TakeoverInv' /\ InputInv' /\ StreamBeforeRequest'
    BY <2>2, <2>3, <2>4, <1>0
  <2> QED
    BY <2>5, <2>6, <2>7
<1>3. ASSUME Publish, UNCHANGED <<origin, target, current_pose, current_mode, queue,
                                  text_read, input_buffer>>,
             currentState # "AWAITING_ORIGIN", at # "yaw",
             at' \in {"loop", "mode"}, currentState' # "AWAITING_ORIGIN",
             init_counter' \in 0 .. InitPublishCount, init_counter' <= streamed',
             mode_in_flight' \subseteq {"GUIDED"},
             mode_in_flight' # {} => streamed' > InitPublishCount,
             \/ currentState' = currentState
             \/ guided_seen' /\ currentState' = "HOLDING"
      PROVE  IInv'
  <2>1. origin # {}
    BY <1>3
  <2>2. UNCHANGED <<heard, yaw_in_flight>>
    BY <1>0
  <2>3. setpoint' \subseteq [position : Int, type_mask : Nat] /\ OnlyHeardLines'
    BY <1>3, <2>1, <2>2, PublishedSetpoint
  <2>4. TypeOK'
    BY <1>3, <2>3, <1>0
  <2>5. TargetInv'
    BY <1>3, <2>2 DEF TargetInv
  <2>6. TakeoverInv'
    BY <1>3, <1>0
  <2>7. InputInv' /\ StreamBeforeRequest'
    BY <1>3, <2>2
  <2> QED
    BY <2>3, <2>4, <2>5, <2>6, <2>7
<1>4. CASE InitializeStreams
  <2>1. /\ Publish /\ origin' = origin /\ target' = target
        /\ at # "yaw" /\ at' \in {"loop", "mode"}
    BY <1>4 DEF InitializeStreams, AtSwitch
  <2>2. currentState # "AWAITING_ORIGIN" /\ currentState' = currentState
    BY <1>4 DEF InitializeStreams
  <2>3. /\ init_counter' \in 0 .. InitPublishCount /\ init_counter' <= streamed'
        /\ mode_in_flight' \subseteq {"GUIDED"}
        /\ mode_in_flight' # {} => streamed' > InitPublishCount
    BY <1>0, <1>4 DEF InitializeStreams, Lesser
  <2> QED
    BY <1>0, <1>3, <2>1, <2>2, <2>3
<1>5. CASE InitializeAsks
  <2>1. /\ Publish /\ origin' = origin /\ target' = target
        /\ at # "yaw" /\ at' \in {"loop", "mode"}
    BY <1>5 DEF InitializeAsks, AtSwitch
  <2>2. currentState # "AWAITING_ORIGIN" /\ currentState' = currentState
    BY <1>5 DEF InitializeAsks
  <2>3. /\ init_counter' \in 0 .. InitPublishCount /\ init_counter' <= streamed'
        /\ mode_in_flight' \subseteq {"GUIDED"}
        /\ mode_in_flight' # {} => streamed' > InitPublishCount
    BY <1>0, <1>5 DEF InitializeAsks, Lesser
  <2> QED
    BY <1>0, <1>3, <2>1, <2>2, <2>3
<1>6. CASE InitializeCannotAsk
  <2>1. /\ Publish /\ origin' = origin /\ target' = target
        /\ at # "yaw" /\ at' \in {"loop", "mode"}
    BY <1>6 DEF InitializeCannotAsk, AtSwitch
  <2>2. currentState # "AWAITING_ORIGIN" /\ currentState' = currentState
    BY <1>6 DEF InitializeCannotAsk
  <2>3. /\ init_counter' \in 0 .. InitPublishCount /\ init_counter' <= streamed'
        /\ mode_in_flight' \subseteq {"GUIDED"}
        /\ mode_in_flight' # {} => streamed' > InitPublishCount
    BY <1>0, <1>6 DEF InitializeCannotAsk, Lesser
  <2> QED
    BY <1>0, <1>3, <2>1, <2>2, <2>3
<1>7. CASE InitializeEnds
  <2>1. guided_seen'
    <3>1. streamed' > InitPublishCount /\ current_mode = "GUIDED"
      BY <1>7, <1>0 DEF InitializeEnds, Lesser
    <3>2. guided_seen' = (guided_seen \/ (streamed' > InitPublishCount
                                          /\ current_mode = "GUIDED"))
      BY DEF PassSwitch
    <3> QED
      BY <3>1, <3>2
  <2>2. /\ Publish /\ origin' = origin /\ target' = target
        /\ at # "yaw" /\ at' \in {"loop", "mode"}
        /\ currentState = "INITIALIZING" /\ currentState' = "HOLDING"
    BY <1>7 DEF InitializeEnds, AtSwitch
  <2>3. /\ init_counter' \in 0 .. InitPublishCount /\ init_counter' <= streamed'
        /\ mode_in_flight' \subseteq {"GUIDED"}
        /\ mode_in_flight' # {} => streamed' > InitPublishCount
    BY <1>0, <1>7 DEF InitializeEnds, Lesser
  <2> QED
    BY <1>0, <1>3, <2>1, <2>2, <2>3
<1>8. CASE Hold
  <2>1. /\ Publish /\ origin' = origin /\ target' = target
        /\ at # "yaw" /\ at' \in {"loop", "mode"}
    BY <1>8 DEF Hold, AtSwitch
  <2>2. currentState # "AWAITING_ORIGIN" /\ currentState' = currentState
    BY <1>8 DEF Hold
  <2>3. /\ init_counter' \in 0 .. InitPublishCount /\ init_counter' <= streamed'
        /\ mode_in_flight' \subseteq {"GUIDED"}
        /\ mode_in_flight' # {} => streamed' > InitPublishCount
    BY <1>0, <1>8 DEF Hold, Lesser
  <2> QED
    BY <1>0, <1>3, <2>1, <2>2, <2>3
<1>9. CASE Move
  <2>1. /\ Publish /\ origin' = origin /\ target' = target
        /\ at # "yaw" /\ at' \in {"loop", "mode"}
    BY <1>9 DEF Move, AtSwitch
  <2>2. currentState = "MOVING" /\ currentState' \in {"HOLDING", "MOVING"} /\ guided_seen
    BY <1>9 DEF Move
  <2>3. /\ init_counter' \in 0 .. InitPublishCount /\ init_counter' <= streamed'
        /\ mode_in_flight' \subseteq {"GUIDED"}
        /\ mode_in_flight' # {} => streamed' > InitPublishCount
    BY <1>0, <1>9 DEF Move, Lesser
  <2> QED
    BY <1>0, <1>3, <2>1, <2>2, <2>3
<1> QED
  BY <1>1, <1>2, <1>4, <1>5, <1>6, <1>7, <1>8, <1>9 DEF PassSwitch, Switch

\* The text of a line, its newline, and the end of its yaw command
\* (guided_control.cpp:70-105).
LEMMA LineStep ==
    ASSUME IInv, Text \/ Command \/ YawReturns
    PROVE  IInv'
<1> USE GuidedAssumption
        DEF GuidedAssumption, IInv, TypeOK, TakeoverInv, InputInv, StreamBeforeRequest,
            poseVars, flightVars, inputVars, worldVars, historyVars
<1>1. CASE Text
  <2>1. Head(queue) \in Lines /\ Append(input_buffer, Head(queue)) = <<Head(queue)>>
    BY <1>1 DEF Text, ReadText
  <2>2. TargetInv' /\ OnlyHeardLines'
    BY <1>1 DEF Text, ReadText, TargetInv, OnlyHeardLines
  <2> QED
    BY <1>1, <2>1, <2>2 DEF Text, ReadText
<1>2. ASSUME ReadNewline
      PROVE  /\ Head(queue) \in Lines /\ Tail(queue) \in Seq(Lines)
             /\ input_buffer = <<Head(queue)>> /\ Head(input_buffer) = Head(queue)
             /\ <<>> \in Seq(Lines)
  BY <1>2 DEF ReadNewline
<1>3. CASE Command /\ LineIgnored
  <2>1. /\ heard \subseteq heard' /\ heard' \subseteq Lines
        /\ UNCHANGED <<worldVars, streamed, guided_seen>>
    BY <1>2, <1>3 DEF Command, LineIgnored
  <2>2. TargetInv' /\ OnlyHeardLines'
    BY <1>3, <2>1 DEF LineIgnored, TargetInv, OnlyHeardLines
  <2> QED
    BY <1>2, <1>3, <2>1, <2>2 DEF LineIgnored, ReadNewline
<1>4. ASSUME Command, TakesCommands
      PROVE  /\ heard' = heard \cup {Head(queue)}
             /\ UNCHANGED <<worldVars, streamed, guided_seen>>
  BY <1>4 DEF Command, TakesCommands
<1>5. CASE Command /\ LineWithYaw
  <2>1. /\ heard' = heard \cup {Head(queue)} /\ Head(queue) \in Lines
        /\ input_buffer' = <<Head(queue)>> /\ Head(input_buffer') = Head(queue)
        /\ yaw_in_flight' = yaw_in_flight \cup {Head(queue).yaw}
        /\ Head(queue).yaw \in Int
        /\ UNCHANGED <<worldVars, streamed, guided_seen>>
    BY <1>2, <1>4, <1>5 DEF LineWithYaw
  <2>2. TargetInv' /\ OnlyHeardLines'
    BY <1>5, <2>1 DEF LineWithYaw, TargetInv, OnlyHeardLines
  <2>3. InputInv'
    BY <1>5, <2>1 DEF LineWithYaw, ReadNewline
  <2>4. TypeOK' /\ TakeoverInv' /\ StreamBeforeRequest'
    BY <1>2, <1>5, <2>1 DEF LineWithYaw, ReadNewline, TakesCommands
  <2> QED
    BY <2>2, <2>3, <2>4
<1>6. CASE Command /\ LineWithoutYaw
  <2>1. /\ heard' = heard \cup {Head(queue)} /\ Head(queue) \in Lines
        /\ ApplyOffset(Head(queue).offset)
        /\ UNCHANGED <<worldVars, streamed, guided_seen>>
    BY <1>2, <1>4, <1>6 DEF LineWithoutYaw
  <2>2. target' \in Int /\ currentState' \in {"HOLDING", "MOVING"} /\ TargetInv'
    BY <1>6, <2>1, OffsetType DEF LineWithoutYaw, TakesCommands
  <2>3. OnlyHeardLines'
    BY <1>6, <2>1 DEF LineWithoutYaw, OnlyHeardLines
  <2> QED
    BY <1>2, <1>6, <2>1, <2>2, <2>3 DEF LineWithoutYaw, ReadNewline, TakesCommands
<1>7. CASE YawReturns
  <2>1. /\ Head(input_buffer) \in heard /\ Head(input_buffer) \in Lines
        /\ ApplyOffset(Head(input_buffer).offset) /\ ~text_read
        /\ currentState \in {"HOLDING", "MOVING"} /\ <<>> \in Seq(Lines)
    BY <1>7 DEF YawReturns, YawCallReturns
  <2>2. target' \in Int /\ currentState' \in {"HOLDING", "MOVING"} /\ TargetInv'
    BY <1>7, <2>1, OffsetType DEF YawReturns, YawCallReturns
  <2>3. OnlyHeardLines'
    BY <1>7 DEF YawReturns, YawCallReturns, OnlyHeardLines
  <2> QED
    BY <1>7, <2>1, <2>2, <2>3 DEF YawReturns, YawCallReturns
<1> QED
  BY <1>1, <1>3, <1>5, <1>6, <1>7 DEF Command

\* The rest of the world (guided_control.cpp:37-47, 62-71).
LEMMA WorldStep ==
    ASSUME IInv,
           \/ TypeLine \/ ModeReturns \/ Pose \/ Report \/ ObeyMode \/ LoseRequest
           \/ Follow \/ PilotFlies \/ PilotSets \/ Settle
    PROVE  IInv'
<1> USE GuidedAssumption, MissionAssumption
        DEF GuidedAssumption, MissionAssumption, IInv, TypeOK, TakeoverInv,
            InputInv, TargetInv, StreamBeforeRequest, OnlyHeardLines, guidedVars,
            poseVars, flightVars, inputVars, worldVars, historyVars
<1>1. CASE ModeReturns
  BY <1>1 DEF ModeReturns, ModeCallReturns
<1>2. CASE Pose
  BY <1>2 DEF Pose, PoseCallback
<1>3. CASE Report
  BY <1>3 DEF Report, StateCallback
<1>4. CASE ObeyMode
  BY <1>4 DEF ObeyMode
<1>5. CASE LoseRequest
  BY <1>5 DEF LoseRequest
<1>6. CASE Follow
  <2>1. position' \in Int
    BY <1>6 DEF Follow
  <2> QED
    BY <1>6, <2>1 DEF Follow
<1>7. CASE PilotFlies
  BY <1>7 DEF PilotFlies
<1>8. CASE PilotSets
  BY <1>8 DEF PilotSets
<1>9. CASE Settle
  BY <1>9 DEF Settle
<1>10. CASE TypeLine
  <2>1. PICK line \in Lines : queue' = Append(queue, line)
    BY <1>10 DEF TypeLine
  <2>2. queue' \in Seq(Lines) /\ queue' # <<>>
    BY <2>1
  <2>3. queue # <<>> => Head(queue') = Head(queue)
    BY <2>1
  <2> QED
    BY <1>10, <2>2, <2>3 DEF TypeLine
<1> QED
  BY <1>1, <1>2, <1>3, <1>4, <1>5, <1>6, <1>7, <1>8, <1>9, <1>10

\* The inductive invariant.
THEOREM Invariance == Spec => []IInv
<1>1. Init => IInv
  <2> USE GuidedAssumption, MissionAssumption
          DEF GuidedAssumption, MissionAssumption, Init, GuidedInit
  <2> SUFFICES ASSUME Init PROVE IInv
    OBVIOUS
  <2>1. text_read \in BOOLEAN /\ ~text_read /\ <<>> \in Seq(Lines)
    <3>1. text_read = FALSE
      OBVIOUS
    <3>2. <<>> \in Seq(Lines)
      OBVIOUS
    <3> QED
      BY <3>1, <3>2, Zenon
  <2>2. TypeOK
    BY <2>1 DEF TypeOK
  <2>3. TakeoverInv /\ InputInv
    BY <2>1 DEF TakeoverInv, InputInv
  <2>4. TargetInv /\ StreamBeforeRequest /\ OnlyHeardLines
    BY DEF TargetInv, StreamBeforeRequest, OnlyHeardLines
  <2> QED
    BY <2>2, <2>3, <2>4 DEF IInv
<1>2. IInv /\ [Next]_vars => IInv'
  <2> SUFFICES ASSUME IInv, [Next]_vars PROVE IInv'
    OBVIOUS
  <2>1. CASE UNCHANGED vars
    BY <2>1 DEF vars, guidedVars, poseVars, flightVars, inputVars, worldVars,
                historyVars, IInv, TypeOK, TakeoverInv, InputInv, TargetInv,
                StreamBeforeRequest, OnlyHeardLines
  <2>2. CASE Next
    BY <2>2, PassStep, LineStep, WorldStep DEF Next
  <2> QED
    BY <2>1, <2>2
<1> QED
  BY <1>1, <1>2, PTL DEF Spec

\* In every order of passes, callbacks and answers the state is well typed, and the
\* counter of setpoints stops at its bound.
THEOREM TypeCorrectness == Spec => []TypeOK
<1>1. IInv => TypeOK
  BY DEF IInv
<1> QED
  BY <1>1, Invariance, PTL

\* guided_control.cpp:132-143: no request for GUIDED is under way before more than
\* INIT_PUBLISH_COUNT setpoints have been published.
THEOREM StreamFirst == Spec => []StreamBeforeRequest
<1>1. IInv => StreamBeforeRequest
  BY DEF IInv
<1> QED
  BY <1>1, Invariance, PTL

\* guided_control.cpp:70-105, 117-148: nothing but the origin and lines that ended
\* after GUIDED was seen is ever sent, however early they were typed.
THEOREM HeardOnly == Spec => []OnlyHeardLines
<1>1. IInv => OnlyHeardLines
  BY DEF IInv
<1> QED
  BY <1>1, Invariance, PTL
=============================================================================
