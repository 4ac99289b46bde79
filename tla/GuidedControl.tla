---------------------------- MODULE GuidedControl ----------------------------
(***************************************************************************)
(* The program guided_control (src/guided_control.cpp): an operator types  *)
(* "x,y,z,yaw" and the vehicle is flown there in the autopilot's GUIDED    *)
(* mode.  One thread alternates between the callbacks (spin_some) and a    *)
(* pass of loop().  A pass may wait for the answer of a service; while it  *)
(* waits the callbacks run, and the setpoints stop.                        *)
(*                                                                         *)
(* Positions have one coordinate.  The terminal hands over whole lines; a  *)
(* pass reads one character of one.  The passes that read the text of a    *)
(* line are one step, in whatever state of the program, and so is the pass *)
(* that reads its newline.  A line that cannot be parsed does what one of  *)
(* zeros does.                                                             *)
(***************************************************************************)
EXTENDS Arith, Sequences

CONSTANTS
    Lines,               \* what the operator types: an offset and a yaw
    Modes, NoMode,       \* the autopilot's modes; nothing reported yet
    InitPublishCount, ArrivalThreshold,
    TypeMask             \* type_mask, the fields a setpoint marks as ignored

ASSUME GuidedAssumption ==
    /\ Lines \subseteq [offset : Int, yaw : Int]
    /\ "GUIDED" \in Modes /\ NoMode \notin Modes
    /\ InitPublishCount \in Nat /\ ArrivalThreshold \in Nat /\ TypeMask \in Nat

VARIABLES
    currentState,        \* AWAITING_ORIGIN, INITIALIZING, HOLDING or MOVING
    origin,              \* {} or {origin_pose}; origin_set is origin # {}
    current_pose,        \* {} or {the last pose}; pose_received likewise
    current_mode,        \* of current_state_msg
    target,              \* target_pose_msg.position
    init_counter,
    at,                  \* where the thread is: "loop" between two passes,
                         \* "yaw" and "mode" waiting for a service, "switch"
                         \* past the input
    queue,               \* external: lines in the terminal, up to their newline
    text_read,           \* all of the first of them is read but its newline
    input_buffer,        \* the texts read since it was cleared
    setpoint,            \* {} or {the last setpoint published}
    mode_in_flight,      \* external: SetMode requests MAVROS has not acted on
    yaw_in_flight        \* external: yaw commands likewise

poseVars == <<current_pose, current_mode>>
flightVars == <<mode_in_flight, yaw_in_flight>>
inputVars == <<queue, text_read, input_buffer>>
guidedVars == <<currentState, origin, poseVars, target, init_counter, at, inputVars,
                setpoint, flightVars>>

GuidedInit ==
    /\ currentState = "AWAITING_ORIGIN"
    /\ origin = {} /\ current_pose = {} /\ current_mode = NoMode
    /\ target = 0 /\ init_counter = 0
    /\ at = "loop" /\ queue = <<>> /\ text_read = FALSE /\ input_buffer = <<>>
    /\ setpoint = {} /\ mode_in_flight = {} /\ yaw_in_flight = {}
-----------------------------------------------------------------------------
Publish == setpoint' = {[position |-> target, type_mask |-> TypeMask]}

Arrived == \E pose \in current_pose : Distance(target, pose) < ArrivalThreshold

\* The offset of a line, executed after the yaw of it.
ApplyOffset(offset) ==
    IF offset = 0 THEN UNCHANGED <<target, currentState>>
    ELSE /\ \E pose \in origin : target' = pose + offset
         /\ currentState' = "MOVING"
-----------------------------------------------------------------------------
\* Mutant of PoseCallback: only the first pose is kept.
FirstPoseCallback(pose) ==
    /\ at # "switch"
    /\ current_pose' = IF current_pose = {} THEN {pose} ELSE current_pose
    /\ UNCHANGED <<currentState, origin, current_mode, target, init_counter, at,
                   inputVars, setpoint, flightVars>>

\* spin_some before a pass, and the spinning inside a wait.
PoseCallback(pose) ==
    /\ at # "switch"
    /\ current_pose' = {pose}
    /\ UNCHANGED <<currentState, origin, current_mode, target, init_counter, at,
                   inputVars, setpoint, flightVars>>

StateCallback(mode) ==
    /\ at # "switch"
    /\ current_mode' = mode
    /\ UNCHANGED <<currentState, origin, current_pose, target, init_counter, at,
                   inputVars, setpoint, flightVars>>

\* A pass reads the last character before a newline, in any state.
ReadText ==
    /\ at = "loop" /\ queue # <<>> /\ ~text_read
    /\ text_read' = TRUE
    /\ input_buffer' = Append(input_buffer, Head(queue))
    /\ at' = "switch"
    /\ UNCHANGED <<currentState, origin, poseVars, target, init_counter, queue,
                   setpoint, flightVars>>

\* A pass reads the newline: only now the line is judged, by the state there is.
ReadNewline == /\ at = "loop" /\ text_read
               /\ queue' = Tail(queue) /\ text_read' = FALSE

TakesCommands == currentState \in {"HOLDING", "MOVING"}

\* Mutant of LineIgnored: only a line that is obeyed clears the buffer.
LineIgnoredKept ==
    /\ ReadNewline /\ ~TakesCommands
    /\ at' = "switch"
    /\ UNCHANGED <<currentState, origin, poseVars, target, init_counter, input_buffer,
                   setpoint, flightVars>>

LineIgnored ==
    /\ ReadNewline /\ ~TakesCommands
    /\ input_buffer' = <<>>
    /\ at' = "switch"
    /\ UNCHANGED <<currentState, origin, poseVars, target, init_counter, setpoint,
                   flightVars>>

LineWithYaw ==
    /\ ReadNewline /\ TakesCommands
    /\ Head(input_buffer).yaw # 0
    /\ yaw_in_flight' = yaw_in_flight \cup {Head(input_buffer).yaw}
    /\ at' = "yaw"
    /\ UNCHANGED <<currentState, origin, poseVars, target, init_counter, input_buffer,
                   setpoint, mode_in_flight>>

\* No yaw to command, or no service to command it.
LineWithoutYaw ==
    /\ ReadNewline /\ TakesCommands
    /\ ApplyOffset(Head(input_buffer).offset)
    /\ input_buffer' = <<>>
    /\ at' = "switch"
    /\ UNCHANGED <<origin, poseVars, init_counter, setpoint, flightVars>>

\* The wait for the yaw command ends: an answer, or one second has passed.
YawCallReturns ==
    /\ at = "yaw"
    /\ ApplyOffset(Head(input_buffer).offset)
    /\ input_buffer' = <<>>
    /\ at' = "switch"
    /\ UNCHANGED <<origin, poseVars, init_counter, queue, text_read, setpoint,
                   flightVars>>

\* The switch, also reached by a pass that has read nothing or the middle of a line.
AtSwitch == at \in {"loop", "switch"}

AwaitOrigin ==
    /\ AtSwitch /\ currentState = "AWAITING_ORIGIN"
    /\ IF current_pose = {} THEN UNCHANGED <<currentState, origin, target, init_counter>>
       ELSE /\ origin' = current_pose
            /\ \E pose \in current_pose : target' = pose
            /\ currentState' = "INITIALIZING"
            /\ init_counter' = 0
    /\ at' = "loop"
    /\ UNCHANGED <<poseVars, inputVars, setpoint, flightVars>>

\* Mutant of InitializeStreams: the counter runs on.
InitializeStreamsOn ==
    /\ AtSwitch /\ currentState = "INITIALIZING"
    /\ Publish
    /\ init_counter' = init_counter + 1
    /\ at' = "loop"
    /\ UNCHANGED <<currentState, origin, poseVars, target, inputVars, flightVars>>

InitializeStreams ==
    /\ AtSwitch /\ currentState = "INITIALIZING"
    /\ Publish
    /\ init_counter < InitPublishCount
    /\ init_counter' = init_counter + 1
    /\ at' = "loop"
    /\ UNCHANGED <<currentState, origin, poseVars, target, inputVars, flightVars>>

\* Mutants of InitializeAsks: without waiting for the stream of setpoints;
\* once only.
InitializeAsksAtOnce ==
    /\ AtSwitch /\ currentState = "INITIALIZING"
    /\ Publish
    /\ current_mode # "GUIDED"
    /\ mode_in_flight' = mode_in_flight \cup {"GUIDED"}
    /\ at' = "mode"
    /\ UNCHANGED <<currentState, origin, poseVars, target, init_counter, inputVars,
                   yaw_in_flight>>

InitializeAsksOnce ==
    /\ AtSwitch /\ currentState = "INITIALIZING"
    /\ Publish
    /\ init_counter = InitPublishCount
    /\ init_counter' = init_counter + 1
    /\ current_mode # "GUIDED"
    /\ mode_in_flight' = mode_in_flight \cup {"GUIDED"}
    /\ at' = "mode"
    /\ UNCHANGED <<currentState, origin, poseVars, target, inputVars, yaw_in_flight>>

InitializeAsks ==
    /\ AtSwitch /\ currentState = "INITIALIZING"
    /\ Publish
    /\ init_counter >= InitPublishCount
    /\ current_mode # "GUIDED"
    /\ mode_in_flight' = mode_in_flight \cup {"GUIDED"}
    /\ at' = "mode"
    /\ UNCHANGED <<currentState, origin, poseVars, target, init_counter, inputVars,
                   yaw_in_flight>>

\* The service is not there: the pass ends without a request.
InitializeCannotAsk ==
    /\ AtSwitch /\ currentState = "INITIALIZING"
    /\ Publish
    /\ init_counter >= InitPublishCount
    /\ current_mode # "GUIDED"
    /\ at' = "loop"
    /\ UNCHANGED <<currentState, origin, poseVars, target, init_counter, inputVars,
                   flightVars>>

InitializeEnds ==
    /\ AtSwitch /\ currentState = "INITIALIZING"
    /\ Publish
    /\ init_counter >= InitPublishCount
    /\ current_mode = "GUIDED"
    /\ currentState' = "HOLDING"
    /\ at' = "loop"
    /\ UNCHANGED <<origin, poseVars, target, init_counter, inputVars, flightVars>>

ModeCallReturns ==
    /\ at = "mode"
    /\ at' = "loop"
    /\ UNCHANGED <<currentState, origin, poseVars, target, init_counter, inputVars,
                   setpoint, flightVars>>

Hold ==
    /\ AtSwitch /\ currentState = "HOLDING"
    /\ Publish
    /\ at' = "loop"
    /\ UNCHANGED <<currentState, origin, poseVars, target, init_counter, inputVars,
                   flightVars>>

Move ==
    /\ AtSwitch /\ currentState = "MOVING"
    /\ Publish
    /\ currentState' = IF Arrived THEN "HOLDING" ELSE "MOVING"
    /\ at' = "loop"
    /\ UNCHANGED <<origin, poseVars, target, init_counter, inputVars, flightVars>>

\* What a pass without a line, or the rest of a pass with one, may do.
Switch ==
    \/ AwaitOrigin
    \/ InitializeStreams \/ InitializeAsks \/ InitializeCannotAsk \/ InitializeEnds
    \/ Hold \/ Move
=============================================================================
