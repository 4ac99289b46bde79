---------------------------- MODULE GuidedMission ----------------------------
(***************************************************************************)
(* guided_control with the autopilot, the vehicle, its operator and a      *)
(* pilot.  The autopilot follows the setpoints in GUIDED mode only; in     *)
(* other modes the vehicle is elsewhere the next time one looks.  At some  *)
(* moment operator and pilot may have settled: no line and no mode of      *)
(* theirs after that.                                                      *)
(***************************************************************************)
EXTENDS GuidedControl

CONSTANTS
    Positions,           \* where the vehicle may be taken by others
    QueueLimit           \* bound: how many lines the terminal holds

ASSUME MissionAssumption == Positions \subseteq Int /\ QueueLimit \in Nat

VARIABLES
    fcu_mode, position,  \* of the autopilot and the vehicle
    settled,
    streamed,            \* setpoints published so far (to InitPublishCount)
    guided_seen,         \* history: GUIDED was reported after those
    heard,               \* history: lines whose newline was read after that
    yaw_asked            \* history: a yaw command has gone out

worldVars == <<fcu_mode, position, settled>>
historyVars == <<streamed, guided_seen, heard, yaw_asked>>
vars == <<guidedVars, worldVars, historyVars>>

Init ==
    /\ GuidedInit
    /\ fcu_mode \in Modes /\ position \in Positions
    /\ settled = FALSE
    /\ streamed = 0 /\ guided_seen = FALSE
    /\ heard = {} /\ yaw_asked = FALSE

PassSwitch ==
    /\ Switch
    /\ streamed' = IF currentState = "AWAITING_ORIGIN" THEN streamed
                   ELSE Lesser(streamed + 1, InitPublishCount + 1)
    /\ guided_seen' = (guided_seen \/ (streamed' > InitPublishCount
                                       /\ current_mode = "GUIDED"))
    /\ UNCHANGED <<worldVars, heard, yaw_asked>>

\* External: the operator types a line, whatever the program is doing.
TypeLine ==
    /\ ~settled /\ Len(queue) < QueueLimit
    /\ \E line \in Lines : queue' = Append(queue, line)
    /\ UNCHANGED <<currentState, origin, poseVars, target, init_counter, at, text_read,
                   input_buffer, setpoint, flightVars, worldVars, historyVars>>

Text == ReadText /\ UNCHANGED <<worldVars, historyVars>>

\* A line comes to its end.
Command ==
    /\ \/ (LineIgnored \/ LineWithoutYaw) /\ UNCHANGED yaw_asked
       \/ LineWithYaw /\ yaw_asked' = TRUE
    /\ heard' = IF guided_seen THEN heard \cup {Head(queue)} ELSE heard
    /\ UNCHANGED <<worldVars, streamed, guided_seen>>

YawReturns == YawCallReturns /\ UNCHANGED <<worldVars, historyVars>>
ModeReturns == ModeCallReturns /\ UNCHANGED <<worldVars, historyVars>>
Pose == PoseCallback(position) /\ UNCHANGED <<worldVars, historyVars>>
Report == StateCallback(fcu_mode) /\ UNCHANGED <<worldVars, historyVars>>

\* External: a request is obeyed, however late, or comes to nothing.
ObeyMode ==
    /\ mode_in_flight # {}
    /\ mode_in_flight' = {} /\ fcu_mode' = "GUIDED"
    /\ UNCHANGED <<currentState, origin, poseVars, target, init_counter, at, inputVars,
                   setpoint, yaw_in_flight, position, settled, historyVars>>

LoseRequest ==
    /\ mode_in_flight # {} \/ yaw_in_flight # {}
    /\ mode_in_flight' = {} /\ yaw_in_flight' = {}
    /\ UNCHANGED <<currentState, origin, poseVars, target, init_counter, at, inputVars,
                   setpoint, worldVars, historyVars>>

\* External: the autopilot, one step towards the setpoint at a time.
Follow ==
    /\ fcu_mode = "GUIDED"
    /\ \E s \in setpoint :
         position' = IF s.position > position THEN position + 1
                     ELSE IF s.position < position THEN position - 1 ELSE position
    /\ UNCHANGED <<guidedVars, fcu_mode, settled, historyVars>>

\* External: the pilot flies, and picks a mode.
PilotFlies ==
    /\ ~settled /\ fcu_mode # "GUIDED"
    /\ position' \in Positions
    /\ UNCHANGED <<guidedVars, fcu_mode, settled, historyVars>>

PilotSets ==
    /\ ~settled
    /\ fcu_mode' \in Modes
    /\ UNCHANGED <<guidedVars, position, settled, historyVars>>

Settle == /\ ~settled /\ settled' = TRUE
          /\ UNCHANGED <<guidedVars, fcu_mode, position, historyVars>>

Next == \/ PassSwitch \/ TypeLine \/ Text \/ Command \/ YawReturns \/ ModeReturns
        \/ Pose \/ Report
        \/ ObeyMode \/ LoseRequest \/ Follow \/ PilotFlies \/ PilotSets \/ Settle

\* The thread keeps running, MAVROS keeps reporting, the vehicle flies.  A
\* service that is asked again and again is there some time, and some request
\* of infinitely many is obeyed.
Fairness ==
    /\ WF_vars(PassSwitch) /\ WF_vars(YawReturns) /\ WF_vars(ModeReturns)
    /\ SF_vars(PassSwitch /\ at' = "mode")
    /\ SF_vars(Pose) /\ SF_vars(Report)
    /\ SF_vars(ObeyMode) /\ WF_vars(Follow)

Spec == Init /\ [][Next]_vars /\ Fairness
-----------------------------------------------------------------------------
\* Well-typed state; init_counter_ stops at INIT_PUBLISH_COUNT.
TypeOK ==
    /\ currentState \in {"AWAITING_ORIGIN", "INITIALIZING", "HOLDING", "MOVING"}
    /\ origin \subseteq Int /\ current_pose \subseteq Int
    /\ (currentState = "AWAITING_ORIGIN") = (origin = {})
    /\ current_mode \in Modes \cup {NoMode} /\ fcu_mode \in Modes
    /\ target \in Int /\ position \in Int
    /\ queue \in Seq(Lines) /\ text_read \in BOOLEAN /\ input_buffer \in Seq(Lines)
    /\ init_counter \in 0 .. InitPublishCount
    /\ at \in {"loop", "yaw", "switch", "mode"}
    /\ setpoint \subseteq [position : Int, type_mask : Nat]
    /\ mode_in_flight \subseteq {"GUIDED"} /\ yaw_in_flight \subseteq Int
    /\ heard \subseteq Lines

\* guided_control.cpp:132-143: the autopilot is asked for GUIDED only when it
\* has been sent more than INIT_PUBLISH_COUNT setpoints, so that it has
\* something to follow; a wait for an earlier answer does not count.
StreamBeforeRequest ==
    mode_in_flight # {} => streamed > InitPublishCount

\* guided_control.cpp:70-105, 117-148: a setpoint is the origin or the target of a
\* line that ended after GUIDED had been reported on top of all those setpoints,
\* and a yaw command is that of such a line.  A line typed early is obeyed if its
\* newline is still unread by then; if not, nothing of it ever is, neither at
\* once nor in front of a later line.
OnlyHeardLines ==
    /\ \A s \in setpoint : \E o \in origin :
         s.position = o \/ \E line \in heard : s.position = o + line.offset
    /\ \A yaw \in yaw_in_flight : \E line \in heard : line.yaw = yaw

\* guided_control.cpp:109-151: with a pose to start from, the program does not
\* stay in its initialisation, although requests go unanswered, are lost, or
\* find no service, and each attempt blocks the thread.
TakeoverCompletes ==
    (settled /\ current_pose # {}) ~> currentState \in {"HOLDING", "MOVING"}

\* guided_control.cpp:157-177: a flight ends when nobody takes the vehicle
\* away any more, wherever the wait for a yaw command left it.
MoveCompletes ==
    (settled /\ fcu_mode = "GUIDED" /\ currentState = "MOVING")
       ~> currentState = "HOLDING"

\* guided_control.cpp:119 says the setpoint's yaw is ignored because of
\* type_mask: once a yaw command has gone out, no setpoint asks for a yaw
\* of its own.  1024 is IGNORE_YAW.
YawIsLeftAlone ==
    [][\A s \in setpoint' \ setpoint :
         yaw_asked => (s.type_mask \div 1024) % 2 = 1]_vars
=============================================================================
