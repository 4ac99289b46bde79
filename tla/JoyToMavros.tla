---------------------------- MODULE JoyToMavros ----------------------------
(***************************************************************************)
(* The node joy2mavros (src/joy2mavros.cpp): the pilot's gamepad becomes   *)
(* RC overrides, mode requests and arming requests.  ALT_HOLD is entered   *)
(* in two steps: the vertical channel is held neutral for a while, and a   *)
(* 50 ms timer then sends the request and keeps the channel neutral a      *)
(* little longer.  Joystick callback and timer share all their state; they *)
(* run one at a time, in any order.                                        *)
(*                                                                         *)
(* Deadlines are kept as the time left until them, in timer periods: 0 is  *)
(* a deadline that has passed.  Axes are in hundredths.  Of the channels,  *)
(* the vertical one and the lights are modelled: the others are functions  *)
(* of the current message alone.                                           *)
(***************************************************************************)
EXTENDS Arith

CONSTANTS
    Messages,           \* the gamepad messages that may arrive
    EntryNeutral,       \* alt_hold_entry_neutral_sec
    PostEntryNeutral,   \* alt_hold_post_entry_neutral_sec
    VerticalDeadzone, PwmRange

Buttons == {4, 5, 6, 10}
Axes == {3, 6, 7}
AxisValues == -100 .. 100

ASSUME JoyAssumption ==
    /\ Messages \subseteq [buttons : [Buttons -> {0, 1}], axes : [Axes -> AxisValues]]
    /\ EntryNeutral \in Nat /\ PostEntryNeutral \in Nat
    /\ VerticalDeadzone \in Nat /\ PwmRange \in Nat

VARIABLES
    last_joy_msg,              \* {} until the first message has come
    led_pwm,
    alt_hold_request_pending,
    mode_request_in,           \* time left until alt_hold_mode_request_at_
    neutral_for,               \* time left until alt_hold_neutral_until_
    vertical,                  \* the vertical channel of the last override
    sent                       \* the service requests the last step sent

altHoldVars == <<alt_hold_request_pending, mode_request_in, neutral_for>>
joyVars == <<last_joy_msg, led_pwm, altHoldVars, vertical, sent>>

NeutralPwm == 1500

JoyInit ==
    /\ last_joy_msg = {} /\ led_pwm = 1500
    /\ alt_hold_request_pending = FALSE
    /\ mode_request_in = 0 /\ neutral_for = 0
    /\ vertical = NeutralPwm
    /\ sent = {}
-----------------------------------------------------------------------------
Clamped(x, low, high) == Lesser(Greater(x, low), high)

VerticalPwm(axis) ==
    IF Distance(axis, 0) < VerticalDeadzone THEN NeutralPwm
    ELSE Clamped(NeutralPwm + (axis * PwmRange) \div 100, 1100, 1900)

Pressed(msg, button) == msg.buttons[button] = 1
Rising(msg, old, button) == Pressed(msg, button) /\ ~Pressed(old, button)
Moved(msg, old, axis, value) == msg.axes[axis] = value /\ old.axes[axis] # value

\* setMode: the mode the pilot asks for; a later test overrides an earlier one.
NewMode(msg, old) ==
    IF Moved(msg, old, 6, -100)
    THEN IF Pressed(msg, 10) THEN "GUIDED" ELSE "POSHOLD"
    ELSE IF Moved(msg, old, 6, 100)  THEN "ALT_HOLD"
    ELSE IF Moved(msg, old, 7, -100) THEN "STABILIZE"
    ELSE IF Moved(msg, old, 7, 100)  THEN "MANUAL"
    ELSE "NONE"

ArmingRequests(msg, old) ==
    {r \in {"DISARM", "ARM"} :
        \/ r = "DISARM" /\ Rising(msg, old, 4) /\ ~Pressed(msg, 5)
        \/ r = "ARM" /\ Pressed(msg, 4) /\ Pressed(msg, 5)
             /\ (~Pressed(old, 4) \/ ~Pressed(old, 5))}

\* A request is dropped when its service is not available.
SendOrDrop(requests) == sent' \in SUBSET requests

\* Mutant of ScheduleAltHold: the request is not marked pending.
ScheduleNothing ==
    /\ UNCHANGED alt_hold_request_pending
    /\ mode_request_in' = EntryNeutral
    /\ neutral_for' = EntryNeutral

ScheduleAltHold ==
    /\ alt_hold_request_pending' = TRUE
    /\ mode_request_in' = EntryNeutral
    /\ neutral_for' = EntryNeutral

\* Mutant of SwitchLed: the lights go below their range.
SwitchLedUnclamped(msg, old) ==
    led_pwm' = IF ~Rising(msg, old, 6) THEN led_pwm
               ELSE IF Pressed(msg, 5) THEN led_pwm - 100
               ELSE Lesser(led_pwm + 100, 1800)

SwitchLed(msg, old) ==
    led_pwm' = IF ~Rising(msg, old, 6) THEN led_pwm
               ELSE IF Pressed(msg, 5) THEN Greater(led_pwm - 100, 1100)
               ELSE Lesser(led_pwm + 100, 1800)

\* Mutant of PublishOverride: neutral as long as a request is pending.
PublishOverrideWhilePending(msg) ==
    vertical' = VerticalPwm(IF alt_hold_request_pending' \/ neutral_for' > 0
                            THEN 0 ELSE msg.axes[3])

\* The override that ends joyCallback, after setMode has had its effect.
PublishOverride(msg) ==
    vertical' = VerticalPwm(IF neutral_for' > 0 THEN 0 ELSE msg.axes[3])
-----------------------------------------------------------------------------
FirstJoy(msg) ==
    /\ last_joy_msg = {}
    /\ last_joy_msg' = {msg}
    /\ sent' = {}
    /\ UNCHANGED <<led_pwm, altHoldVars, vertical>>

\* joyCallback without a mode change, with ALT_HOLD, and with another mode.
JoyKeepsMode(msg, old) ==
    /\ NewMode(msg, old) = "NONE"
    /\ SendOrDrop(ArmingRequests(msg, old))
    /\ UNCHANGED altHoldVars

JoyAsksAltHold(msg, old) ==
    /\ NewMode(msg, old) = "ALT_HOLD"
    /\ ScheduleAltHold
    /\ SendOrDrop(ArmingRequests(msg, old))

\* Mutant of JoyAsksMode: a pending ALT_HOLD is not cancelled.
JoyAsksModeToo(msg, old) ==
    /\ NewMode(msg, old) \notin {"NONE", "ALT_HOLD"}
    /\ SendOrDrop(ArmingRequests(msg, old) \cup {NewMode(msg, old)})
    /\ UNCHANGED altHoldVars

JoyAsksMode(msg, old) ==
    /\ NewMode(msg, old) \notin {"NONE", "ALT_HOLD"}
    /\ alt_hold_request_pending' = FALSE
    /\ SendOrDrop(ArmingRequests(msg, old) \cup {NewMode(msg, old)})
    /\ UNCHANGED <<mode_request_in, neutral_for>>

JoyCallback(msg) ==
    \E old \in last_joy_msg :
        /\ \/ JoyKeepsMode(msg, old)
           \/ JoyAsksAltHold(msg, old)
           \/ JoyAsksMode(msg, old)
        /\ SwitchLed(msg, old)
        /\ PublishOverride(msg)
        /\ last_joy_msg' = {msg}

\* handle_pending_alt_hold_request: nothing to do, neutral kept, request due.
TimerIdle ==
    /\ ~alt_hold_request_pending /\ neutral_for = 0
    /\ sent' = {}
    /\ UNCHANGED <<last_joy_msg, led_pwm, altHoldVars, vertical>>

TimerKeepsNeutral ==
    /\ alt_hold_request_pending \/ neutral_for > 0
    /\ ~alt_hold_request_pending \/ mode_request_in > 0
    /\ vertical' = NeutralPwm
    /\ sent' = {}
    /\ UNCHANGED <<last_joy_msg, led_pwm, altHoldVars>>

\* Mutant of TimerRequestsAltHold: neutral is not extended past the request.
TimerRequestsAndReleases ==
    /\ alt_hold_request_pending /\ mode_request_in = 0
    /\ vertical' = NeutralPwm
    /\ alt_hold_request_pending' = FALSE
    /\ SendOrDrop({"ALT_HOLD"})
    /\ UNCHANGED <<last_joy_msg, led_pwm, mode_request_in, neutral_for>>

TimerRequestsAltHold ==
    /\ alt_hold_request_pending /\ mode_request_in = 0
    /\ vertical' = NeutralPwm
    /\ alt_hold_request_pending' = FALSE
    /\ neutral_for' = PostEntryNeutral
    /\ SendOrDrop({"ALT_HOLD"})
    /\ UNCHANGED <<last_joy_msg, led_pwm, mode_request_in>>

Timer == TimerIdle \/ TimerKeepsNeutral \/ TimerRequestsAltHold

\* One timer period passes; either callback may run late in it.
Tick ==
    /\ mode_request_in' = Greater(mode_request_in - 1, 0)
    /\ neutral_for' = Greater(neutral_for - 1, 0)
    /\ sent' = {}
    /\ UNCHANGED <<last_joy_msg, led_pwm, alt_hold_request_pending, vertical>>

\* The process dies and launch starts it again; the override in force is the
\* last one sent.
Respawn ==
    /\ last_joy_msg' = {} /\ led_pwm' = 1500
    /\ alt_hold_request_pending' = FALSE
    /\ mode_request_in' = 0 /\ neutral_for' = 0
    /\ sent' = {}
    /\ UNCHANGED vertical
=============================================================================
