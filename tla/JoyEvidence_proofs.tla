------------------------- MODULE JoyEvidence_proofs -------------------------
(***************************************************************************)
(* For all gamepad messages and all durations, with the timer as late as   *)
(* it likes: an ALT_HOLD request is prepared and followed by a neutral     *)
(* stick, and the stick is suppressed for no other reason.                 *)
(***************************************************************************)
EXTENDS JoyEvidence, TLAPS

ObserverType ==
    /\ asked \in BOOLEAN /\ early_stick \in BOOLEAN
    /\ asked_for \in 0 .. EntryNeutral
    /\ granted_for \in 0 .. PostEntryNeutral

\* The node's deadlines against the time that has passed since the wish and since
\* the request: a pending request waits at least as long as it has to, the channel
\* stays neutral that long, and for no longer than one of the two asks for.
DeadlineInv ==
    /\ alt_hold_request_pending =>
         /\ asked /\ ~early_stick
         /\ asked_for + mode_request_in >= EntryNeutral
         /\ mode_request_in <= neutral_for
    /\ neutral_for >= EntryNeutral - asked_for
    /\ neutral_for >= PostEntryNeutral - granted_for
    /\ \/ neutral_for <= EntryNeutral - asked_for
       \/ neutral_for <= PostEntryNeutral - granted_for

IInv ==
    /\ TypeOK /\ ObserverType /\ DeadlineInv /\ NeutralPeriodsAreKept
    /\ \A old, msg \in last_joy_msg : old = msg

\* joy2mavros.cpp:57-75: the vertical channel's pulse width, and that of a stick at
\* rest.
LEMMA VerticalType ==
    ASSUME NEW axis \in AxisValues
    PROVE  VerticalPwm(axis) \in 1100 .. 1900
<1>1. axis * PwmRange \in Int
  BY JoyAssumption DEF JoyAssumption, AxisValues
<1>2. (axis * PwmRange) \div 100 \in Int
  BY <1>1
<1> QED
  BY <1>2 DEF VerticalPwm, NeutralPwm, Clamped, Lesser, Greater

LEMMA VerticalAtRest == VerticalPwm(0) = NeutralPwm
<1>1. (0 * PwmRange) \div 100 = 0
  BY JoyAssumption DEF JoyAssumption
<1> QED
  BY <1>1 DEF VerticalPwm, NeutralPwm, Clamped, Lesser, Greater

\* The last two messages compared (joy2mavros.cpp:148-186).
LEMMA Callback ==
    ASSUME IInv, NEW msg \in Messages, JoyCallback(msg)
    PROVE  \E old \in Messages :
             /\ last_joy_msg = {old} /\ last_joy_msg' = {msg}
             /\ \/ JoyKeepsMode(msg, old)
                \/ JoyAsksAltHold(msg, old)
                \/ JoyAsksMode(msg, old)
             /\ SwitchLed(msg, old) /\ PublishOverride(msg)
<1>1. PICK old \in last_joy_msg :
        /\ \/ JoyKeepsMode(msg, old)
           \/ JoyAsksAltHold(msg, old)
           \/ JoyAsksMode(msg, old)
        /\ SwitchLed(msg, old) /\ PublishOverride(msg) /\ last_joy_msg' = {msg}
  BY DEF JoyCallback
<1>2. last_joy_msg = {old} /\ old \in Messages
  BY <1>1 DEF IInv, TypeOK
<1> QED
  BY <1>1, <1>2

\* A message that does not change is no wish.
LEMMA SameMessage ==
    ASSUME NEW msg
    PROVE  NewMode(msg, msg) = "NONE"
  BY DEF NewMode, Moved

\* Only the timer asks for ALT_HOLD (joy2mavros.cpp:104-136, 217-229).
LEMMA TimerAsks ==
    ASSUME IInv, Next, "ALT_HOLD" \in sent'
    PROVE  TimerRequestsAltHold
<1>1. ASSUME NEW msg \in Messages, JoyCallback(msg)
      PROVE  "ALT_HOLD" \notin sent'
  BY <1>1, Callback
     DEF JoyKeepsMode, JoyAsksAltHold, JoyAsksMode, SendOrDrop, ArmingRequests
<1> QED
  BY <1>1 DEF Next, First, Joy, Fire, Pass, Crash, FirstJoy, Timer, TimerIdle,
              TimerKeepsNeutral, Tick, Respawn

\* joyCallback, observed.
LEMMA JoyStep ==
    ASSUME IInv, NEW msg \in Messages, JoyCallback(msg), ObserveJoy(msg)
    PROVE  IInv'
<1> USE JoyAssumption DEF JoyAssumption, altHoldVars
<1>1. PICK old \in Messages :
        /\ last_joy_msg = {old} /\ last_joy_msg' = {msg}
        /\ \/ JoyKeepsMode(msg, old)
           \/ JoyAsksAltHold(msg, old)
           \/ JoyAsksMode(msg, old)
        /\ SwitchLed(msg, old) /\ PublishOverride(msg)
  BY Callback
<1>2. /\ asked' = (NewMode(msg, old) = "ALT_HOLD"
                     \/ (asked /\ NewMode(msg, old) = "NONE"))
      /\ asked_for' = IF NewMode(msg, old) = "ALT_HOLD" THEN 0 ELSE asked_for
      /\ early_stick' = \/ vertical' # NeutralPwm /\ asked_for' < EntryNeutral
                        \/ early_stick /\ NewMode(msg, old) # "ALT_HOLD"
      /\ granted_for' = IF NewMode(msg, old) = "ALT_HOLD" THEN PostEntryNeutral
                        ELSE granted_for
  BY <1>1 DEF ObserveJoy
<1>3. VerticalPwm(msg.axes[3]) \in 1100 .. 1900
  <2>1. msg.axes[3] \in AxisValues
    BY DEF Axes
  <2> QED
    BY <2>1, VerticalType
<1>4. ObserverType'
  <2>1. asked' \in BOOLEAN
    BY <1>2
  <2>2. early_stick' \in BOOLEAN
    BY <1>2
  <2> QED
    BY <1>2, <2>1, <2>2 DEF IInv, ObserverType
<1>5. /\ vertical' \in 1100 .. 1900
      /\ neutral_for' > 0 => vertical' = NeutralPwm
  <2>1. CASE neutral_for' > 0
    <3>1. vertical' = NeutralPwm
      BY <1>1, <2>1, VerticalAtRest DEF PublishOverride
    <3> QED
      BY <3>1 DEF NeutralPwm
  <2>2. CASE ~(neutral_for' > 0)
    <3>1. vertical' = VerticalPwm(msg.axes[3])
      BY <1>1, <2>2 DEF PublishOverride
    <3> QED
      BY <1>3, <2>2, <3>1
  <2> QED
    BY <2>1, <2>2
<1>6. led_pwm' \in 1100 .. 1800
  BY <1>1 DEF SwitchLed, IInv, TypeOK, Lesser, Greater
<1>7. CASE JoyKeepsMode(msg, old)
  <2>1. /\ NewMode(msg, old) = "NONE" /\ sent' \subseteq {"DISARM", "ARM"}
        /\ UNCHANGED <<alt_hold_request_pending, mode_request_in, neutral_for>>
    BY <1>7 DEF JoyKeepsMode, SendOrDrop, ArmingRequests
  <2>2. TypeOK'
    BY <1>1, <1>5, <1>6, <2>1 DEF IInv, TypeOK
  <2>3. alt_hold_request_pending' => ~early_stick' /\ asked'
    <3> SUFFICES ASSUME alt_hold_request_pending PROVE ~early_stick' /\ asked'
      BY <2>1
    <3>1. asked /\ ~early_stick
      BY DEF IInv, DeadlineInv
    <3>2. vertical' # NeutralPwm => ~(asked_for' < EntryNeutral)
      BY <1>2, <1>5, <2>1 DEF IInv, TypeOK, ObserverType, DeadlineInv
    <3> QED
      BY <1>2, <2>1, <3>1, <3>2
  <2>4. DeadlineInv'
    BY <1>2, <2>1, <2>3 DEF IInv, DeadlineInv
  <2>5. NeutralPeriodsAreKept'
    BY <1>2, <1>5, <2>1 DEF IInv, TypeOK, ObserverType, DeadlineInv, NeutralPeriodsAreKept
  <2> QED
    BY <1>1, <1>4, <2>2, <2>4, <2>5 DEF IInv
<1>8. CASE JoyAsksAltHold(msg, old)
  <2>1. /\ NewMode(msg, old) = "ALT_HOLD" /\ sent' \subseteq {"DISARM", "ARM"}
        /\ alt_hold_request_pending' = TRUE /\ mode_request_in' = EntryNeutral
        /\ neutral_for' = EntryNeutral
    BY <1>8 DEF JoyAsksAltHold, ScheduleAltHold, SendOrDrop, ArmingRequests
  <2>2. TypeOK'
    BY <1>1, <1>5, <1>6, <2>1 DEF IInv, TypeOK, Greater
  <2>3. ~early_stick' /\ asked' /\ asked_for' = 0
    <3>1. asked_for' = 0 /\ asked'
      BY <1>2, <2>1
    <3>2. vertical' # NeutralPwm => ~(asked_for' < EntryNeutral)
      BY <1>5, <2>1, <3>1
    <3> QED
      BY <1>2, <2>1, <3>1, <3>2
  <2>4. DeadlineInv'
    BY <1>2, <2>1, <2>3 DEF IInv, ObserverType, DeadlineInv
  <2>5. NeutralPeriodsAreKept'
    BY <1>2, <1>5, <2>1 DEF IInv, ObserverType, NeutralPeriodsAreKept
  <2> QED
    BY <1>1, <1>4, <2>2, <2>4, <2>5 DEF IInv
<1>9. CASE JoyAsksMode(msg, old)
  <2>1. /\ NewMode(msg, old) # "ALT_HOLD"
        /\ sent' \subseteq {"DISARM", "ARM", NewMode(msg, old)}
        /\ ~alt_hold_request_pending' /\ alt_hold_request_pending' \in BOOLEAN
        /\ UNCHANGED <<mode_request_in, neutral_for>>
    BY <1>9 DEF JoyAsksMode, SendOrDrop, ArmingRequests
  <2>2. NewMode(msg, old) \in {"MANUAL", "STABILIZE", "GUIDED", "POSHOLD"}
    BY <1>9 DEF JoyAsksMode, NewMode
  <2>3. TypeOK'
    BY <1>1, <1>5, <1>6, <2>1, <2>2 DEF IInv, TypeOK
  <2>4. DeadlineInv'
    BY <1>2, <2>1 DEF IInv, DeadlineInv
  <2>5. NeutralPeriodsAreKept'
    BY <1>2, <1>5, <2>1 DEF IInv, TypeOK, ObserverType, DeadlineInv, NeutralPeriodsAreKept
  <2> QED
    BY <1>1, <1>4, <2>3, <2>4, <2>5 DEF IInv
<1> QED
  BY <1>1, <1>7, <1>8, <1>9

\* The timer, observed (joy2mavros.cpp:205-232).
LEMMA FireStep ==
    ASSUME IInv, Fire
    PROVE  IInv'
<1> USE JoyAssumption DEF JoyAssumption, altHoldVars
<1>1. CASE TimerIdle
  BY <1>1 DEF Fire, ObserveTimer, TimerIdle, observerVars, IInv, TypeOK, ObserverType,
              DeadlineInv, NeutralPeriodsAreKept
<1>2. CASE TimerKeepsNeutral
  BY <1>2 DEF Fire, ObserveTimer, TimerKeepsNeutral, NeutralPwm, observerVars, IInv,
              TypeOK, ObserverType, DeadlineInv, NeutralPeriodsAreKept
<1>3. CASE TimerRequestsAltHold
  <2>1. /\ vertical' = NeutralPwm
        /\ neutral_for' = PostEntryNeutral /\ sent' \subseteq {"ALT_HOLD"}
        /\ UNCHANGED <<last_joy_msg, led_pwm, mode_request_in>>
    BY <1>3 DEF TimerRequestsAltHold, SendOrDrop
  <2>2. /\ alt_hold_request_pending /\ mode_request_in = 0
        /\ alt_hold_request_pending' = FALSE
    BY <1>3 DEF TimerRequestsAltHold
  <2>3. asked' = FALSE /\ granted_for' = 0 /\ UNCHANGED <<asked_for, early_stick>>
    BY <2>2 DEF Fire, ObserveTimer
  <2>4. {alt_hold_request_pending', asked'} \subseteq BOOLEAN
    BY <2>2, <2>3
  <2>5. ObserverType'
    BY <2>3, <2>4 DEF IInv, ObserverType
  <2>6. TypeOK'
    BY <2>1, <2>4 DEF NeutralPwm, IInv, TypeOK, Greater
  <2>7. DeadlineInv'
    <3>1. asked_for = EntryNeutral
      BY <2>2 DEF IInv, ObserverType, DeadlineInv
    <3> QED
      BY <2>1, <2>2, <2>3, <3>1 DEF DeadlineInv
  <2>8. NeutralPeriodsAreKept'
    BY <2>1 DEF NeutralPeriodsAreKept
  <2> QED
    BY <2>1, <2>5, <2>6, <2>7, <2>8 DEF IInv
<1> QED
  BY <1>1, <1>2, <1>3 DEF Fire, Timer

\* Time, a first message, a restart.
LEMMA OtherStep ==
    ASSUME IInv, First \/ Pass \/ Crash
    PROVE  IInv'
<1> USE JoyAssumption DEF JoyAssumption, altHoldVars
<1>1. CASE First
  BY <1>1 DEF First, FirstJoy, observerVars, IInv, TypeOK, ObserverType, DeadlineInv,
              NeutralPeriodsAreKept
<1>2. CASE Pass
  BY <1>2 DEF Pass, Tick, ObserveTick, Lesser, Greater, IInv, TypeOK, ObserverType,
              DeadlineInv, NeutralPeriodsAreKept
<1>3. CASE Crash
  <2>1. /\ last_joy_msg' = {} /\ led_pwm' = 1500 /\ sent' = {}
        /\ mode_request_in' = 0 /\ neutral_for' = 0 /\ vertical' = vertical
        /\ asked_for' = EntryNeutral /\ granted_for' = PostEntryNeutral
    BY <1>3 DEF Crash, Respawn, Forget
  <2>2. alt_hold_request_pending' = FALSE /\ asked' = FALSE /\ early_stick' = FALSE
    BY <1>3 DEF Crash, Respawn, Forget
  <2>3. {alt_hold_request_pending', asked', early_stick'} \subseteq BOOLEAN
    BY <2>2
  <2>4. TypeOK' /\ ObserverType'
    BY <2>1, <2>3 DEF IInv, TypeOK, ObserverType, Greater
  <2>5. DeadlineInv' /\ NeutralPeriodsAreKept'
    BY <2>1, <2>2 DEF DeadlineInv, NeutralPeriodsAreKept
  <2> QED
    BY <2>1, <2>4, <2>5 DEF IInv
<1> QED
  BY <1>1, <1>2, <1>3

\* The inductive invariant.
THEOREM Invariance == Spec => []IInv
<1>1. Init => IInv
  <2> SUFFICES ASSUME Init PROVE IInv
    OBVIOUS
  <2>1. /\ last_joy_msg = {} /\ led_pwm = 1500 /\ sent = {}
        /\ mode_request_in = 0 /\ neutral_for = 0 /\ vertical = 1500
        /\ asked_for = EntryNeutral /\ granted_for = PostEntryNeutral
    BY DEF Init, JoyInit, NeutralPwm
  <2>2. alt_hold_request_pending = FALSE /\ asked = FALSE /\ early_stick = FALSE
    BY DEF Init, JoyInit
  <2>3. {alt_hold_request_pending, asked, early_stick} \subseteq BOOLEAN
    BY <2>2
  <2>4. TypeOK /\ ObserverType
    BY <2>1, <2>3, JoyAssumption DEF JoyAssumption, TypeOK, ObserverType, Greater
  <2>5. DeadlineInv /\ NeutralPeriodsAreKept
    BY <2>1, <2>2, JoyAssumption DEF JoyAssumption, DeadlineInv, NeutralPeriodsAreKept
  <2> QED
    BY <2>1, <2>4, <2>5 DEF IInv
<1>2. IInv /\ [Next]_vars => IInv'
  <2> SUFFICES ASSUME IInv, [Next]_vars PROVE IInv'
    OBVIOUS
  <2>1. CASE UNCHANGED vars
    BY <2>1 DEF vars, joyVars, altHoldVars, observerVars, IInv, TypeOK, ObserverType,
                DeadlineInv, NeutralPeriodsAreKept
  <2>2. CASE Next
    BY <2>2, JoyStep, FireStep, OtherStep DEF Next, Joy
  <2> QED
    BY <2>1, <2>2
<1> QED
  BY <1>1, <1>2, PTL DEF Spec

\* In every order of callbacks the state is well typed: the deadlines never exceed
\* their durations, the lights and the vertical channel their pulse widths.
THEOREM TypeCorrectness == Spec => []TypeOK
<1>1. IInv => TypeOK
  BY DEF IInv
<1> QED
  BY <1>1, Invariance, PTL

\* joy2mavros.cpp:113-135: no vertical command within EntryNeutral of a wish for
\* ALT_HOLD or PostEntryNeutral of its request, whichever of the two is longer.
THEOREM NeutralPeriods == Spec => []NeutralPeriodsAreKept
<1>1. IInv => NeutralPeriodsAreKept
  BY DEF IInv
<1> QED
  BY <1>1, Invariance, PTL

\* joy2mavros.cpp:104-136, 217-229: ALT_HOLD is requested only while it is wished
\* for, EntryNeutral after the wish and after that much of a neutral stick.
THEOREM Prepared == Spec => AltHoldIsPrepared
<1>1. IInv /\ [Next]_vars =>
        [("ALT_HOLD" \in sent') =>
            /\ asked /\ asked_for >= EntryNeutral
            /\ ~early_stick]_vars
  <2> SUFFICES ASSUME IInv, Next, "ALT_HOLD" \in sent'
               PROVE  asked /\ asked_for >= EntryNeutral /\ ~early_stick
    OBVIOUS
  <2>1. alt_hold_request_pending /\ mode_request_in = 0
    BY TimerAsks DEF TimerRequestsAltHold
  <2> QED
    BY <2>1, JoyAssumption DEF JoyAssumption, IInv, TypeOK, ObserverType, DeadlineInv
<1> QED
  BY <1>1, Invariance, PTL DEF Spec, AltHoldIsPrepared

\* A message that finds both periods over finds the channel released
\* (joy2mavros.cpp:138-140, 188).
LEMMA Released ==
    ASSUME IInv, Next, NEW msg \in Messages, last_joy_msg # {}, JoyCallback(msg),
           asked_for' >= EntryNeutral, granted_for >= PostEntryNeutral
    PROVE  neutral_for' = 0
<1> USE JoyAssumption DEF JoyAssumption
<1>1. PICK old \in Messages :
        /\ last_joy_msg = {old} /\ last_joy_msg' = {msg}
        /\ \/ JoyKeepsMode(msg, old)
           \/ JoyAsksAltHold(msg, old)
           \/ JoyAsksMode(msg, old)
  BY Callback
<1>2. \/ NewMode(msg, old) = "ALT_HOLD" /\ neutral_for' = EntryNeutral
      \/ NewMode(msg, old) # "ALT_HOLD" /\ neutral_for' = neutral_for
  BY <1>1 DEF JoyKeepsMode, JoyAsksAltHold, JoyAsksMode, ScheduleAltHold, altHoldVars
<1>3. last_joy_msg' = last_joy_msg => neutral_for' = neutral_for
  BY <1>1, <1>2, SameMessage
<1>4. neutral_for' = neutral_for /\ asked_for >= EntryNeutral => neutral_for' = 0
  BY DEF IInv, TypeOK, ObserverType, DeadlineInv
<1>5. CASE Joy
  <2>1. ObserveJoy(msg)
    <3>1. PICK other \in Messages : JoyCallback(other) /\ ObserveJoy(other)
      BY <1>5 DEF Joy
    <3>2. last_joy_msg' = {other}
      BY <3>1 DEF JoyCallback
    <3> QED
      BY <1>1, <3>1, <3>2
  <2>2. asked_for' = IF NewMode(msg, old) = "ALT_HOLD" THEN 0 ELSE asked_for
    BY <1>1, <2>1 DEF ObserveJoy
  <2> QED
    BY <1>2, <1>4, <2>2
<1>6. CASE Fire
  <2>1. last_joy_msg' = last_joy_msg /\ asked_for' = asked_for
    BY <1>6 DEF Fire, Timer, TimerIdle, TimerKeepsNeutral, TimerRequestsAltHold,
                ObserveTimer, observerVars
  <2> QED
    BY <1>3, <1>4, <2>1
<1>7. CASE Pass
  <2>1. last_joy_msg' = last_joy_msg /\ neutral_for' = Greater(neutral_for - 1, 0)
    BY <1>7 DEF Pass, Tick
  <2> QED
    BY <1>3, <2>1 DEF Greater, IInv, TypeOK
<1>8. CASE First \/ Crash
  BY <1>1, <1>8 DEF First, FirstJoy, Crash, Respawn
<1> QED
  BY <1>5, <1>6, <1>7, <1>8 DEF Next

\* joy2mavros.cpp:138-140, 188: outside the two periods a stick that is off centre
\* moves the vehicle.
THEOREM Honoured == Spec => StickIsHonoured
<1>1. IInv /\ [Next]_vars =>
        [(\E msg \in Messages :
            /\ last_joy_msg # {} /\ JoyCallback(msg)
            /\ VerticalPwm(msg.axes[3]) # NeutralPwm
            /\ asked_for' >= EntryNeutral /\ granted_for >= PostEntryNeutral)
         => vertical' # NeutralPwm]_vars
  <2> SUFFICES ASSUME IInv, Next, NEW msg \in Messages,
                      last_joy_msg # {}, JoyCallback(msg),
                      VerticalPwm(msg.axes[3]) # NeutralPwm,
                      asked_for' >= EntryNeutral, granted_for >= PostEntryNeutral
               PROVE  vertical' # NeutralPwm
    OBVIOUS
  <2>1. neutral_for' = 0
    BY Released
  <2>2. PublishOverride(msg)
    BY DEF JoyCallback
  <2> QED
    BY <2>1, <2>2 DEF PublishOverride
<1> QED
  BY <1>1, Invariance, PTL DEF Spec, StickIsHonoured
=============================================================================
