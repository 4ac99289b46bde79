---------------------------- MODULE JoyEvidence ----------------------------
(***************************************************************************)
(* joy2mavros watched from outside: what the pilot last asked for and how  *)
(* long ago, and what has been published since.                            *)
(***************************************************************************)
EXTENDS JoyToMavros

VARIABLES
    asked,        \* the pilot's last mode wish is ALT_HOLD, not yet granted
    asked_for,    \* time since that wish (counted to EntryNeutral)
    granted_for,  \* time since ALT_HOLD was last due (to PostEntryNeutral, which
                  \* also stands for a new wish since)
    early_stick   \* a vertical command went out in the first EntryNeutral of it

observerVars == <<asked, asked_for, granted_for, early_stick>>
vars == <<joyVars, observerVars>>

Forget ==
    /\ asked' = FALSE /\ asked_for' = EntryNeutral
    /\ granted_for' = PostEntryNeutral
    /\ early_stick' = FALSE

ObserveJoy(msg) ==
    \E old \in last_joy_msg :
      LET mode == NewMode(msg, old)
          stick == vertical' # NeutralPwm
      IN  /\ asked' = (mode = "ALT_HOLD" \/ (asked /\ mode = "NONE"))
          /\ asked_for' = IF mode = "ALT_HOLD" THEN 0 ELSE asked_for
          /\ early_stick' = \/ stick /\ asked_for' < EntryNeutral
                            \/ early_stick /\ mode # "ALT_HOLD"
          /\ granted_for' = IF mode = "ALT_HOLD" THEN PostEntryNeutral
                            ELSE granted_for

ObserveTimer ==
    IF alt_hold_request_pending /\ ~alt_hold_request_pending'
    THEN /\ asked' = FALSE /\ granted_for' = 0
         /\ UNCHANGED <<asked_for, early_stick>>
    ELSE UNCHANGED observerVars

ObserveTick ==
    /\ asked_for' = Lesser(asked_for + 1, EntryNeutral)
    /\ granted_for' = Lesser(granted_for + 1, PostEntryNeutral)
    /\ UNCHANGED <<asked, early_stick>>

Init == /\ JoyInit
        /\ asked = FALSE /\ asked_for = EntryNeutral
        /\ granted_for = PostEntryNeutral
        /\ early_stick = FALSE

First == \E msg \in Messages : FirstJoy(msg) /\ UNCHANGED observerVars
Joy   == \E msg \in Messages : JoyCallback(msg) /\ ObserveJoy(msg)
Fire  == Timer /\ ObserveTimer
Pass  == Tick /\ ObserveTick
Crash == Respawn /\ Forget

Next == First \/ Joy \/ Fire \/ Pass \/ Crash

\* The executor keeps running the timer's callback, and time passes.
Fairness == WF_vars(Fire) /\ WF_vars(Pass)

Spec == Init /\ [][Next]_vars /\ Fairness
-----------------------------------------------------------------------------
\* Well-typed state; the lights stay within their pulse widths.
TypeOK ==
    /\ \A msg \in last_joy_msg : msg \in Messages
    /\ led_pwm \in 1100 .. 1800
    /\ alt_hold_request_pending \in BOOLEAN
    /\ mode_request_in \in 0 .. EntryNeutral
    /\ neutral_for \in 0 .. Greater(EntryNeutral, PostEntryNeutral)
    /\ vertical \in 1100 .. 1900
    /\ sent \subseteq {"ARM", "DISARM", "MANUAL", "STABILIZE", "ALT_HOLD",
                       "GUIDED", "POSHOLD"}

\* joy2mavros.cpp:104-136, 217-229: ALT_HOLD is requested only if it is still
\* what the pilot last asked for, once per wish, no sooner than EntryNeutral
\* after it (a repeated wish starts over), and after the vertical channel was
\* neutral for all of that time.
AltHoldIsPrepared ==
    [][("ALT_HOLD" \in sent') =>
          /\ asked /\ asked_for >= EntryNeutral
          /\ ~early_stick]_vars

\* joy2mavros.cpp:138-140, 188: the pilot's vertical command is suppressed only
\* for EntryNeutral after an ALT_HOLD wish and PostEntryNeutral after the
\* request; at any other time a stick that is off centre moves the vehicle.
StickIsHonoured ==
    [][(\E msg \in Messages :
          /\ last_joy_msg # {} /\ JoyCallback(msg)
          /\ VerticalPwm(msg.axes[3]) # NeutralPwm
          /\ asked_for' >= EntryNeutral /\ granted_for >= PostEntryNeutral)
       => vertical' # NeutralPwm]_vars

\* joy2mavros.cpp:113-135: no vertical command goes out within EntryNeutral of
\* a wish for ALT_HOLD, nor within PostEntryNeutral of its request, whatever
\* other modes the pilot asks for then.  Only a new wish for ALT_HOLD ends the
\* second period, and begins the first one again.
NeutralPeriodsAreKept ==
    (asked_for < EntryNeutral \/ granted_for < PostEntryNeutral)
        => vertical = NeutralPwm

\* joy2mavros.cpp:122-136: a wish for ALT_HOLD does not get stuck: its request
\* falls due, unless the pilot asks again or for something else.
AltHoldIsRequested == asked ~> (~asked \/ asked_for = 0)
=============================================================================
