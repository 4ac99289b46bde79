------------------------ MODULE BatteryEvidence_proofs ------------------------
(***************************************************************************)
(* For every value of the parameters and every order of the threads: the   *)
(* battery bridge's state is well typed, no DroneCAN node stays open but   *)
(* the one in hand and those whose own close raised, the two workers       *)
(* together respect the interval between bring-ups, and the process ends   *)
(* in time, with a node left unclosed only by a thread that was held up    *)
(* for as long as it was waited for.                                       *)
(***************************************************************************)
EXTENDS BatteryEvidence, TLAPS

\* Where a node is made there is none; the errors reach the threshold only where
\* they are about to be forgotten.
StackInv ==
    /\ NoStackForgotten
    /\ spin_at \in {"init", "ended"} => ~have_node
    /\ spin_at \notin {"bring_errors", "bringing_errors"} =>
         transfer_err_count < RecoverThreshold

\* How long shutdown has taken and may still take; and a spin thread that has not
\* ended has been in a long operation in every tick of its join so far.
ExitInv ==
    /\ main_at = "running" => ~stop_event /\ stopping_for = 0 /\ held_for = 0
    /\ main_at # "running" => stop_event
    /\ main_at = "join_spin" => stopping_for + join_wait <= JoinTimeout
    /\ main_at = "join_watchdog" => stopping_for + join_wait <= 2 * JoinTimeout
    /\ main_at = "join_spin" /\ spin_at # "ended" => held_for + join_wait = JoinTimeout
    /\ main_at \in {"join_watchdog", "exited"} /\ spin_at # "ended" =>
         held_for = JoinTimeout

\* What the observer keeps.
ObserverType ==
    /\ stopping_for \in Nat /\ settled \in BOOLEAN
    /\ held_for \in 0 .. JoinTimeout /\ lost \in Nat

IInv == /\ TypeOK /\ StackInv /\ ExitInv /\ ObserverType
        /\ since_attempt = attempt_age

\* The spin thread's steps (dronecan2mavros_battery_v2.py:576-662).
LEMMA SpinStep ==
    ASSUME IInv, UNCHANGED observerVars,
           \/ SpinChecksLink \/ SpinBringupRefused \/ MakeNode \/ InitOpens \/ InitEnds
           \/ SpinEnters \/ SpinReturns \/ TransferError \/ ErrorBringupRefused
           \/ OtherError \/ SpinWakes
    PROVE  IInv'
<1> USE BatteryAssumption DEF BatteryAssumption, IInv, TypeOK, StackInv, ExitInv,
        NoStackForgotten, ObserverType, LinkStates, SpinPlaces, DogPlaces, batteryVars,
        stackVars, spinVars, dogVars, mainVars, bringupVars, observerVars
<1>1. CASE SpinChecksLink
  BY <1>1 DEF SpinChecksLink
<1>2. CASE SpinBringupRefused
  BY <1>2 DEF SpinBringupRefused, SpinWaits, Refused
<1>3. CASE MakeNode
  BY <1>3 DEF MakeNode
<1>4. CASE InitOpens
  BY <1>4 DEF InitOpens
<1>5. CASE InitEnds
  BY <1>5 DEF InitEnds
<1>6. CASE SpinEnters
  BY <1>6 DEF SpinEnters
<1>7. CASE SpinReturns
  BY <1>7 DEF SpinReturns
<1>8. CASE TransferError
  BY <1>8 DEF TransferError
<1>9. CASE ErrorBringupRefused
  BY <1>9 DEF ErrorBringupRefused, Refused
<1>10. CASE OtherError
  BY <1>10 DEF OtherError
<1>11. CASE SpinWakes
  BY <1>11 DEF SpinWakes, WaitOver
<1> QED
  BY <1>1, <1>2, <1>3, <1>4, <1>5, <1>6, <1>7, <1>8, <1>9, <1>10, <1>11

\* It closes its stack, and some of the closes raise (dronecan2mavros_battery_v2.py:
\* 413-438, 591-601, 644-662): what is open beside the node in hand is what is lost.
LEMMA CloseStep ==
    ASSUME IInv, NEW failing, Closes(failing)
    PROVE  IInv'
<1> USE BatteryAssumption DEF BatteryAssumption, IInv, TypeOK, StackInv, ExitInv,
        NoStackForgotten, ObserverType, LinkStates, SpinPlaces, DogPlaces, dogVars, mainVars,
        bringupVars
<1>1. CloseStack(failing)
  BY DEF Closes, InitFails, LinkLost, SpinStops
<1>2. have_node' \in BOOLEAN /\ stale' \in BOOLEAN /\ ~have_node'
  <2>1. have_node' = FALSE /\ stale' = FALSE
    BY <1>1 DEF CloseStack
  <2> QED
    BY <2>1, Zenon
<1>3. lost' \in Nat /\ open_stacks' = lost' /\ open_stacks' \in Nat
  <2>1. CASE have_node /\ "node" \in failing
    BY <1>1, <2>1 DEF CloseStack, Closes
  <2>2. CASE have_node /\ "node" \notin failing
    BY <1>1, <2>2 DEF CloseStack, Closes
  <2>3. CASE ~have_node
    BY <1>1, <2>3 DEF CloseStack, Closes
  <2> QED
    BY <2>1, <2>2, <2>3
<1>4. open_stacks' = (IF have_node' THEN 1 ELSE 0) + lost'
  <2>1. (IF have_node' THEN 1 ELSE 0) = 0
    BY <1>2, Zenon
  <2>2. \A n \in Nat : n = 0 + n
    OBVIOUS
  <2> QED
    BY <1>3, <2>1, <2>2, Zenon
<1>5. /\ transfer_err_count' = transfer_err_count
      /\ dog_at' = dog_at /\ dog_wait' = dog_wait
      /\ stop_event' = stop_event /\ main_at' = main_at /\ join_wait' = join_wait
      /\ link' = link /\ lock' = lock /\ attempt_age' = attempt_age
      /\ settled' = settled /\ since_attempt' = since_attempt
      /\ stopping_for' = stopping_for /\ held_for' = held_for
  BY DEF Closes, InitFails, LinkLost, SpinStops
<1>6. CASE InitFails(failing) \/ LinkLost(failing)
  <2>1. /\ spin_at' = "wait" /\ spin_wait' = RetryInterval
        /\ spin_at \in {"init", "opening", "spinning"}
    BY <1>6 DEF InitFails, LinkLost, SpinWaits
  <2>2. TypeOK' /\ ObserverType'
    BY <1>2, <1>3, <1>5, <2>1
  <2>3. StackInv'
    BY <1>2, <1>3, <1>4, <1>5, <2>1
  <2>4. ExitInv'
    BY <1>5, <2>1
  <2> QED
    BY <1>5, <2>2, <2>3, <2>4
<1>7. CASE SpinStops(failing)
  <2>1. spin_at' = "ended" /\ spin_wait' = spin_wait /\ spin_at = "top"
    BY <1>7 DEF SpinStops
  <2>2. TypeOK' /\ ObserverType'
    BY <1>2, <1>3, <1>5, <2>1
  <2>3. StackInv'
    BY <1>2, <1>3, <1>4, <1>5, <2>1
  <2>4. ExitInv'
    BY <1>5, <2>1
  <2> QED
    BY <1>5, <2>2, <2>3, <2>4
<1> QED
  BY <1>6, <1>7 DEF Closes

\* The watchdog's (dronecan2mavros_battery_v2.py:454-469).
LEMMA DogStep ==
    ASSUME IInv, Watchdog
    PROVE  IInv'
<1> USE BatteryAssumption DEF BatteryAssumption, IInv, TypeOK, StackInv, ExitInv,
        NoStackForgotten, ObserverType, LinkStates, SpinPlaces, DogPlaces, batteryVars,
        stackVars, spinVars, dogVars, mainVars, bringupVars, observerVars
<1>0. UNCHANGED observerVars
  BY DEF Watchdog
<1>1. CASE DogChecksLink
  BY <1>0, <1>1 DEF DogChecksLink
<1>2. CASE DogBringupRefused
  BY <1>0, <1>2 DEF DogBringupRefused, Refused
<1>3. CASE DogWakes
  BY <1>0, <1>3 DEF DogWakes, WaitOver
<1>4. CASE DogStops
  BY <1>0, <1>4 DEF DogStops
<1> QED
  BY <1>0, <1>1, <1>2, <1>3, <1>4 DEF Watchdog

\* Shutdown and its joins (dronecan2mavros_battery_v2.py:444-451).
LEMMA MainStep ==
    ASSUME IInv, Main
    PROVE  IInv'
<1> USE BatteryAssumption DEF BatteryAssumption, IInv, TypeOK, StackInv, ExitInv,
        NoStackForgotten, ObserverType, LinkStates, SpinPlaces, DogPlaces, batteryVars,
        stackVars, spinVars, dogVars, mainVars, bringupVars, observerVars
<1>0. UNCHANGED observerVars
  BY DEF Main
<1>1. CASE Shutdown
  BY <1>0, <1>1 DEF Shutdown
<1>2. CASE JoinsSpin
  BY <1>0, <1>2 DEF JoinsSpin, JoinDone
<1>3. CASE JoinsWatchdog
  BY <1>0, <1>3 DEF JoinsWatchdog, JoinDone
<1> QED
  BY <1>0, <1>1, <1>2, <1>3 DEF Main

\* A bring-up begins, in either thread (dronecan2mavros_battery_v2.py:327-343).
LEMMA BringupBeginsStep ==
    ASSUME IInv, BringupBegins
    PROVE  IInv'
<1> USE BatteryAssumption DEF BatteryAssumption, IInv, TypeOK, StackInv, ExitInv,
        NoStackForgotten, ObserverType, LinkStates, SpinPlaces, DogPlaces, batteryVars,
        stackVars, spinVars, dogVars, mainVars, bringupVars, observerVars
<1>0. since_attempt' = 0 /\ UNCHANGED <<settled, stopping_for, held_for, lost>>
  BY DEF BringupBegins
<1>1. CASE SpinBringupBegins
  BY <1>0, <1>1 DEF SpinBringupBegins, Begins, TakenDown
<1>2. CASE ErrorBringupBegins
  BY <1>0, <1>2 DEF ErrorBringupBegins, Begins, TakenDown
<1>3. CASE DogBringupBegins
  BY <1>0, <1>3 DEF DogBringupBegins, Begins, TakenDown
<1> QED
  BY <1>1, <1>2, <1>3 DEF BringupBegins

\* It ends, the link up or not (dronecan2mavros_battery_v2.py:344-355).
LEMMA BringupEndsStep ==
    ASSUME IInv, NEW up \in BOOLEAN, BringupEnds(up)
    PROVE  IInv'
<1> USE BatteryAssumption DEF BatteryAssumption, IInv, TypeOK, StackInv, ExitInv,
        NoStackForgotten, ObserverType, LinkStates, SpinPlaces, DogPlaces, batteryVars,
        stackVars, spinVars, dogVars, mainVars, bringupVars, observerVars
<1>0. UNCHANGED observerVars
  BY DEF BringupEnds
<1>1. CASE SpinBringupEnds(up)
  BY <1>0, <1>1 DEF SpinBringupEnds, Ends, SpinWaits
<1>2. CASE ErrorBringupEnds(up)
  BY <1>0, <1>2 DEF ErrorBringupEnds, Ends, SpinWaits
<1>3. CASE DogBringupEnds(up)
  BY <1>0, <1>3 DEF DogBringupEnds, Ends, SpinWaits
<1> QED
  BY <1>1, <1>2, <1>3 DEF BringupEnds

\* A second passes: no thread is at anything it does without delay.
LEMMA TickStep ==
    ASSUME IInv, Tick
    PROVE  IInv'
<1> USE BatteryAssumption DEF BatteryAssumption, IInv, TypeOK, StackInv, ExitInv,
        NoStackForgotten, ObserverType, LinkStates, SpinPlaces, DogPlaces, batteryVars,
        stackVars, spinVars, dogVars, mainVars, bringupVars, observerVars
<1> USE DEF Tick, Lesser, Greater
<1>1. TypeOK' /\ StackInv' /\ (since_attempt = attempt_age)'
  OBVIOUS
<1>2. ObserverType'
  OBVIOUS
<1>3. stop_event => SpinHeldUp \/ spin_at = "ended"
  BY DEF SpinBusy, SpinHeldUp, WaitOver
<1>4. main_at \in {"join_spin", "join_watchdog"} => join_wait > 0
  BY DEF MainBusy, JoinDone
<1>5. ExitInv'
  BY <1>3, <1>4 DEF Alive
<1> QED
  BY <1>1, <1>2, <1>5

\* The interface, and the moment it is left alone.
LEMMA InterfaceStep ==
    ASSUME IInv, LinkChanges \/ LinkAppears \/ Settle
    PROVE  IInv'
<1> USE BatteryAssumption DEF BatteryAssumption, IInv, TypeOK, StackInv, ExitInv,
        NoStackForgotten, ObserverType, LinkStates, SpinPlaces, DogPlaces, batteryVars,
        stackVars, spinVars, dogVars, mainVars, bringupVars, observerVars
<1>1. CASE LinkChanges
  BY <1>1 DEF LinkChanges
<1>2. CASE LinkAppears
  BY <1>2 DEF LinkAppears
<1>3. CASE Settle
  BY <1>3 DEF Settle
<1> QED
  BY <1>1, <1>2, <1>3

\* The inductive invariant.
THEOREM Invariance == Spec => []IInv
<1>1. Init => IInv
  <2> USE BatteryAssumption DEF BatteryAssumption, Init, BatteryInit
  <2> SUFFICES ASSUME Init PROVE IInv
    OBVIOUS
  <2>1. /\ {stop_event, have_node, stale, settled} \subseteq BOOLEAN
        /\ ~have_node /\ ~stop_event
    OBVIOUS
  <2>2. /\ link \in LinkStates /\ lock \subseteq {"spin", "watchdog"}
        /\ attempt_age \in 0 .. RetryInterval /\ since_attempt = attempt_age
        /\ transfer_err_count = 0 /\ open_stacks = 0 /\ stopping_for = 0
        /\ held_for = 0 /\ lost = 0
        /\ spin_at = "top" /\ spin_wait = 0 /\ dog_at = "top" /\ dog_wait = 0
        /\ main_at = "running" /\ join_wait = 0
    OBVIOUS
  <2> QED
    BY <2>1, <2>2 DEF IInv, TypeOK, StackInv, NoStackForgotten, ExitInv,
       ObserverType, SpinPlaces, DogPlaces
<1>2. IInv /\ [Next]_vars => IInv'
  <2> SUFFICES ASSUME IInv, [Next]_vars PROVE IInv'
    OBVIOUS
  <2>1. CASE UNCHANGED vars
    BY <2>1 DEF vars, batteryVars, stackVars, spinVars, dogVars, mainVars, bringupVars,
       observerVars, IInv, TypeOK, StackInv, ExitInv, NoStackForgotten, ObserverType
  <2> QED
    BY <2>1, SpinStep, CloseStep, DogStep, MainStep, BringupBeginsStep,
       BringupEndsStep, TickStep, InterfaceStep DEF Next, SpinThread
<1> QED
  BY <1>1, <1>2, PTL DEF Spec

\* The threads' state is well typed, and the errors counted do not pass the
\* threshold.
THEOREM TypeCorrectness == Spec => []TypeOK
<1>1. IInv => TypeOK
  BY DEF IInv
<1> QED
  BY <1>1, Invariance, PTL

\* dronecan2mavros_battery_v2.py:369-389, 413-438, 591-601, 645-662: only a node
\* whose own close raised stays open without the bridge having hold of it.
THEOREM NoForgottenStack == Spec => []NoStackForgotten
<1>1. IInv => NoStackForgotten
  BY DEF IInv, StackInv
<1> QED
  BY <1>1, Invariance, PTL

\* dronecan2mavros_battery_v2.py:444-451: shutdown takes two join timeouts at
\* the most, whatever the workers are doing.
THEOREM TimelyExit == Spec => []ExitIsTimely
<1>1. IInv => ExitIsTimely
  BY BatteryAssumption DEF BatteryAssumption, IInv, ExitInv, ObserverType, TypeOK,
     ExitIsTimely, Alive
<1> QED
  BY <1>1, Invariance, PTL

\* dronecan2mavros_battery_v2.py:440-451, 661-662: a node is left unclosed only by
\* a thread that was in a subprocess, in a request or at the lock for the whole
\* time-out of its join.
THEOREM BusyStack == Spec => []ExitLeavesBusyStack
<1>1. IInv => ExitLeavesBusyStack
  BY DEF IInv, StackInv, NoStackForgotten, ExitInv,
     ObserverType, TypeOK, ExitLeavesBusyStack, Alive
<1> QED
  BY <1>1, Invariance, PTL

\* dronecan2mavros_battery_v2.py:327-355: the two threads together begin one
\* bring-up per interval at the most.
THEOREM SpacedBringups == Spec => BringupsAreSpaced
<1>1. IInv /\ [Next]_vars => [BringupBegins => since_attempt >= RetryInterval]_vars
  BY DEF IInv, BringupBegins, SpinBringupBegins, ErrorBringupBegins, DogBringupBegins, Begins
<1> QED
  BY <1>1, Invariance, PTL DEF Spec, BringupsAreSpaced
=============================================================================
