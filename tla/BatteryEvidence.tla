--------------------------- MODULE BatteryEvidence ---------------------------
(***************************************************************************)
(* The battery bridge's threads with a CAN interface that is plugged, lost *)
(* and taken down, until that has settled, and with the clock.             *)
(***************************************************************************)
EXTENDS BatteryBridge

CONSTANT MaxLost     \* bound: how many nodes' close may raise

ASSUME EvidenceAssumption == MaxLost \in Nat

VARIABLES
    settled,
    since_attempt,   \* time since a bring-up was last begun (to RetryInterval)
    stopping_for,    \* time since shutdown began (counted to 2 * JoinTimeout + 1)
    held_for,        \* ticks in a row, since shutdown began, that the spin thread
                     \* has spent in a long operation (counted to JoinTimeout)
    lost             \* nodes whose own close raised

observerVars == <<settled, since_attempt, stopping_for, held_for, lost>>
vars == <<batteryVars, observerVars>>

Init ==
    /\ BatteryInit
    /\ settled = FALSE
    /\ since_attempt = attempt_age /\ stopping_for = 0
    /\ held_for = 0 /\ lost = 0

Alive == main_at # "exited"

\* What a thread does without delay holds the clock until it is done.
SpinBusy == \/ spin_at \in {"top", "init", "opening"}
            \/ spin_at = "wait" /\ WaitOver(spin_wait)
            \/ spin_at \in {"bring", "bring_errors"} /\ lock = {}
            \/ spin_at = "spinning" /\ stop_event
DogBusy == \/ dog_at = "top"
           \/ dog_at = "wait" /\ WaitOver(dog_wait)
           \/ dog_at = "bring" /\ lock = {}
MainBusy == \/ main_at = "join_spin" /\ JoinDone(spin_at = "ended")
            \/ main_at = "join_watchdog" /\ JoinDone(dog_at = "ended")

\* A subprocess, a series of requests, or the lock while the watchdog has it.
SpinHeldUp == spin_at \in {"bringing", "bringing_errors", "terminating",
                           "bring", "bring_errors"}

\* Once the interface is left alone, a bring-up takes less than RetryInterval.
\* (If it took longer, a thread that saw the link down and waited for the lock
\* could begin the next one at once, and take a link down that is up.)
BringupIsQuick == settled /\ lock # {} => attempt_age + 1 < RetryInterval

Tick ==
    /\ BringupIsQuick
    /\ Alive /\ ~SpinBusy /\ ~DogBusy /\ ~MainBusy
    /\ attempt_age' = Lesser(attempt_age + 1, RetryInterval)
    /\ since_attempt' = Lesser(since_attempt + 1, RetryInterval)
    /\ spin_wait' = Greater(spin_wait - 1, 0)
    /\ dog_wait' = Greater(dog_wait - 1, 0)
    /\ join_wait' = Greater(join_wait - 1, 0)
    /\ stopping_for' = IF stop_event THEN Lesser(stopping_for + 1, 2 * JoinTimeout + 1)
                       ELSE 0
    /\ held_for' = IF stop_event /\ SpinHeldUp THEN Lesser(held_for + 1, JoinTimeout)
                   ELSE 0
    /\ UNCHANGED <<stackVars, spin_at, transfer_err_count, dog_at, stop_event, main_at,
                   link, lock, settled, lost>>

\* External: the interface goes down, is removed, or appears again.
LinkChanges ==
    /\ ~settled
    /\ link' \in {"down", "absent"}
    /\ stale' = (stale \/ (link' = "absent" /\ have_node))
    /\ UNCHANGED <<have_node, open_stacks, spinVars, dogVars, mainVars, lock,
                   attempt_age, observerVars>>

LinkAppears ==
    /\ link = "absent" /\ link' = "down"
    /\ UNCHANGED <<stackVars, spinVars, dogVars, mainVars, lock, attempt_age,
                   observerVars>>

Settle == /\ ~settled /\ settled' = TRUE
          /\ UNCHANGED <<batteryVars, since_attempt, stopping_for, held_for, lost>>

BringupBegins ==
    /\ SpinBringupBegins \/ ErrorBringupBegins \/ DogBringupBegins
    /\ since_attempt' = 0
    /\ UNCHANGED <<settled, stopping_for, held_for, lost>>

BringupEnds(up) ==
    /\ SpinBringupEnds(up) \/ ErrorBringupEnds(up) \/ DogBringupEnds(up)
    /\ UNCHANGED observerVars

\* The spin thread closes its stack; some of the closes raise.
Closes(failing) ==
    /\ InitFails(failing) \/ LinkLost(failing) \/ SpinStops(failing)
    /\ IF have_node /\ "node" \in failing THEN lost < MaxLost /\ lost' = lost + 1
       ELSE UNCHANGED lost
    /\ UNCHANGED <<settled, since_attempt, stopping_for, held_for>>

SpinThread ==
    \/ /\ \/ SpinChecksLink \/ SpinBringupRefused \/ MakeNode \/ InitOpens \/ InitEnds
          \/ SpinEnters \/ SpinReturns \/ TransferError \/ ErrorBringupRefused
          \/ OtherError \/ SpinWakes
       /\ UNCHANGED observerVars
    \/ \E failing \in SUBSET Resources : Closes(failing)

Watchdog ==
    /\ DogChecksLink \/ DogBringupRefused \/ DogWakes \/ DogStops
    /\ UNCHANGED observerVars

Main == (Shutdown \/ JoinsSpin \/ JoinsWatchdog) /\ UNCHANGED observerVars

Next ==
    \/ Alive /\ ( \/ SpinThread \/ Watchdog \/ BringupBegins
                  \/ (\E up \in BOOLEAN : BringupEnds(up)) \/ Main )
    \/ Tick
    \/ Alive /\ (LinkChanges \/ LinkAppears \/ Settle)

\* Every thread runs, subprocesses and requests come to an end; a bring-up and
\* an initialisation that are tried for ever succeed some time, a removed
\* interface is noticed, and DroneCAN works on a link that does.
Fairness ==
    /\ WF_vars(Tick) /\ WF_vars(SpinThread) /\ WF_vars(Watchdog)
    /\ WF_vars(BringupBegins)
    /\ \A up \in BOOLEAN : SF_vars(BringupEnds(up))
    /\ WF_vars(Alive /\ LinkAppears)
    /\ SF_vars(SpinThread /\ MakeNode) /\ SF_vars(SpinThread /\ InitOpens)
    /\ SF_vars(\E failing \in SUBSET Resources : Closes(failing) /\ LinkLost(failing))

Spec == Init /\ [][Next]_vars /\ Fairness
-----------------------------------------------------------------------------
\* Well-typed state; the errors counted never pass the threshold.
TypeOK ==
    /\ link \in LinkStates /\ stop_event \in BOOLEAN
    /\ lock \subseteq {"spin", "watchdog"}
    /\ attempt_age \in 0 .. RetryInterval /\ since_attempt \in 0 .. RetryInterval
    /\ transfer_err_count \in 0 .. RecoverThreshold
    /\ have_node \in BOOLEAN /\ stale \in BOOLEAN /\ open_stacks \in Nat
    /\ spin_at \in SpinPlaces /\ spin_wait \in 0 .. RetryInterval
    /\ dog_at \in DogPlaces /\ dog_wait \in 0 .. 1
    /\ main_at \in {"running", "join_spin", "join_watchdog", "exited"}
    /\ join_wait \in 0 .. JoinTimeout

\* dronecan2mavros_battery_v2.py:327-355: the two threads together begin a
\* bring-up, which takes the link down, at most once per can_retry_interval.
BringupsAreSpaced ==
    [][BringupBegins => since_attempt >= RetryInterval]_vars

\* dronecan2mavros_battery_v2.py:369-389, 413-438, 591-601, 645-662: a node that
\* is open is the one the bridge has hold of, or one whose own close raised; a
\* failing close of its allocator or monitor loses none, nor an initialisation
\* that fails half way, and none is opened beside one that is there.
NoStackForgotten == open_stacks = (IF have_node THEN 1 ELSE 0) + lost

\* dronecan2mavros_battery_v2.py:454-469, 576-662: when the interface is left
\* alone, the bridge is up on it again, whatever state it was in.
LinkIsRecovered ==
    settled ~> (stop_event \/ (have_node /\ ~stale /\ link = "healthy"))

\* dronecan2mavros_battery_v2.py:444-451: the process ends within two join
\* timeouts of being told to, whatever the workers are doing.
ExitIsTimely == Alive => stopping_for <= 2 * JoinTimeout

\* dronecan2mavros_battery_v2.py:440-451, 661-662: a node whose close has not
\* even been tried is open at exit only if the spin thread was in a subprocess,
\* in a request or at the lock for all of the join's timeout.
ExitLeavesBusyStack == (~Alive /\ open_stacks > lost) => held_for = JoinTimeout
=============================================================================
