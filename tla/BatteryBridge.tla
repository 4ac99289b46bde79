---------------------------- MODULE BatteryBridge ----------------------------
(***************************************************************************)
(* The battery bridge (scripts/dronecan2mavros_battery_v2.py): two worker  *)
(* threads beside the main one.  The spin thread opens, drives and closes  *)
(* the DroneCAN stack; the watchdog polls the CAN link; both may bring the *)
(* link up, under a lock and no more often than every can_retry_interval.  *)
(* shutdown() asks both to stop and waits for each for a limited time;     *)
(* they are daemon threads and die with the process.  rclpy.ok() and       *)
(* _stop_event are one flag here; auto_bringup is on, and the commands ip  *)
(* and sudo can be started.                                                *)
(*                                                                         *)
(* A tick is a second.  What takes less is done within a tick; bringing    *)
(* the link up (a subprocess) and setting the termination of the target    *)
(* (a series of requests) may take any number of them.                     *)
(***************************************************************************)
EXTENDS Arith

CONSTANTS
    RetryInterval,      \* can_retry_interval, in ticks
    JoinTimeout,        \* the timeout of join in shutdown, in ticks
    RecoverThreshold,   \* _transfer_err_recover_threshold
    SetsBitrate         \* bitrate > 0: the link is taken down to be set up

ASSUME BatteryAssumption ==
    /\ RetryInterval \in Nat \ {0} /\ JoinTimeout \in Nat \ {0}
    /\ RecoverThreshold \in Nat \ {0} /\ SetsBitrate \in BOOLEAN

VARIABLES
    link,                \* external: of the CAN interface
    stop_event,
    lock,                \* _bringup_lock: {} or {the thread holding it}
    attempt_age,         \* time since _last_bringup_attempt_t (to RetryInterval)
    transfer_err_count,
    have_node,           \* dronecan_node is not None
    open_stacks,         \* external: DroneCAN nodes open in this process
    stale,               \* external: the interface behind the stack was removed
    spin_at, spin_wait,  \* where the spin thread is; the rest of its wait
    dog_at, dog_wait,    \* where the watchdog is; the rest of its wait
    main_at, join_wait   \* where shutdown is; the rest of its join

stackVars == <<have_node, open_stacks, stale>>
spinVars == <<spin_at, spin_wait, transfer_err_count>>
dogVars == <<dog_at, dog_wait>>
mainVars == <<stop_event, main_at, join_wait>>
bringupVars == <<link, lock, attempt_age>>
batteryVars == <<stackVars, spinVars, dogVars, mainVars, bringupVars>>

LinkStates == {"healthy", "down", "absent"}
Resources == {"allocator", "monitor", "node"}
SpinPlaces == {"top", "init", "opening", "bring", "bringing", "bring_errors",
               "bringing_errors", "terminating", "spinning", "wait", "ended"}
DogPlaces == {"top", "bring", "bringing", "wait", "ended"}

\* The constructor: a forced bring-up if there is an interface, then the threads.
BatteryInit ==
    /\ link \in LinkStates
    /\ stop_event = FALSE /\ lock = {}
    /\ attempt_age \in {0, RetryInterval}
    /\ transfer_err_count = 0
    /\ have_node = FALSE /\ open_stacks = 0 /\ stale = FALSE
    /\ spin_at = "top" /\ spin_wait = 0
    /\ dog_at = "top" /\ dog_wait = 0
    /\ main_at = "running" /\ join_wait = 0
-----------------------------------------------------------------------------
\* _attempt_can_bringup under the lock: too soon, or the attempt begins.
TooSoon == lock = {} /\ attempt_age < RetryInterval

\* Setting the bitrate takes the link down, where that is permitted.
TakenDown == IF SetsBitrate /\ link = "healthy" THEN {"healthy", "down"} ELSE {link}

\* Mutant of Begins: the time of the attempt is not taken.
BeginsUntimed(thread) ==
    /\ lock = {} /\ attempt_age >= RetryInterval
    /\ lock' = {thread}
    /\ link' \in TakenDown
    /\ UNCHANGED attempt_age

Begins(thread) ==
    /\ lock = {} /\ attempt_age >= RetryInterval
    /\ lock' = {thread}
    /\ attempt_age' = 0
    /\ link' \in TakenDown

Ends(up) ==
    /\ lock' = {}
    /\ link' = IF up /\ link = "down" THEN "healthy" ELSE link
    /\ UNCHANGED attempt_age

\* Mutant of TooSoon's consequence: a refused attempt counts as one.
RefusedCounting == attempt_age' = 0 /\ UNCHANGED <<link, lock>>

Refused == UNCHANGED bringupVars

\* Mutant of CloseStack: one try around the three closes.
CloseStackTogether(failing) ==
    /\ have_node' = FALSE /\ stale' = FALSE
    /\ open_stacks' = IF have_node /\ failing = {} THEN open_stacks - 1 ELSE open_stacks

\* The references are dropped first.  A close that raises is passed over, and
\* the others are still closed; a node whose close raised may stay open.
CloseStack(failing) ==
    /\ have_node' = FALSE /\ stale' = FALSE
    /\ open_stacks' = IF have_node /\ "node" \notin failing THEN open_stacks - 1
                      ELSE open_stacks

\* _wait_or_stop: a wait is over when its time is, or at the stop event.
WaitOver(wait) == wait = 0 \/ stop_event
-----------------------------------------------------------------------------
\* The spin thread.
SpinWaits(ticks) == spin_at' = "wait" /\ spin_wait' = ticks

SpinChecksLink ==
    /\ spin_at = "top" /\ ~stop_event /\ ~have_node
    /\ spin_at' = IF link = "down" THEN "bring" ELSE "init"
    /\ UNCHANGED <<stackVars, spin_wait, transfer_err_count, dogVars, mainVars,
                   bringupVars>>

SpinBringupRefused ==
    /\ spin_at = "bring" /\ TooSoon
    /\ Refused
    /\ SpinWaits(RetryInterval)
    /\ UNCHANGED <<stackVars, transfer_err_count, dogVars, mainVars>>

SpinBringupBegins ==
    /\ spin_at = "bring" /\ Begins("spin")
    /\ spin_at' = "bringing"
    /\ UNCHANGED <<stackVars, spin_wait, transfer_err_count, dogVars, mainVars>>

SpinBringupEnds(up) ==
    /\ spin_at = "bringing" /\ Ends(up)
    /\ SpinWaits(RetryInterval)
    /\ UNCHANGED <<stackVars, transfer_err_count, dogVars, mainVars>>

\* _init_dronecan_stack makes the node, and on it the allocator, the monitor and
\* the handler; each of these may raise, and spin then closes what there is.
MakeNode ==
    /\ spin_at = "init" /\ link # "absent"
    /\ have_node' = TRUE /\ open_stacks' = open_stacks + 1
    /\ spin_at' = "opening"
    /\ UNCHANGED <<stale, spin_wait, transfer_err_count, dogVars, mainVars, bringupVars>>

InitOpens ==
    /\ spin_at = "opening"
    /\ spin_at' = "terminating"
    /\ UNCHANGED <<stackVars, spin_wait, transfer_err_count, dogVars, mainVars,
                   bringupVars>>

InitFails(failing) ==
    /\ spin_at \in {"init", "opening"}
    /\ CloseStack(failing)
    /\ SpinWaits(RetryInterval)
    /\ UNCHANGED <<transfer_err_count, dogVars, mainVars, bringupVars>>

\* The requests for the termination have been answered or timed out.
InitEnds ==
    /\ spin_at = "terminating"
    /\ spin_at' = "spinning"
    /\ UNCHANGED <<stackVars, spin_wait, transfer_err_count, dogVars, mainVars,
                   bringupVars>>

SpinEnters ==
    /\ spin_at = "top" /\ ~stop_event /\ have_node
    /\ spin_at' = "spinning"
    /\ UNCHANGED <<stackVars, spin_wait, transfer_err_count, dogVars, mainVars,
                   bringupVars>>

\* node.spin returns, or raises one of three kinds of error.
SpinReturns ==
    /\ spin_at = "spinning" /\ ~stale
    /\ transfer_err_count' = 0
    /\ spin_at' = "top"
    /\ UNCHANGED <<stackVars, spin_wait, dogVars, mainVars, bringupVars>>

TransferError ==
    /\ spin_at = "spinning"
    /\ transfer_err_count' = transfer_err_count + 1
    /\ spin_at' = IF transfer_err_count + 1 >= RecoverThreshold
                  THEN "bring_errors" ELSE "top"
    /\ UNCHANGED <<stackVars, spin_wait, dogVars, mainVars, bringupVars>>

ErrorBringupRefused ==
    /\ spin_at = "bring_errors" /\ TooSoon
    /\ Refused
    /\ transfer_err_count' = 0
    /\ spin_at' = "top"
    /\ UNCHANGED <<stackVars, spin_wait, dogVars, mainVars>>

ErrorBringupBegins ==
    /\ spin_at = "bring_errors" /\ Begins("spin")
    /\ spin_at' = "bringing_errors"
    /\ UNCHANGED <<stackVars, spin_wait, transfer_err_count, dogVars, mainVars>>

\* Mutant of ErrorBringupEnds: the errors are not forgotten.
ErrorBringupEndsCounting(up) ==
    /\ spin_at = "bringing_errors" /\ Ends(up)
    /\ spin_at' = "top"
    /\ UNCHANGED <<stackVars, spin_wait, transfer_err_count, dogVars, mainVars>>

ErrorBringupEnds(up) ==
    /\ spin_at = "bringing_errors" /\ Ends(up)
    /\ transfer_err_count' = 0
    /\ spin_at' = "top"
    /\ UNCHANGED <<stackVars, spin_wait, dogVars, mainVars>>

LinkLost(failing) ==
    /\ spin_at = "spinning" /\ (stale \/ link # "healthy")
    /\ CloseStack(failing)
    /\ SpinWaits(RetryInterval)
    /\ UNCHANGED <<transfer_err_count, dogVars, mainVars, bringupVars>>

OtherError ==
    /\ spin_at = "spinning"
    /\ spin_at' = "top"
    /\ UNCHANGED <<stackVars, spin_wait, transfer_err_count, dogVars, mainVars,
                   bringupVars>>

SpinWakes ==
    /\ spin_at = "wait" /\ WaitOver(spin_wait)
    /\ spin_at' = "top" /\ spin_wait' = 0
    /\ UNCHANGED <<stackVars, transfer_err_count, dogVars, mainVars, bringupVars>>

\* Mutant of SpinStops: the stack is left open.
SpinStopsOpen(failing) ==
    /\ spin_at = "top" /\ stop_event
    /\ spin_at' = "ended"
    /\ UNCHANGED <<stackVars, spin_wait, transfer_err_count, dogVars, mainVars,
                   bringupVars>>

SpinStops(failing) ==
    /\ spin_at = "top" /\ stop_event
    /\ CloseStack(failing)
    /\ spin_at' = "ended"
    /\ UNCHANGED <<spin_wait, transfer_err_count, dogVars, mainVars, bringupVars>>
-----------------------------------------------------------------------------
\* The watchdog.
DogChecksLink ==
    /\ dog_at = "top" /\ ~stop_event
    /\ IF link = "down" THEN dog_at' = "bring" /\ UNCHANGED dog_wait
       ELSE dog_at' = "wait" /\ dog_wait' = 1
    /\ UNCHANGED <<stackVars, spinVars, mainVars, bringupVars>>

DogBringupRefused ==
    /\ dog_at = "bring" /\ TooSoon
    /\ Refused
    /\ dog_at' = "wait" /\ dog_wait' = 1
    /\ UNCHANGED <<stackVars, spinVars, mainVars>>

DogBringupBegins ==
    /\ dog_at = "bring" /\ Begins("watchdog")
    /\ dog_at' = "bringing"
    /\ UNCHANGED <<stackVars, spinVars, dog_wait, mainVars>>

DogBringupEnds(up) ==
    /\ dog_at = "bringing" /\ Ends(up)
    /\ dog_at' = "wait" /\ dog_wait' = 1
    /\ UNCHANGED <<stackVars, spinVars, mainVars>>

DogWakes ==
    /\ dog_at = "wait" /\ WaitOver(dog_wait)
    /\ dog_at' = "top" /\ dog_wait' = 0
    /\ UNCHANGED <<stackVars, spinVars, mainVars, bringupVars>>

DogStops ==
    /\ dog_at = "top" /\ stop_event
    /\ dog_at' = "ended"
    /\ UNCHANGED <<stackVars, spinVars, dog_wait, mainVars, bringupVars>>
-----------------------------------------------------------------------------
\* main and shutdown: join the spin thread, then the watchdog, then exit.
Shutdown ==
    /\ main_at = "running"
    /\ stop_event' = TRUE
    /\ main_at' = "join_spin" /\ join_wait' = JoinTimeout
    /\ UNCHANGED <<stackVars, spinVars, dogVars, bringupVars>>

\* Mutant of JoinDone: without a timeout.
JoinDoneOnly(ended) == ended

JoinDone(ended) == ended \/ join_wait = 0

JoinsSpin ==
    /\ main_at = "join_spin" /\ JoinDone(spin_at = "ended")
    /\ main_at' = "join_watchdog" /\ join_wait' = JoinTimeout
    /\ UNCHANGED <<stackVars, spinVars, dogVars, stop_event, bringupVars>>

JoinsWatchdog ==
    /\ main_at = "join_watchdog" /\ JoinDone(dog_at = "ended")
    /\ main_at' = "exited" /\ join_wait' = 0
    /\ UNCHANGED <<stackVars, spinVars, dogVars, stop_event, bringupVars>>
=============================================================================
