------------------------------ MODULE ClockTimer ----------------------------
(***************************************************************************)
(* ClockSubscriber: one timer, whose handler sends the clock and starts    *)
(* the timer again, on a thread of its own.  The manager's thread starts   *)
(* and stops it as the other host announces (SubscriberManager::run), and  *)
(* the closing thread stops it for good (SubscriberManager::onStopThread). *)
(* No lock protects the timer or timerRunning.                             *)
(*                                                                         *)
(* The timer is a boost::asio::steady_timer: setting its expiry or         *)
(* cancelling it completes every wait as aborted, its expiry completes     *)
(* them all; a completion is a handler that the thread has to run, and the *)
(* handler does not look at which of the two it is.  A wait, a completion, *)
(* a handler that runs: each is a chain, for it leads to the next wait.    *)
(***************************************************************************)
EXTENDS Integers

CONSTANT MaxAnnouncements    \* bound on what the other host announces

ASSUME AnnouncementAssumption == MaxAnnouncements \in Nat

VARIABLES
  announced,      \* announcements applied: every other one is an unsubscription
  manager,        \* where the manager's thread is in start() or stop()
  closer,         \* where the closing thread is in stopThread() and joinThread()
  clock,          \* where the clock's thread is
  stopping,       \* Thread::stopping of the clock subscriber
  timerRunning,
  iocStopped,
  waits,          \* async_wait not completed
  fired,          \* handlers of expired waits the thread has to run
  aborted,        \* handlers of cancelled waits the thread has to run
  met,            \* history: a start met a handler, or a cancellation a restart
  threw           \* history: a handler threw

timer == <<waits, fired, aborted>>
vars == <<announced, manager, closer, clock, stopping, timerRunning, iocStopped, timer, met, threw>>

Busy == {"sending", "sent", "restart", "expiry"}    \* in a handler

Init ==
  /\ announced = 0 /\ manager = "idle" /\ closer = "idle" /\ clock = "ready"
  /\ stopping = FALSE /\ timerRunning = FALSE /\ iocStopped = FALSE
  /\ waits = 0 /\ fired = 0 /\ aborted = 0
  /\ met = FALSE /\ threw = FALSE

\* (mutant) one wait is completed, whether there is one or not.
CancelOne == aborted' = aborted + 1 /\ waits' = waits - 1 /\ UNCHANGED fired

Cancel == aborted' = aborted + waits /\ waits' = 0 /\ UNCHANGED fired
Wait == waits' = waits + 1 /\ UNCHANGED <<fired, aborted>>

----------------------------------------------------------------------------
(* The manager's thread.                                                   *)

Subscribed == announced % 2 = 1

MeetsHandler == clock \in Busy \/ fired + aborted > 0

\* SubscriberManager::run takes an announcement, which it applies even if the connection
\* is closed meanwhile.
TakeAnnouncement ==
  /\ manager = "idle" /\ announced < MaxAnnouncements /\ ~stopping
  /\ announced' = announced + 1 /\ manager' = "taken"
  /\ UNCHANGED <<timerRunning, timer, met>>

BeginStart == manager = "taken" /\ Subscribed /\ met' = (met \/ MeetsHandler)

\* (mutant) the timer is started before the flag is set.
StartFlagsLast ==
  \/ /\ BeginStart
     /\ manager' = "start" /\ Cancel
     /\ UNCHANGED <<announced, timerRunning>>
  \/ /\ manager = "start" /\ manager' = "armed" /\ Wait
     /\ UNCHANGED <<announced, timerRunning, met>>
  \/ /\ manager = "armed" /\ manager' = "idle"
     /\ timerRunning' = TRUE
     /\ UNCHANGED <<announced, met, timer>>

\* ClockSubscriber::start: the flag, then restartTimer.
Start ==
  \/ /\ BeginStart
     /\ manager' = "start" /\ timerRunning' = TRUE
     /\ UNCHANGED <<announced, timer>>
  \/ /\ manager = "start" /\ manager' = "armed" /\ Cancel
     /\ UNCHANGED <<announced, timerRunning, met>>
  \/ /\ manager = "armed" /\ manager' = "idle" /\ Wait
     /\ UNCHANGED <<announced, timerRunning, met>>

\* (mutant) the flag is set and the timer left alone.
StopFlagOnly ==
  /\ manager = "taken" /\ ~Subscribed /\ manager' = "idle"
  /\ timerRunning' = FALSE
  /\ UNCHANGED <<announced, met, timer>>

\* ClockSubscriber::stop
Stop ==
  \/ /\ manager = "taken" /\ ~Subscribed
     /\ manager' = "stop" /\ timerRunning' = FALSE
     /\ UNCHANGED <<announced, met, timer>>
  \/ /\ manager = "stop" /\ manager' = "idle" /\ Cancel
     /\ met' = (met \/ clock \in {"restart", "expiry"})
     /\ UNCHANGED <<announced, timerRunning>>

RunManager ==
  /\ TakeAnnouncement \/ Start \/ Stop
  /\ UNCHANGED <<closer, clock, stopping, iocStopped, threw>>

----------------------------------------------------------------------------
(* The clock's thread.                                                     *)

\* 10 ms have passed: the thread, waiting in run(), completes what waits.
Expire ==
  /\ clock = "ready" /\ ~iocStopped /\ waits > 0
  /\ fired' = fired + waits /\ waits' = 0
  /\ UNCHANGED <<announced, manager, closer, clock, stopping, timerRunning, iocStopped, aborted, met, threw>>

TakeHandler ==
  /\ clock = "ready" /\ ~iocStopped
  /\ \/ fired > 0 /\ fired' = fired - 1 /\ UNCHANGED aborted
     \/ aborted > 0 /\ aborted' = aborted - 1 /\ UNCHANGED fired
  /\ clock' = "sending"
  /\ UNCHANGED <<timerRunning, waits, iocStopped, threw>>

sendClock ==
  /\ clock = "sending" /\ clock' = "sent"
  /\ UNCHANGED <<timerRunning, timer, iocStopped, threw>>

\* (mutant) the handler always restarts the timer.
TestTimerNot ==
  /\ clock = "sent" /\ clock' = "restart"
  /\ UNCHANGED <<timerRunning, timer, iocStopped, threw>>

TestTimer ==
  /\ clock = "sent"
  /\ clock' = IF timerRunning THEN "restart" ELSE "ready"
  /\ UNCHANGED <<timerRunning, timer, iocStopped, threw>>

\* ClockSubscriber::restartTimer
restartTimer ==
  /\ \/ clock = "restart" /\ clock' = "expiry" /\ Cancel
     \/ clock = "expiry" /\ clock' = "ready" /\ Wait
  /\ UNCHANGED <<timerRunning, iocStopped, threw>>

\* An exception leaves run(), and nothing restarts the timer.
HandlerThrows ==
  /\ clock = "sending" /\ clock' = "threw" /\ threw' = TRUE
  /\ UNCHANGED <<timerRunning, timer, iocStopped>>

\* run() has ended: after an exception, or because the context is stopped.
RunEnds ==
  /\ \/ clock = "threw"
     \/ clock = "ready" /\ iocStopped
  /\ clock' = IF stopping THEN "ended" ELSE "again"
  /\ UNCHANGED <<timerRunning, timer, iocStopped, threw>>

\* ioc.restart, and the test of the loop.
RunAgain ==
  /\ clock = "again"
  /\ clock' = IF stopping THEN "ended" ELSE "ready"
  /\ iocStopped' = FALSE
  /\ UNCHANGED <<timerRunning, timer, threw>>

RunClock ==
  /\ TakeHandler \/ sendClock \/ TestTimer \/ restartTimer \/ RunEnds \/ RunAgain
  /\ UNCHANGED <<announced, manager, closer, stopping, met>>

Throws == HandlerThrows /\ UNCHANGED <<announced, manager, closer, stopping, met>>

----------------------------------------------------------------------------
(* The closing thread.                                                     *)

CloseStep(from, to) == closer = from /\ closer' = to

\* Thread::stopThread, ClockSubscriber::onStopThread, Thread::joinThread
Close ==
  \/ /\ CloseStep("idle", "stop") /\ stopping' = TRUE
     /\ UNCHANGED <<timerRunning, timer, iocStopped>>
  \/ /\ CloseStep("stop", "cancel") /\ timerRunning' = FALSE
     /\ UNCHANGED <<stopping, timer, iocStopped>>
  \/ /\ CloseStep("cancel", "ioc") /\ Cancel
     /\ UNCHANGED <<stopping, timerRunning, iocStopped>>
  \/ /\ CloseStep("ioc", "join") /\ iocStopped' = TRUE
     /\ UNCHANGED <<stopping, timerRunning, timer>>
  \/ /\ CloseStep("join", "done") /\ clock = "ended"
     /\ UNCHANGED <<stopping, timerRunning, timer, iocStopped>>

RunCloser == Close /\ UNCHANGED <<announced, manager, clock, met, threw>>

Next == RunManager \/ Expire \/ RunClock \/ Throws \/ RunCloser

\* The threads go on and time passes; nothing is asked of the other host, and the
\* connection need not be closed.
Fairness ==
  /\ WF_vars(manager # "idle" /\ RunManager)
  /\ WF_vars(RunClock) /\ WF_vars(Expire)
  /\ WF_vars(closer # "idle" /\ RunCloser)

Spec == Init /\ [][Next]_vars /\ Fairness

----------------------------------------------------------------------------
(* Properties.                                                             *)

\* Everything has its type.
TypeOK ==
  /\ announced \in 0 .. MaxAnnouncements
  /\ manager \in {"idle", "taken", "start", "armed", "stop"}
  /\ closer \in {"idle", "stop", "cancel", "ioc", "join", "done"}
  /\ clock \in Busy \cup {"ready", "threw", "again", "ended"}
  /\ stopping \in BOOLEAN /\ timerRunning \in BOOLEAN /\ iocStopped \in BOOLEAN
  /\ met \in BOOLEAN /\ threw \in BOOLEAN
  /\ waits \in Nat /\ fired \in Nat /\ aborted \in Nat

Handlers == fired + aborted + (IF clock \in Busy THEN 1 ELSE 0)
Chains == waits + Handlers

\* While the clock is subscribed no handler runs before its 10 ms have passed, unless a
\* start() met a handler of the previous subscription, or stop() a handler that was about
\* to restart the timer: then two chains cancel each other's wait for as long as the
\* subscription lasts, and the clock is sent without a pause (ClockSubscriber::restartTimer
\* and its handler, which ignores the error code).
Paced == aborted > 0 /\ timerRunning => met \/ stopping

\* As long as the clock is subscribed there is a chain, so that the clock is sent again,
\* unless a handler threw (ClockSubscriber::start, stop, run).
NeverSilent == timerRunning /\ manager = "idle" /\ ~stopping /\ ~threw => Chains > 0

\* When the clock stays unsubscribed all chains end; and a close ends the thread
\* (ClockSubscriber::stop and its handler's test, ClockSubscriber::onStopThread).
Quiet ==
  /\ []<>(timerRunning \/ Chains = 0 \/ clock = "ended")
  /\ closer = "stop" ~> closer = "done"
=============================================================================
