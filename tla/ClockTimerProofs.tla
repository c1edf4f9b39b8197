-------------------------- MODULE ClockTimerProofs --------------------------
(***************************************************************************)
(* TLAPS proofs about ClockTimer, for any number of announcements: why the *)
(* clock is sent every 10 ms and not faster, and why it does not fall      *)
(* silent.                                                                 *)
(***************************************************************************)
EXTENDS ClockTimer, TLAPS

\* What a start() that is under way adds to the chains.
Coming == IF manager \in {"start", "armed"} THEN 1 ELSE 0

\* Starts and stops alternate; start() sets the flag first, stop() clears it first, and
\* only a close clears it otherwise.
FlagFollows ==
  /\ manager = "stop" => ~timerRunning
  /\ manager \in {"start", "armed"} => timerRunning \/ stopping
  /\ closer # "idle" => stopping
  /\ manager = "stop" => ~Subscribed
  /\ manager \in {"start", "armed"} => Subscribed
  /\ manager = "taken" /\ timerRunning /\ ~stopping => ~Subscribed
  /\ manager = "idle" /\ timerRunning /\ ~stopping => Subscribed

\* There is one chain, or the beginning of one, unless a start met a handler or a
\* cancellation a restart.
OneChain == met \/ stopping \/ Chains + Coming =< 1

\* A stop() that met no restart has left neither a wait nor a handler that will make one.
NoneIsLeft ==
  ~timerRunning /\ manager # "stop" =>
    met \/ stopping \/ (waits = 0 /\ clock \notin {"restart", "expiry"})

\* The flag is not set without a chain that will see it.
HasChain == timerRunning /\ manager \in {"idle", "taken"} => stopping \/ threw \/ Chains > 0

\* The context is stopped by a close only.
IocFollows == iocStopped => stopping

IInv == TypeOK /\ FlagFollows /\ OneChain /\ NoneIsLeft /\ HasChain /\ IocFollows /\ Paced

\* Nothing runs at first.
LEMMA Begins == Init => IInv
<1> SUFFICES ASSUME Init PROVE IInv
  OBVIOUS
<1>1. TypeOK
  <2>1. announced \in 0 .. MaxAnnouncements /\ waits \in Nat /\ fired \in Nat /\ aborted \in Nat
    BY AnnouncementAssumption DEF Init
  <2>2. /\ stopping \in BOOLEAN /\ timerRunning \in BOOLEAN /\ iocStopped \in BOOLEAN
        /\ met \in BOOLEAN /\ threw \in BOOLEAN
    BY Zenon DEF Init
  <2> QED
    BY <2>1, <2>2 DEF Init, TypeOK
<1>2. FlagFollows /\ IocFollows /\ HasChain /\ Paced /\ NoneIsLeft
  BY DEF Init, Subscribed, FlagFollows, IocFollows, HasChain, Paced, NoneIsLeft
<1>3. OneChain
  BY DEF Init, OneChain, Chains, Handlers, Coming, Busy
<1> QED
  BY <1>1, <1>2, <1>3 DEF IInv

\* Taking an announcement changes nothing of the timer (SubscriberManager::run).
LEMMA AnnouncementKept ==
  ASSUME IInv, TakeAnnouncement, UNCHANGED <<closer, clock, stopping, iocStopped, threw>>
  PROVE  IInv'
BY AnnouncementAssumption
   DEF Subscribed, IInv, TakeAnnouncement, TypeOK, FlagFollows, OneChain, NoneIsLeft, HasChain,
       IocFollows, Paced, Chains, Handlers, Coming, Busy, timer

\* Each step of start(): the flag, the expiry, the wait (ClockSubscriber::start).
LEMMA StartKept ==
  ASSUME IInv, Start, UNCHANGED <<closer, clock, stopping, iocStopped, threw>>
  PROVE  IInv'
<1> USE DEF Subscribed, IInv, TypeOK, FlagFollows, OneChain, NoneIsLeft, HasChain, IocFollows, Paced,
            Chains, Handlers, Coming, Busy, timer
<1>1. CASE BeginStart /\ manager' = "start" /\ timerRunning' = TRUE /\ UNCHANGED <<announced, timer>>
  <2>1. TypeOK' /\ FlagFollows' /\ IocFollows' /\ NoneIsLeft' /\ HasChain'
    BY <1>1 DEF BeginStart, MeetsHandler
  <2>2. Paced' /\ OneChain'
    <3>1. CASE MeetsHandler
      <4>1. met'
        BY <1>1, <3>1, Zenon DEF BeginStart
      <4> QED
        BY <4>1
    <3>2. CASE ~MeetsHandler
      BY <1>1, <3>2 DEF BeginStart, MeetsHandler
    <3> QED
      BY <3>1, <3>2
  <2> QED
    BY <2>1, <2>2
<1>2. CASE /\ manager = "start" /\ manager' = "armed" /\ Cancel
           /\ UNCHANGED <<announced, timerRunning, met>>
  BY <1>2 DEF Cancel
<1>3. CASE /\ manager = "armed" /\ manager' = "idle" /\ Wait
           /\ UNCHANGED <<announced, timerRunning, met>>
  BY <1>3 DEF Wait
<1> QED
  BY <1>1, <1>2, <1>3 DEF Start

\* Each step of stop(): the flag, the cancellation (ClockSubscriber::stop).
LEMMA StopKept ==
  ASSUME IInv, Stop, UNCHANGED <<closer, clock, stopping, iocStopped, threw>>
  PROVE  IInv'
<1> USE DEF Subscribed, IInv, TypeOK, FlagFollows, OneChain, NoneIsLeft, HasChain, IocFollows, Paced,
            Chains, Handlers, Coming, Busy, timer
<1>1. CASE /\ manager = "taken" /\ ~Subscribed
           /\ manager' = "stop" /\ timerRunning' = FALSE
           /\ UNCHANGED <<announced, met, timer>>
  BY <1>1
<1>2. CASE /\ manager = "stop" /\ manager' = "idle" /\ Cancel
           /\ met' = (met \/ clock \in {"restart", "expiry"})
           /\ UNCHANGED <<announced, timerRunning>>
  <2>1. TypeOK' /\ FlagFollows' /\ IocFollows' /\ HasChain' /\ Paced'
    BY <1>2 DEF Cancel
  <2>2. OneChain' /\ NoneIsLeft'
    <3>1. CASE clock \in {"restart", "expiry"}
      BY <1>2, <3>1
    <3>2. CASE clock \notin {"restart", "expiry"}
      BY <1>2, <3>2 DEF Cancel
    <3> QED
      BY <3>1, <3>2
  <2> QED
    BY <2>1, <2>2
<1> QED
  BY <1>1, <1>2 DEF Stop

\* Time passes: what waits becomes a handler (boost::asio::steady_timer).
LEMMA ExpireKept == IInv /\ Expire => IInv'
BY DEF Subscribed, IInv, Expire, TypeOK, FlagFollows, OneChain, NoneIsLeft, HasChain, IocFollows, Paced,
       Chains, Handlers, Coming, Busy

\* Each step of the clock's thread: a handler is taken, sends, tests the flag, restarts the
\* timer; or run() ends and begins again (ClockSubscriber::run, restartTimer).
LEMMA ClockKept == IInv /\ RunClock => IInv'
<1> SUFFICES ASSUME IInv, RunClock PROVE IInv'
  OBVIOUS
<1> USE DEF Subscribed, IInv, TypeOK, FlagFollows, OneChain, NoneIsLeft, HasChain, IocFollows, Paced,
            Chains, Handlers, Coming, Busy, timer
<1>0. UNCHANGED <<announced, manager, closer, stopping, met>>
  BY DEF RunClock
<1>1. CASE TakeHandler
  BY <1>0, <1>1 DEF TakeHandler
<1>2. CASE sendClock
  BY <1>0, <1>2 DEF sendClock
<1>3. CASE TestTimer
  BY <1>0, <1>3 DEF TestTimer
<1>4. CASE restartTimer
  <2>1. CASE clock = "restart" /\ clock' = "expiry" /\ Cancel
    BY <1>0, <1>4, <2>1 DEF restartTimer, Cancel
  <2>2. CASE clock = "expiry" /\ clock' = "ready" /\ Wait
    BY <1>0, <1>4, <2>2 DEF restartTimer, Wait
  <2> QED
    BY <1>4, <2>1, <2>2 DEF restartTimer
<1>5. CASE RunEnds
  BY <1>0, <1>5 DEF RunEnds
<1>6. CASE RunAgain
  BY <1>0, <1>6 DEF RunAgain
<1> QED
  BY <1>1, <1>2, <1>3, <1>4, <1>5, <1>6 DEF RunClock

\* An exception ends a chain, and "threw" remembers it.
LEMMA ThrowKept == IInv /\ Throws => IInv'
BY DEF Subscribed, IInv, Throws, HandlerThrows, TypeOK, FlagFollows, OneChain, NoneIsLeft, HasChain,
       IocFollows, Paced, Chains, Handlers, Coming, Busy, timer

\* Each step of the closing thread (Thread::stopThread, ClockSubscriber::onStopThread).
LEMMA CloseKept == IInv /\ RunCloser => IInv'
<1> SUFFICES ASSUME IInv, RunCloser PROVE IInv'
  OBVIOUS
<1> USE DEF Subscribed, IInv, TypeOK, FlagFollows, OneChain, NoneIsLeft, HasChain, IocFollows, Paced,
            Chains, Handlers, Coming, Busy, timer
<1>0. UNCHANGED <<announced, manager, clock, met, threw>>
  BY DEF RunCloser
<1>1. CASE /\ CloseStep("idle", "stop") /\ stopping' = TRUE
           /\ UNCHANGED <<timerRunning, timer, iocStopped>>
  BY <1>0, <1>1 DEF CloseStep
<1>2. CASE /\ CloseStep("stop", "cancel") /\ timerRunning' = FALSE
           /\ UNCHANGED <<stopping, timer, iocStopped>>
  BY <1>0, <1>2 DEF CloseStep
<1>3. CASE /\ CloseStep("cancel", "ioc") /\ Cancel
           /\ UNCHANGED <<stopping, timerRunning, iocStopped>>
  BY <1>0, <1>3 DEF CloseStep, Cancel
<1>4. CASE /\ CloseStep("ioc", "join") /\ iocStopped' = TRUE
           /\ UNCHANGED <<stopping, timerRunning, timer>>
  BY <1>0, <1>4 DEF CloseStep
<1>5. CASE /\ CloseStep("join", "done") /\ clock = "ended"
           /\ UNCHANGED <<stopping, timerRunning, timer, iocStopped>>
  BY <1>0, <1>5 DEF CloseStep
<1> QED
  BY <1>1, <1>2, <1>3, <1>4, <1>5 DEF RunCloser, Close

\* The invariant is inductive.
LEMMA Inductive == Spec => []IInv
<1>1. IInv /\ [Next]_vars => IInv'
  <2> SUFFICES ASSUME IInv, [Next]_vars PROVE IInv'
    OBVIOUS
  <2>1. CASE RunManager
    BY <2>1, AnnouncementKept, StartKept, StopKept DEF RunManager
  <2>2. CASE Expire \/ RunClock \/ Throws \/ RunCloser
    BY <2>2, ExpireKept, ClockKept, ThrowKept, CloseKept
  <2>3. CASE UNCHANGED vars
    BY <2>3 DEF vars, timer, Subscribed, IInv, TypeOK, FlagFollows, OneChain, NoneIsLeft, HasChain,
                IocFollows, Paced, Chains, Handlers, Coming, Busy
  <2> QED
    BY <2>1, <2>2, <2>3 DEF Next
<1> QED
  BY Begins, <1>1, PTL DEF Spec

\* Every variable keeps its type.
THEOREM TypeCorrect == Spec => []TypeOK
<1>1. IInv => TypeOK
  BY DEF IInv
<1> QED
  BY <1>1, Inductive, PTL

\* While the clock is subscribed, no handler runs before its 10 ms have passed, unless a
\* start met a handler or a cancellation a restart (ClockSubscriber::restartTimer).
THEOREM SentAtItsPace == Spec => []Paced
<1>1. IInv => Paced
  BY DEF IInv
<1> QED
  BY <1>1, Inductive, PTL

\* A subscribed clock is sent again and again: there is always a chain, whatever starts,
\* stops and handlers met, as long as no handler throws (ClockSubscriber::start, stop).
THEOREM KeepsBeingSent == Spec => []NeverSilent
<1>1. IInv => NeverSilent
  BY DEF IInv, HasChain, NeverSilent
<1> QED
  BY <1>1, Inductive, PTL
=============================================================================
