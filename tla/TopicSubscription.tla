------------------------- MODULE TopicSubscription -------------------------
(***************************************************************************)
(* How a local ROS subscription on one host switches on the matching       *)
(* subscriber on the other host.                                           *)
(*                                                                         *)
(* The publishing host polls the number of local subscriptions of every    *)
(* publisher (PublisherBase::testForSubscriber, called by the thread of a  *)
(* ThreadedPublisher or by the subscription monitor) and announces         *)
(* a change with a SUBSCRIPTION message.  The other host queues the        *)
(* message (SubscriberManager::subscribe) and its manager thread           *)
(* (SubscriberManager::run) creates or destroys the subscriber.  Closing   *)
(* the connection stops that thread (Thread::stopThread, joinThread,       *)
(* SubscriberManager::onStopThread).  A subscriber may have a thread of    *)
(* its own (ThreadedSubscriber), which both stop and join.                 *)
(*                                                                         *)
(* One behaviour of the module is the life of one connection.              *)
(***************************************************************************)
EXTENDS Naturals, Sequences

CONSTANTS
  Channels,    \* the channels advertised by the publishing host
  Known,       \* those the other host has a subscriber definition for
  Permanents,  \* the configurations: sets of channels defined as "permanent"
  OwnThread,   \* those whose definition says "useOwnThread"
  Grace,       \* 10 s in polls of the clock: the delay before FALSE is sent
  MaxLink      \* bound on the announcements under way, for each channel

ASSUME ConfigAssumption ==
  /\ Known \subseteq Channels
  /\ Permanents \subseteq SUBSET Known
  /\ OwnThread \subseteq Known
  /\ Grace \in Nat \ {0}
  /\ MaxLink \in [Channels -> Nat]

VARIABLES
  count,         \* publishing host: does the topic have a local subscription?
  hasSubscriber, \* publishing host: PublisherBase::hasSubscriber
  away,          \* subscriberGoneAwayTimePoint: Unset, or the age of it
  unseen,        \* history: clock ticks since a poll saw a subscription
  link,          \* announcements between the two hosts, in sending order
  permanent,     \* the channels whose SubscriberBase is permanent
  toSubscribe,   \* SubscriberManager::toSubscribe
  subscribers,   \* the channels in SubscriberManager::subscribers
  pc,            \* where the manager thread is in SubscriberManager::run
  message,       \* the announcement it is working on, <<>> or <<m>>
  stopping,      \* SubscriberManager's Thread::stopping
  closing,       \* where the closing thread is in stopThread; joinThread
  victim,        \* the subscriber whose thread it joins, <<>> or <<c>>
  worker,        \* where the thread of a ThreadedSubscriber is in its loop
  told,          \* and its Thread::stopping
  dangling       \* two threads have worked on one entry of the map

vars == <<count, hasSubscriber, away, unseen, link, permanent, toSubscribe,
          subscribers, pc, message, stopping, closing, victim, worker, told, dangling>>

pubVars == <<count, hasSubscriber, away, unseen>>
runVars == <<pc, message, stopping>>
closeVars == <<closing, victim>>
workVars == <<worker, told>>
subVars == <<permanent, subscribers, runVars, closeVars, workVars, dangling>>

Unset == Grace + 1  \* subscriberGoneAwayTimePoint = 0
Announcement == [channel : Channels, value : BOOLEAN]

inFlight == message \o toSubscribe \o link

----------------------------------------------------------------------------
(* The publishing host.                                                    *)

\* A local node subscribes to the topic or goes away.
LocalChange(c) ==
  /\ count' = [count EXCEPT ![c] = ~@]
  /\ UNCHANGED <<hasSubscriber, away, unseen, link, toSubscribe>>
  /\ UNCHANGED subVars

\* The clock advances; ages saturate at Grace.
Tick ==
  /\ away' = [c \in Channels |-> IF away[c] < Grace THEN away[c] + 1 ELSE away[c]]
  /\ unseen' = [c \in Channels |-> IF unseen[c] < Grace THEN unseen[c] + 1 ELSE Grace]
  /\ UNCHANGED <<count, hasSubscriber, link, toSubscribe>>
  /\ UNCHANGED subVars

notifyAboutSubscriber(c, value) ==
  /\ Len(SelectSeq(inFlight, LAMBDA m : m.channel = c)) < MaxLink[c]
  /\ link' = Append(link, [channel |-> c, value |-> value])

\* hasSubscriber and no subscription, noticed for the first time.
NoticeGone(c) ==
  /\ hasSubscriber[c] /\ ~count[c]
  /\ away[c] = Unset
  /\ away' = [away EXCEPT ![c] = 0]
  /\ UNCHANGED <<hasSubscriber, unseen, link>>

\* (mutant) hasSubscriber is not reset.
AnnounceGoneAgain(c) ==
  /\ hasSubscriber[c] /\ ~count[c]
  /\ away[c] = Grace
  /\ notifyAboutSubscriber(c, FALSE)
  /\ UNCHANGED <<hasSubscriber, away, unseen>>

\* hasSubscriber and no subscription for the whole grace period.
AnnounceGone(c) ==
  /\ hasSubscriber[c] /\ ~count[c]
  /\ away[c] = Grace
  /\ notifyAboutSubscriber(c, FALSE)
  /\ hasSubscriber' = [hasSubscriber EXCEPT ![c] = FALSE]
  /\ UNCHANGED <<away, unseen>>

\* (mutant) subscriberGoneAwayTimePoint is not reset.
NoticeBackKeeps(c) ==
  /\ hasSubscriber[c] /\ count[c]
  /\ unseen' = [unseen EXCEPT ![c] = 0]
  /\ UNCHANGED <<hasSubscriber, away, link>>

\* A poll sees the subscription (again): a stored time point is cleared.
NoticeBack(c) ==
  /\ hasSubscriber[c] /\ count[c]
  /\ away' = [away EXCEPT ![c] = Unset]
  /\ unseen' = [unseen EXCEPT ![c] = 0]
  /\ UNCHANGED <<hasSubscriber, link>>

AnnounceNew(c) ==
  /\ ~hasSubscriber[c] /\ count[c]
  /\ notifyAboutSubscriber(c, TRUE)
  /\ away' = [away EXCEPT ![c] = Unset]
  /\ unseen' = [unseen EXCEPT ![c] = 0]
  /\ hasSubscriber' = [hasSubscriber EXCEPT ![c] = TRUE]

testForSubscriber(c) ==
  /\ \/ NoticeGone(c)
     \/ AnnounceGone(c)
     \/ NoticeBack(c)
     \/ AnnounceNew(c)
  /\ UNCHANGED <<count, toSubscribe>>
  /\ UNCHANGED subVars

----------------------------------------------------------------------------
(* The subscribing host.                                                   *)

\* The connection hands a SUBSCRIPTION message to SubscriberManager::subscribe.
Receive ==
  /\ link # <<>>
  /\ toSubscribe' = Append(toSubscribe, Head(link))
  /\ link' = Tail(link)
  /\ UNCHANGED pubVars
  /\ UNCHANGED subVars

\* Nothing of the queues of announcements or of the publishing host changes.
Aside == UNCHANGED <<link, permanent, toSubscribe, pubVars>>

\* SubscriberManager::init makes the permanent subscribers.
InitManager ==
  /\ pc = "new"
  /\ pc' = "made"
  /\ subscribers' = subscribers \cup permanent
  /\ UNCHANGED <<message, stopping, closeVars, workVars, dangling>>
  /\ Aside

\* startThread resets the flag, also one that stopThread has just set.
ResetStopping ==
  /\ pc = "made"
  /\ pc' = "starting"
  /\ stopping' = FALSE
  /\ UNCHANGED <<subscribers, message, closeVars, workVars, dangling>>
  /\ Aside

\* onBeforeStartThread starts the threads of the permanent subscribers, unless
\* the closing thread is emptying the map; then the manager's thread starts.
StartThread ==
  /\ pc = "starting"
  /\ pc' = "wait"
  /\ worker' = [c \in OwnThread |-> IF c \in subscribers THEN "awake" ELSE worker[c]]
  /\ told' = [c \in OwnThread |-> c \notin subscribers /\ told[c]]
  /\ dangling' = (dangling \/ closing \in {"erasing", "inner"})
  /\ UNCHANGED <<subscribers, message, stopping, closeVars>>
  /\ Aside

\* The thread leaves the wait on toSubscribeCV with a message.
TakeMessage ==
  /\ pc = "wait" /\ ~stopping
  /\ toSubscribe # <<>>
  /\ message' = <<Head(toSubscribe)>>
  /\ toSubscribe' = Tail(toSubscribe)
  /\ pc' = "test"
  /\ UNCHANGED <<permanent, subscribers, stopping, closeVars, workVars, dangling, link,
                 pubVars>>

\* The thread leaves the wait, or the loop, because it is stopping.
LeaveLoop ==
  /\ pc = "wait" /\ stopping
  /\ pc' = "exited"
  /\ UNCHANGED <<subscribers, message, stopping, closeVars, workVars, dangling>>
  /\ Aside

\* (mutant) A permanent topic is treated as any other.
AppliesToPermanent(m) ==
  /\ m.channel \in Known
  /\ ~stopping
  /\ m.value # (m.channel \in subscribers)

\* The message is to be acted upon: what the tests of run() amount to.
Applies(m) ==
  /\ m.channel \in Known
  /\ ~stopping
  /\ IF m.value THEN m.channel \notin subscribers
     ELSE /\ m.channel \in subscribers
          /\ m.channel \notin permanent

\* (mutant) A dropped message stays the current one.
TestMessageKeeps ==
  /\ pc = "test"
  /\ pc' = IF Applies(message[1]) THEN "act" ELSE "wait"
  /\ UNCHANGED <<message, subscribers, stopping, closeVars, workVars, dangling>>
  /\ Aside

\* run() looks the channel up and reads "stopping".
TestMessage ==
  /\ pc = "test"
  /\ IF Applies(message[1])
     THEN pc' = "act" /\ UNCHANGED message
     ELSE pc' = "wait" /\ message' = <<>>
  /\ UNCHANGED <<subscribers, stopping, closeVars, workVars, dangling>>
  /\ Aside

\* What a subscriber leaves when it is erased from the map, or has when new.
NoThread(c) ==
  /\ worker' = [d \in OwnThread |-> IF d = c THEN "none" ELSE worker[d]]
  /\ told' = [d \in OwnThread |-> d # c /\ told[d]]

\* SubscriberManager::subscribe(topic, true), with its thread when it has one.
Subscribe ==
  /\ pc = "act" /\ message[1].value
  /\ subscribers' = subscribers \cup {message[1].channel}
  /\ worker' = [c \in OwnThread |-> IF c = message[1].channel THEN "awake" ELSE worker[c]]
  /\ told' = [c \in OwnThread |-> c # message[1].channel /\ told[c]]
  /\ pc' = "wait" /\ message' = <<>>
  /\ UNCHANGED <<stopping, closeVars, dangling>>
  /\ Aside

\* unsubscribe(*it) of a SharedSubscriber; the iterator dangles when the closing
\* thread has erased the entry.
Unsubscribe ==
  /\ pc = "act" /\ ~message[1].value
  /\ message[1].channel \notin OwnThread
  /\ dangling' = (dangling \/ message[1].channel \notin subscribers)
  /\ subscribers' = subscribers \ {message[1].channel}
  /\ pc' = "wait" /\ message' = <<>>
  /\ UNCHANGED <<stopping, closeVars, workVars>>
  /\ Aside

\* (mutant) The thread is not notified.
StopWorkerSilent(c) ==
  /\ told' = [told EXCEPT ![c] = TRUE]
  /\ UNCHANGED worker

\* stopThread of a ThreadedSubscriber sets its flag and notifies it without
\* toSendMutex: a thread that is going to sleep is not awake to notice.
StopWorker(c) ==
  /\ told' = [told EXCEPT ![c] = TRUE]
  /\ worker' = [worker EXCEPT ![c] = IF @ = "asleep" THEN "awake" ELSE @]

\* joinThread of a ThreadedSubscriber returns.
Joinable(c) == worker[c] \in {"none", "ended"}

\* unsubscribe(*it) of a ThreadedSubscriber, up to the join ...
StopOwnThread ==
  /\ pc = "act" /\ ~message[1].value
  /\ message[1].channel \in OwnThread
  /\ dangling' = (\/ dangling
                  \/ message[1].channel \notin subscribers
                  \/ victim = <<message[1].channel>>)
  /\ StopWorker(message[1].channel)
  /\ pc' = "join"
  /\ UNCHANGED <<subscribers, message, stopping, closeVars>>
  /\ Aside

\* ... and from there: the entry is erased when the thread has ended.
JoinOwnThread ==
  /\ pc = "join"
  /\ Joinable(message[1].channel)
  /\ NoThread(message[1].channel)
  /\ subscribers' = subscribers \ {message[1].channel}
  /\ pc' = "wait" /\ message' = <<>>
  /\ UNCHANGED <<stopping, closeVars, dangling>>
  /\ Aside

----------------------------------------------------------------------------
(* The threads of the ThreadedSubscribers.                                 *)

\* What the manager and the closing thread have is left alone.
Apart == UNCHANGED <<subscribers, runVars, closeVars, told, dangling>> /\ Aside

\* The loop, with nothing left to send: it ends, or holds toSendMutex and has
\* found the condition of its wait false.
TestWait(c) ==
  /\ worker[c] = "awake"
  /\ worker' = [worker EXCEPT ![c] = IF told[c] THEN "ended" ELSE "parking"]
  /\ Apart

\* The wait releases toSendMutex and sleeps, without a limit; it is deaf when
\* it has missed the notification of its stop.
Park(c) ==
  /\ worker[c] = "parking"
  /\ worker' = [worker EXCEPT ![c] = IF told[c] THEN "deaf" ELSE "asleep"]
  /\ Apart

\* A message of the topic (ThreadedSubscriber::callback) wakes it.
MessageWakes(c) ==
  /\ worker[c] \in {"asleep", "deaf"}
  /\ worker' = [worker EXCEPT ![c] = "awake"]
  /\ Apart

----------------------------------------------------------------------------
(* The closing thread.                                                     *)

\* stopThread: the flag is set, then onStopThread runs.
StopThread ==
  /\ closing = "open"
  /\ closing' = "erasing"
  /\ stopping' = TRUE
  /\ UNCHANGED <<subscribers, pc, message, victim, workVars, dangling>>
  /\ Aside

\* One round of the loop of onStopThread: a SharedSubscriber is erased.
EraseSubscriber ==
  /\ closing = "erasing"
  /\ \E c \in subscribers \ OwnThread : subscribers' = subscribers \ {c}
  /\ UNCHANGED <<runVars, closeVars, workVars, dangling>>
  /\ Aside

\* One round of it: a ThreadedSubscriber is stopped, ...
StopSubscriber ==
  /\ closing = "erasing"
  /\ \E c \in subscribers \cap OwnThread :
       /\ StopWorker(c)
       /\ victim' = <<c>>
       /\ dangling' = (dangling \/ (pc = "join" /\ message[1].channel = c))
  /\ closing' = "inner"
  /\ UNCHANGED <<subscribers, runVars>>
  /\ Aside

\* ... joined and erased.
JoinSubscriber ==
  /\ closing = "inner"
  /\ Joinable(victim[1])
  /\ NoThread(victim[1])
  /\ subscribers' = subscribers \ {victim[1]}
  /\ closing' = "erasing" /\ victim' = <<>>
  /\ UNCHANGED <<runVars, dangling>>
  /\ Aside

\* The loop finds the map empty.
EraseDone ==
  /\ closing = "erasing" /\ subscribers = {}
  /\ closing' = "joining"
  /\ UNCHANGED <<subscribers, runVars, victim, workVars, dangling>>
  /\ Aside

\* joinThread; there is nothing to join when the thread never started.
JoinThread ==
  /\ closing = "joining" /\ pc \in {"new", "made", "starting", "exited"}
  /\ closing' = "closed"
  /\ UNCHANGED <<subscribers, runVars, victim, workVars, dangling>>
  /\ Aside

----------------------------------------------------------------------------

Init ==
  /\ count = [c \in Channels |-> FALSE]
  /\ hasSubscriber = [c \in Channels |-> FALSE]
  /\ away = [c \in Channels |-> Unset]
  /\ unseen = [c \in Channels |-> Grace]
  /\ link = <<>>
  /\ permanent \in Permanents
  /\ toSubscribe = <<>>
  /\ subscribers = {}
  /\ pc = "new"
  /\ message = <<>>
  /\ stopping = FALSE
  /\ closing = "open"
  /\ victim = <<>>
  /\ worker = [c \in OwnThread |-> "none"]
  /\ told = [c \in OwnThread |-> FALSE]
  /\ dangling = FALSE

Start == InitManager \/ ResetStopping \/ StartThread

Work ==
  \/ TakeMessage \/ LeaveLoop \/ TestMessage
  \/ Subscribe \/ Unsubscribe \/ StopOwnThread \/ JoinOwnThread

Loop(c) == TestWait(c) \/ Park(c)

Close ==
  \/ StopThread \/ EraseSubscriber \/ StopSubscriber \/ JoinSubscriber
  \/ EraseDone \/ JoinThread

Next ==
  \/ \E c \in Channels : LocalChange(c) \/ testForSubscriber(c)
  \/ Tick
  \/ Receive
  \/ Start
  \/ Work
  \/ \E c \in OwnThread : Loop(c) \/ MessageWakes(c)
  \/ Close

Spec == Init /\ [][Next]_vars

\* Polls recur every 100 ms or 1 s, time passes, the connection delivers and
\* the threads run; a topic need not have a message that wakes one.
Fairness ==
  /\ \A c \in Channels : WF_vars(testForSubscriber(c))
  /\ WF_vars(Tick) /\ WF_vars(Receive) /\ WF_vars(Start) /\ WF_vars(Work)
  /\ \A c \in OwnThread : WF_vars(Loop(c))

FairSpec == Spec /\ Fairness

----------------------------------------------------------------------------
(* Properties.                                                             *)

TypeOK ==
  /\ count \in [Channels -> BOOLEAN]
  /\ hasSubscriber \in [Channels -> BOOLEAN]
  /\ away \in [Channels -> 0..Unset]
  /\ unseen \in [Channels -> 0..Grace]
  /\ link \in Seq(Announcement)
  /\ toSubscribe \in Seq(Announcement)
  /\ permanent \subseteq Known
  /\ subscribers \subseteq Channels
  /\ pc \in {"new", "made", "starting", "wait", "test", "act", "join", "exited"}
  /\ message \in Seq(Announcement)
  /\ Len(message) = (IF pc \in {"test", "act", "join"} THEN 1 ELSE 0)
  /\ stopping \in BOOLEAN
  /\ closing \in {"open", "erasing", "inner", "joining", "closed"}
  /\ victim \in Seq(OwnThread)
  /\ Len(victim) = (IF closing = "inner" THEN 1 ELSE 0)
  /\ worker \in [OwnThread -> {"none", "awake", "parking", "asleep", "deaf", "ended"}]
  /\ told \in [OwnThread -> BOOLEAN]
  /\ dangling \in BOOLEAN

Dynamic == Known \ permanent

\* Positions of a queue q of announcements, seen by channel c.
FirstFor(q, c, i) ==
  /\ q[i].channel = c
  /\ \A k \in DOMAIN q : k < i => q[k].channel # c

LastFor(q, c, i) ==
  /\ q[i].channel = c
  /\ \A k \in DOMAIN q : i < k => q[k].channel # c

NextFor(q, c, i, j) ==
  /\ i < j
  /\ q[i].channel = c /\ q[j].channel = c
  /\ \A k \in DOMAIN q : i < k /\ k < j => q[k].channel # c

\* The queue q leads the subscribing host from sub to has: its first announcement
\* for c changes sub, each one undoes the one before, and the last one is has.
Leads(q, c, sub, has) ==
  /\ \A i \in DOMAIN q : FirstFor(q, c, i) => q[i].value # sub
  /\ \A i, j \in DOMAIN q : NextFor(q, c, i, j) => q[i].value # q[j].value
  /\ \A i \in DOMAIN q : LastFor(q, c, i) => q[i].value = has
  /\ (\A i \in DOMAIN q : q[i].channel # c) => has = sub

\* While the connection is open the two hosts agree, up to announcements under
\* way: none of them is redundant, so run() drops none of them as "already
\* subscribed" or "not subscribed", and once they are worked off the subscriber
\* exists exactly when testForSubscriber believes there is a subscription.
Mirrored ==
  closing = "open" => \A c \in Dynamic :
    Leads(inFlight, c, c \in subscribers, hasSubscriber[c])

\* A permanent subscriber survives every announcement while the connection is
\* open.
PermanentStays == pc # "new" /\ closing = "open" => permanent \subseteq subscribers

\* testForSubscriber announces FALSE only when no poll of the whole grace period
\* before has seen a subscription: a subscriber that restarts within 10 s and is
\* seen by a poll never costs the other host its subscriber.
GraceRespected ==
  [][\A c \in Channels :
       hasSubscriber[c] /\ ~hasSubscriber'[c] => unseen[c] = Grace]_vars

\* run() waits in unsubscribe for a thread that sleeps without a limit: it was
\* going to sleep when it was notified, and only a message of its topic wakes it.
Hanging ==
  pc = "join" /\ message[1].channel \in {c \in OwnThread : worker[c] = "deaf"}

\* On a connection that stays open, the remote subscriber of a topic whose local
\* subscriptions stay (stay away) eventually exists (is gone) for good, or run()
\* has missed the end of a ThreadedSubscriber and hangs for good.
Follows ==
  \A c \in Known : [](c \in Dynamic /\ closing = "open") =>
    /\ <>[]count[c] => <>[](c \in subscribers) \/ <>[]Hanging
    /\ <>[]~count[c] => <>[](c \notin subscribers) \/ <>[]Hanging

\* Stated by the README ("As soon as the client has a local subscription for the
\* common topic again, it informs the server, which then creates a subscription
\* for the common topic again"): Follows without the exception.
CreatedAgain ==
  \A c \in Known : [](c \in Dynamic /\ closing = "open") =>
    (<>[]count[c] => <>[](c \in subscribers))

\* Stated by run() ("we need to test if we are subscribed"): it unsubscribes
\* only a channel whose subscriber is in the map and is nobody else's.
NoDanglingUnsubscribe == ~dangling
=============================================================================
