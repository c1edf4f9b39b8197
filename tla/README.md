# TLA+ verification of ROS2-Connect

ROS2-Connect joins two ROS 2 systems over one websocket: a *server* process
(`src/connectServer.cpp`) and a *client* process (`src/connectClient.cpp`).  Each
forwards topics, services and actions of its own system to the other.  The code
is small; what is hard about it is that almost every component has a thread, a
queue, a mutex, a condition variable and a `stopping` flag of its own, and that
the two processes only agree as far as the messages between them say.  These
modules model that, check it with TLC, and prove the most important parts with
TLAPS.  Paths below are relative to the repository; those of this project's own files are
bare names.

## Inventory

| Component | State it keeps | Operations | Interacts through |
|---|---|---|---|
| Topic subscription: `publisherBase.hpp`, `subscriberManager.cpp` | `hasSubscriber`, `subscriberGoneAwayTimePoint` per publisher; `toSubscribe` queue, `subscribers` map, manager thread | `testForSubscriber`, `subscribe`, `run`, `unsubscribe`, `onStopThread` | SUBSCRIPTION messages; polled by the threads of publishers; closed by the connection |
| Service bridge: `service.hpp`, `serviceServer.hpp`, `serviceClient.hpp` | map gid → handle, removal queue, a thread per request, `stopping` on each host | `sendAndWait`, `done`, `handle`, `executeHandle`, `sendAndDone`, `executeRemove`, `stop` | SERVICE messages; rclcpp callbacks on executor threads; plugins |
| Action bridge: `action.hpp`, `actionServer.hpp`, `actionClient.hpp` | the same per goal, with goal, cancel and wait parts of a handle | `sendGoalAndWait`, `sendCancelAndWait`, `handleAccepted`, `executeAccepted`, `handle`, `executeHandle`, the result and feedback callbacks, `executeRemove`, `stop` | ACTION messages; rclcpp_action callbacks; plugins |
| Publisher data path: `publisherManager.cpp`, `threadedPublisher.cpp`, `sharedPublisher.cpp` | `toPublish` queues, `publishers` map, subscription monitor | `publish`, `run`, `subscriptionMonitorRun`, `onStopThread` | called by the connection, publishes to ROS |
| Subscriber data path: `threadedSubscriber.cpp`, `sharedSubscriber.cpp` | `toSend` queue | ROS callback, `run`, `onStopThread` | calls `ConnectionBase::send` |
| Send queue: `connectionBase.cpp`, `websocketConnectionBase.hpp` | `sendingQueue`, write under way | `send`, `queueMessage`, `asyncWrite` | strand of the connection |
| Server and connection life cycle: `connectionManager.hpp`, `websocketConnection/*`, `server.cpp`, `connectServer.cpp` | list of connections, authentication and its two timers, managers' threads | accept, handshake, `onConnected`, `onAuthorized`, `stopConnection`, `stopAllConnections`, `close`, `halt` | three threads: connection, server strand, signal handler |
| Client life cycle: `client.cpp`, `websocketClientConnection.hpp`, `connectClient.cpp` | list of connections, the executor's flag, the client's and the connection's io_context | `connect`, `startConnection`, `onStopThread`, `run`, `halt`, the two signals | main thread (and the handler on it), client thread, connection thread; a client connects once: a failure or a loss ends the application |
| Service and action dispatch: `serviceActionManager.cpp` | `toHandle` queue, plugin maps, callback groups | `init`, `handle`, `run`, `onStopThread` | hands messages to the bridges |
| Message codec: `message/*`, `messageBase.hpp`, `serviceActionMessage.hpp` | none | `getCombinedVector`, `fromFlatBuffer`, `fromMessage`, compressors, `decompress` | all components |
| Configuration: `connectBase.hpp`, `enumParser.hpp`, `globalConfig.cpp` | `GlobalConfig`, fixed after start-up | `initializeParameters`, `evalNrOfMultiThreadedExecutorThreads` | read by all components; nothing compares those of the two hosts |
| Clock subscriber: `clockSubscriber.cpp` | timer, `timerRunning` | `start`, `stop`, `restartTimer`, the handler | own thread and io_context; started and stopped by two other threads |
| Thread base class: `thread.cpp` | `stopping`, `thread` | `startThread`, `stopThread`, `joinThread` | base of all of the above |
| Status publisher, logger, authentication interface, launch files | a timer; none | glue | – |

What is hard, and what makes each component correct:

* **Topic subscription.** Announcements are toggles: TRUE and FALSE only make sense in
  alternation, so one that is lost, doubled or out of order leaves the hosts
  disagreeing.  Correct means: the hosts agree up to what is under way, a restart
  within ten seconds is not announced, permanent subscribers stay, and the remote
  subscriber follows the local subscription.
* **Service bridge.** Four threads per host work on one map whose key is the ROS
  client, not the call.  Correct means: every captured call returns, with its own
  answer; no client gets another's answer; no handle or thread is left behind; a
  handle is never erased under its running thread; `stop` leaves nothing.
* **Action bridge.** Like the service bridge, with three conversations per goal
  (goal, cancel, feedback and result) that overlap.  Correct means: callbacks return,
  outcomes and cancel responses are those of the real action, a result is never lost,
  a goal that is given up is cancelled, nothing is used after it was erased.
* **Data paths and send queue.** Order per channel, one write at a time, shutdown
  that terminates.
* **Server and connection life cycle.** Start of the managers against a shutdown; no data
  before the authorisation; every connection is closed once and nothing of it runs on.
* **Client life cycle.** The main thread and the client thread stop the same client and
  the same connection.  Correct means: whatever fails, whoever begins and wherever a
  signal arrives, the application ends and nothing of the connection is left.
* **Configuration and dispatch.** Start-up refuses what is ambiguous although identifiers
  are narrowed on the way; a message reaches the publisher or plug-in of its channel and
  op-code; the executor has a thread for each callback that may block; messages circulate
  only where the configuration asks for it, whatever names it uses.
* **Codec.** Decoding gives back what was encoded, compressed or not.
* **Clock.** Cancelled and expired waits both run the handler, which starts the next wait:
  the clock must neither fall silent, nor be sent without a pause, nor go on after a stop.

## Modules

| Module | Models | Use |
|---|---|---|
| `TopicSubscription` | one connection's subscriptions on all channels, both hosts | checked |
| `MCTopicSubscription` | an instance of it: how many announcements of a topic may be under way | checked |
| `TopicSubscriptionProofs` | its theorems | proved |
| `ServiceBridge` | one captured service, both plugins and the real service | checked |
| `MCServiceBridge` | instances of it: who makes which call | checked |
| `ServiceBridgeProofs` | its theorems | proved |
| `ActionBridge` | one captured action, both plugins and the real action | checked |
| `ActionBridgeProofs` | its theorems | proved |
| `ServerLifecycle` | the threads of the server process, from accept to close and Ctrl-C | checked |
| `ServerLifecycleProofs` | its theorems | proved |
| `ClientLifecycle` | the threads of the client process, from start-up to its end | checked |
| `ClientLifecycleProofs` | its theorems | proved |
| `DataPath` | topic messages from the subscribers of one host to the publishers of the other | checked |
| `LossyFifo` | what such a path promises; `DataPath` implements it | abstract specification |
| `DataPathProofs` | theorems about `DataPath` | proved |
| `ConnectBase` | what start-up makes of parameters, as operators | used by `MessageCodec` |
| `MessageCodec` | frames, written and read, as operators | used by `Hosts` |
| `Hosts` | two hosts with their parameters: start, topics, calls, dispatch, executor | checked |
| `MCHosts` | the pairs of parameters it is checked for | checked |
| `HostsProofs` | theorems about the three | proved |
| `ClockTimer` | the clock's timer and the three threads that use it | checked |
| `ClockTimerProofs` | its theorems | proved |

The modules share one way of modelling a thread: a variable says where it is
between two points at which another thread can interfere (an unlock, a wait, a
message, the test of a flag), and what lies between is one action.  A condition
variable is modelled by the truth of its predicate, except in `ServiceBridge`,
`ServerLifecycle` and `ClientLifecycle`, and for the `ThreadedSubscriber` of
`TopicSubscription`, where the test, the sleep and the notification are steps, because
the code notifies without holding the mutex.  In the bridges the connection between
the hosts is a FIFO queue each way; that the strand, `sendingQueue` and the queues of
the managers behind them keep the order is what `DataPath` shows.  Message bodies are
reduced to what a property tells apart: the call, goal or message they belong to.

The composition goes by level.  `Hosts` puts configuration, codec, dispatch and executor of
two hosts together, and takes queues for the FIFO that `DataPath` (with its abstract
`LossyFifo`) establishes and a call for a wait that is answered or times out; what a
call is in detail is `ServiceBridge` and `ActionBridge`, each with both of its hosts; how
connections come and go is `ServerLifecycle`, `ClientLifecycle` and, for what is announced
over one, `TopicSubscription`.

Definitions that end in a mutated behaviour and are commented `(mutant)` are not
part of any specification.  They are plausible bugs, each of which makes one property
fail, and show that the property says something about the code.

### TopicSubscription

The publishing host: `count` is what `get_subscription_count` would say,
`testForSubscriber` is one poll with its four outcomes (`NoticeGone`, `AnnounceGone`,
`NoticeBack`, `AnnounceNew`), `away` is the age of `subscriberGoneAwayTimePoint`
with `Unset` for zero.  The other host: `Receive` is `subscribe(message)`, `InitManager`
the creation of the `permanent` subscribers (those of one of the configurations in
`Permanents`), `ResetStopping` and `StartThread` are
`startThread`, which clears the flag even when the close has set it; `TakeMessage`,
`TestMessage`, `Subscribe` and `Unsubscribe` are the steps of `run`; `StopThread` to
`JoinThread` are the closing thread.  A `ThreadedSubscriber` (`OwnThread`) has a thread:
`worker` is where it is in its loop and `told` its flag; `StopOwnThread` and
`JoinOwnThread` (`StopSubscriber` and `JoinSubscriber` for the closing thread) are the two
halves of `unsubscribe`.  The notification takes no `toSendMutex`: a thread that is
`parking` misses it and is `deaf` until a message wakes it.  The map is not locked in the
code, and the iterator that `run` keeps over the lookup is the state `act`; `dangling`
records a use of it after `onStopThread` has erased its entry, and a subscriber that both
threads stop.

### ServiceBridge

`call` is where a captured call is in `sendAndWait` and `done`; `serverHandles` and
`clientHandles` are the two maps from a gid to a handle.  The gid is the writer GUID
of the ROS *client*, so several calls share a key; `std::map::insert` on a key that
exists does nothing, and an erase by key erases whatever is there.  `accepting` is a
request whose thread `handle` has started but whose handle it has not yet inserted
(`serviceClient.hpp:68-69`).  `thread` walks through `executeHandle`; `parking` is the
moment between the test of the wait's condition and the sleep, in which a
notification without the mutex is lost.  `service` is the call of the real service and
the callback of its answer.  `serverStop` and `clientStop` go through `stop`.
`Sequential` says whether the callback group is mutually exclusive.  (`src/README.md:182`
says calls are sequential unless `allowSimultaneous`; `serviceActionManager.cpp:32-35`
chooses the groups the other way round, and a reentrant one without `useOwnThread`.  Both
kinds occur, so both are checked; `Hosts_sequential` is about the divergence itself.)

### ActionBridge

A goal is its UUID, which is also its gid, so keys are never shared.  `goalCall` covers
`sendGoalAndWait` and `handleAccepted`, `cancelCall` covers `sendCancelAndWait`, `worker`
is the thread in `executeAccepted`; `worker` and `thread` have a state for the top of
their loop, where `stopping` ends them without the clean-up they do when `stop` wakes
them.  `thread`, `clientQueue`, `clientGoal`, `clientCancel` and `done` are the handle at
the ActionClient; `remote`, `fed`, `cancelAsked` and `canceling` the real action.  The
callbacks named after those of `actionClient.hpp` are the only steps of the real action,
and each sends what the code sends, `goalRejected` its GOAL_ACCEPT included.
`removing` is the handle between join and erase in `executeRemove`; `dangling` records a
use of the map entry that `sendCancelAndWait` keeps a reference to.

### ServerLifecycle

`at` is where the thread of a connection is in `WebsocketServerConnection::run`, with the
authentication (`reading`, `checkTimer`, `endTimer`, `asked`, `valid`) spread over the
handlers that the io_context runs, and `onAuthorized` as the steps `StartFlag` and
`StartSpawn` per manager: `startThread` first resets `stopping`, then creates the thread.
`thread` and `stopping` are those of the three managers.  `pc`, `cur` and `idx` say where
the server's strand and the main thread are in `stopConnectionInternal`, `onStopThread`,
`joinThread`, `close` and the destructor, which both may run, on different connections.
`posted` are the stops posted to the strand, `connections` the list.  The list has no lock:
`SearchConnection` and `EraseConnection`, like the test and the `begin()` of
`stopAllConnections`, are steps of their own, and `raced` records that one thread changed
the list while the other was at it; from then on a search finds, and an erasure removes,
anything.  `StopManager` and `JoinInner` are `onStopThread` of a manager with the stops and
joins of what the manager has started.  `SubscriberHangs` is the `SubscriberManager` in the
`unsubscribe` that `TopicSubscription` shows to hang.  `CloseConnection` ends when the peer
has answered, for which nothing is assumed.  `Halt` to `DestroyServer` are
`ConnectServer::halt`, which the handler of Ctrl-C runs in the middle of a callback of the
executor: it is `entangled` if that callback holds a mutex which `halt`, or a thread it
joins, needs.  `overlap` and `lost` record two more things after which a stop need not come
to its end.

### DataPath

`callbacks` are the ROS callbacks under way; `toSend` and `sending` queue and thread of a
`ThreadedSubscriber`; `posted`, `sendingQueue` and `writing` the strand of the connection;
`wire` what is between the hosts; `toPublish` and `routing` queue and thread of the
`PublisherManager`; `queue` and `publishing` those of a `ThreadedPublisher`.  Messages are
numbered as they arrive from ROS.  One behaviour is the life of one connection.

`LossyFifo` knows three things of a topic: what has been accepted, what is pending, what has
been delivered.  The mapping takes as pending the concatenation of all queues on the way,
seen from one channel; an unsubscription, a failed write, a closed stream and a stop each
drop one contiguous piece of it.  A topic whose subscriber has `useOwnThread` is not
`Ordered`: the subscriber is in a reentrant callback group (`subscriberManager.cpp:164`), so
messages may change places before `toSend`, and keep theirs from there on.  Each host
chooses `useOwnThread` for itself: `OwnSubscriber` and `OwnPublisher` are independent, and
the order depends on the first only.

### ConnectBase and MessageCodec

A host's parameters are a record, its lists of JSON texts sequences of entries with a
`form` (`complete`, `incomplete`, `broken`) in place of the text.  `QosOk`,
`CompressionOk`, `SubscriberOk`, `PublisherOk`, `ServiceServerOk` and the rest are the loops
of `ConnectBase::initializeParameters`, each comparing an entry with those before it, as
the maps that are being filled do; `ToByte` and `ToUint16` are the places where an
`int64_t` becomes a `uint8_t` or `uint16_t`.  `Subscribers`, `Publishers` and `Plugins` are
what is put into `GlobalConfig`.  `evalNrOfMultiThreadedExecutorThreads` counts own
threads, and is -1 for a list that cannot be read.

A frame is a sequence of cells: header bytes are numbers, data and gids are cells nothing
looks into, a compressed block is one cell that records the family of its compressor and what
is in it.  `Header`, `getCombinedVector`, `fromFlatBuffer`, `serviceActionVector` and
`fromMessage` are the writers and readers of the same names; `Compressed` and `Inflated` say
when compressing is not done (size, failure of the library) and when decompressing
refuses.

### Hosts

`given` are the parameters, `Start` what `main` does with them, `config` and `state` what
comes of it.  `NodePublishes` fills `ready`, the callbacks the executor has to run;
`SubscriberCallback` is the callback and, for a `ThreadedSubscriber`, its thread;
`ClockTick` the clock's handler.  `wire` are frames; `processMessage`,
`RunPublisherManager`, `RunThreadedPublisher` and `RunServiceActionManager` are the threads
behind it.  `rosPublish` publishes on the host's graph, where the host's own subscribers
hear it: `hops` counts how often a message was carried.  The graph knows a topic by the name
rclcpp makes of the configured one: `FullName`, a constant of which only the predefined
absolute names are assumed to stay themselves (a host's topics are not remapped).  What
start-up compares (`SubscriberOk`, `PublisherOk`) is the configured text.  `call` is a
captured call: `ready` until the executor has a thread for it (`Execute`, with the callback
groups of `ServiceActionManager::init`), `blocked` while it keeps that thread, until
`Timeout` or an answer; `remote` is what the other host does for it.

### ClockTimer

`waits` are `async_wait`s, `fired` and `aborted` the handlers of expired and of cancelled
ones that the io_context holds.  `manager` walks through `start` and `stop` as
announcements alternate, `closer` through `stopThread`, `onStopThread` and `joinThread`,
`clock` through `run`, the handler and `restartTimer`; setting the expiry cancels every wait.
`met` and `threw` record the races and the exceptions that two of the properties except.

### ClientLifecycle

`pc` and `resume` say where the main thread and the client thread are: both walk through
`Client::onStopThread` (`StopIoc`, `stopAllConnections`, `Cancel`) and, if they found the
connection in the list and erased it, its stop, close and destruction; search and erasure,
`raced`, the inner joins, the held manager, the close and `entangled` are as in
`ServerLifecycle`.  `interrupted` is where the
handler of Ctrl-C has interrupted the main thread, on which it runs `halt`.  `at` is where the
connection's thread is, `posted` a stop it has asked the client's strand for, `manager` and
`stopping` the managers.  `Cancel` clears the flag of the executor, `Spin` sets it:
`unheard` records a cancellation that came first.

## Runs

| Run | Instance | Shows |
|---|---|---|
| `TopicSubscription_announce` | a dynamic channel with a thread of its own and a shared one, dynamic or permanent; two announcements of the first and one of the second under way, grace of 1 poll, close at any moment | `Mirrored`, `PermanentStays`, `GraceRespected`, `Follows` |
| `ServiceBridge_overlap` | two overlapping calls of one client | `ServerHandlesAccounted`, `TimedOutIsReleased` |
| `ServiceBridge_sequential` | two calls of one client and one of another, one callback at a time | `Isolation`, `MeetsItsCall` |
| `ServiceBridge_stop` | one call, both plugins stopped at any moment | `RunningIsRegistered`, `EveryCallReturns` |
| `ActionBridge_sequential` | a goal and two cancel requests, one callback at a time | `ExecutingIsServed`, `Faithful`, `GoalsEnd` |
| `ActionBridge_stop` | a goal and a cancel request in overlapping callbacks, both plugins stopped at any moment | `EveryCallbackReturns` |
| `ServerLifecycle_ends` | one connection with two managers, with and without authentication, errors, time-outs and Ctrl-C at any moment | `StoppedOnce`, `NoZombie`, `StartedIsAuthorised`, `ClosedIsQuiet`, `StopsEnd` |
| `ClientLifecycle_ends` | the client process, with and without TLS, every failure, a loss, Ctrl-C and SIGTERM at any moment | `NothingLeftBehind`, `ApplicationEnds` |
| `DataPath_fifo` | two messages over three topics: a threaded subscriber for a shared publisher, the reverse, and one the other host does not know | `OneWriter`, `Implements`, `Arrives` |
| `Hosts_pairs` | three dozen pairs of parameters, accepted and refused, with absolute and relative topic names, with up to three messages or five calls | `AcceptedIsSound`, `Faithful`, `LoopNeedsBoth`, `StarvationNeedsOverlap`, `Completes` |
| `ClockTimer_races` | four announcements, exceptions, a close at any moment | `Paced`, `NeverSilent`, `Quiet` |
| `Hosts_sequential` | two calls to a service with a thread of its own and without `allowSimultaneous` | **violated** `SequentialUnlessAllowed`: both run at once |

The first run of each module also checks its `TypeOK`.  Some properties are conjunctions of
parts that belong together, each defined and commented by itself: `MeetsItsCall`,
`ExecutingIsServed`, `Faithful`, `GoalsEnd`, `StopsEnd`, `Completes`, `ApplicationEnds`.

The violated run states what the README (`src/README.md:182`) says of the program; the
quotation is under `findings` in `PROJECT.json`.  More properties that state a comment or the
README without the exceptions the checked properties name are defined at the end of their
modules and violated by the code; no run of the list checks them, each can be reproduced by
naming it in the cfg given:

| Property | cfg | What happens |
|---|---|---|
| `ReplyMatches` | `ServiceBridge_sequential` | a late answer is given to the next call of the client |
| `WaitingIsRegistered` | `ServiceBridge_overlap` | the handle of a quick next call is not inserted, its response is dropped |
| `DoneIsReleased` | `ServiceBridge_overlap` | a lost notification leaves thread and handle of an answered request for ever |
| `GoalFaithful` | `ActionBridge_sequential` | a goal the real action rejects is reported as accepted |
| `CancelHandleLives` | `ActionBridge_sequential` | the cancel callback waits on an erased handle |
| `ClosedLeavesNothing` | `ServerLifecycle_ends` | a manager is started after it was stopped |
| `ListIsNotShared` | `ServerLifecycle_ends` | the server thread is still at work on the list when `halt` goes through it (`connectionManager.hpp:64` says "AFTER the io_context was already stopped") |
| `TimeoutCloses` | `ServerLifecycle_ends` | after the time-out of the authentication (`src/README.md:62`) the server waits in `close` for a peer that does not answer |
| `FailureEnds` | `ClientLifecycle_ends` | the executor is cancelled (`client.cpp:106`) before it spins, and spins for ever |
| `CreatedAgain` | `TopicSubscription_announce` | `run` hangs in `unsubscribe`, and a subscription that is announced again (`src/README.md:107`) is not created |
| `FlagsPreventLoops` | `Hosts_pairs` | tf goes one way by the flags and the other way by the entries for `tf`, and a message of `/tf` is carried a third time (`src/README.md:208` says the flags prevent it) |
| `NoDanglingUnsubscribe` | `TopicSubscription_announce` | `run` uses a map entry that `onStopThread` erases |

**Bounds.** Channels of `TopicSubscription` only meet in the queues, so one of each kind
shows every interaction of two, and one with a thread beside one without shows what a
hang of the first does to the second; the other host's configuration, with the second one
permanent or not, is chosen by `Init`.  Two announcements under way already give every
alternation, and a grace period of one poll tells "younger", "old enough" and "unset"
apart.  In `ServiceBridge`, calls interfere through a shared gid (two calls of one
client suffice for a stale handle, a refused request and a shifted answer) and through
the executor and the queues (a call of another client).  In `ActionBridge` goals share
no state but the queues, the executor thread and the order of removal, and none of the
properties relates two goals: the instances have one goal.  Two cancel requests let
the answer to the first meet the second.  In `ServerLifecycle` connections share the list,
the strand and the main thread; what two of them can do to each other is `StoppedOnce`,
which is proved for any number, as are the other safety properties (two connections are
beyond TLC).  Two managers of the code's three let a stop meet the start at, before and
behind the same manager; the second is the `SubscriberManager`, which may
hang.  In `DataPath` two messages suffice for one to overtake or double the other, and three
topics are the three ways through the receiving host and both ways through the sending one.
That hosts which choose alike keep the order is covered by the proof of `Implements`, which
holds for any choice.  Real time is reduced to what it decides: a time-out may happen
whenever the wait is still unanswered, and the grace period counts
ticks of a clock that advances independently of the polls.

In `Hosts`, a pair of parameters is a scenario: each compressor in both directions, the loop
the README warns of, the same under two names and through the flags of `tf`, a mismatch,
every way of setting the flags of `tf` and `clock`, parameters at each limit (0, 249, 256,
257, 65536, -1), a channel shared by a service and an action, one and several callback
groups, and more calls than threads.  Three messages give three sizes, of which LZ4 takes
the first and ZLIB the first two (`LZ4_MAX_SRC_SIZE`, `ZLIB_MAX_SRC_SIZE`); five calls are
one more than a host without own threads has; four hops are two rounds of a loop.
`MaxUint32` is a stand-in, as TLC's integers are 32 bits wide.  In `ClockTimer` four
announcements are two subscriptions, enough for a handler of the first to meet the second.
`ClientLifecycle` has no constants: a client has one connection.

**Deadlock** is checked in the runs of `Hosts`, whose end is the step `Done`.  In the others
it is not (`CHECK_DEADLOCK FALSE`), as every instance comes to its end: the calls or goals
are finished, the connection is closed, or the process has ended.

**Fairness** is weak, and only on what the code makes happen: threads that can run do,
the connection delivers in the end (TCP, on a connection that is open; a write succeeds
or fails), a wait with a limit ends, timers expire, web requests return, `stop` goes on
once begun, polls recur, the executor runs callbacks for which it has a thread.  There is
none on local ROS nodes, on the calls of clients, on the real service or action, on
anything a peer or the user does (connect, shake hands, send, close, signals), on the
beginning of a close, nor on a thread of the ActionClient that is only to be woken by an
unlocked notification.  In both life cycles a `close` is without fairness, as it waits for
the peer without a time limit (`websocketConnectionBase.hpp:203-215`): `StopsEnd` and
`ApplicationEnds` hold unless somebody waits in it for ever (`AwaitsPeer`).  The joins inside
`onStopThread` are fair only if no notification was lost, and a halt that is `entangled` need
not go on.  In `ClientLifecycle` connecting and the websocket handshake time out, and the TLS
handshake, which has no limit in the code, is without fairness.

## Proofs

`TopicSubscriptionProofs` proves, for any channels, configurations, grace period and bound:

* `TypeCorrect`, from `InitTyped` and `StepTyped`;
* `HostsAgree` (`[]Mirrored`).  `Mirrored` says of the sequence `inFlight` (the message in
  the thread's hands, the queue, the link) that it leads from the remote host's
  subscribers to the local belief.  It is not inductive alone: `IInv` adds types and
  `Position`, what the position of the manager thread says about its message and flag.  The lemmas
  `LeadsAppend`, `LeadsTail` and `LeadsOther` say how a queue keeps leading when an
  announcement is added or worked off, and the step lemmas apply them to the actions;
* `PermanentKept` (`[]PermanentStays`), from `IInv`;
* `GraceKept`, an action property, from the invariant `AwayYounger`: the age of
  `subscriberGoneAwayTimePoint` is never more than the time since a poll saw a subscription.

`ServiceBridgeProofs` proves, for any clients, calls, callback group and stops:

* `TypeCorrect`;
* `ClientsIsolated` (`[]Isolation`), from `AnswersFiled`: in messages, too, an answer
  travels under the gid of the call it answers;
* `HandlesAccounted` (`[]ServerHandlesAccounted`), inductive with `Isolation`: the handle
  that is erased by key has the gid of the queue's head, so that a handle which stays is
  another one and keeps its place in the queue;
* `ThreadsRegistered` (`[]RunningIsRegistered`).  The invariant `IInv` adds
  `RequestsOnce` (a request is sent once and its thread starts when it is handled),
  `AcceptingAlone` (a request without map entry is the only one running with its gid),
  `RemovalsExact` (a handle is queued for removal once, after its thread, and until
  then it is the one that has its gid) and `HandlesFiled`.  This is why the removal by key,
  which is wrong at the ServiceServer, is right at the ServiceClient.
* `CallsMeetTheirOwn` (`[]MeetsItsCall`), from `Order` (with one callback at a time there is
  one call in progress), `CancelsFirst` (every cancellation under way was sent before the
  request of that call, whose thread, when a handle exists, has started, so that the
  cancellation meets another handle) and `AnswersAwaited`: as long as no call of a client has
  timed out, at most one answer for it is under way, and it is that of the call that awaits
  it, which nobody is going to answer again.  A timeout ends this for its client, for good.

`ServerLifecycleProofs` proves, for any number of connections and managers:

* `TypeCorrect`;
* `StopsAreExclusive` (`[]StoppedOnce`): as long as neither thread changes the list while
  the other is between two steps on it (`~raced`), a connection is stopped by one of them,
  once. The exclusion is conditional because the code has no lock; `ListIsNotShared`, which
  states that the condition always holds, is violated.  `Membership` is `Progress`, which
  holds whatever happens to the list (nobody has anything to do with a socket that has not
  been accepted; what is being stopped has its io_context stopped; a race needs a halt),
  and, unless `raced`, `Exclusive`: a connection that is listed, or accepted and about to be
  listed, is alive and nobody stops it, one that was found stays listed until it is erased,
  and two stops are of different connections.  The erasure is what hands a connection to one
  of the two threads;
* `ManagersAreAuthorised` (`[]StartedIsAuthorised`), from `Authorised`;
* `NoneIsForgotten` (`[]NoZombie`), from `Watched`: the thread of a listed connection waits
  for a read, and once authorised can write, or has asked for the stop;
* `CloseIsFinal` (`[]ClosedIsQuiet`), from `Quietening`: the managers that a stop has passed
  stay ended, because a stopped io_context begins no authorisation; it cannot end one that
  has begun, which is the exception `overlap` (and why `ClosedLeavesNothing` does not hold).

The last three hold after a race for the list, too.

`ClientLifecycleProofs` proves:

* `TypeCorrect`;
* `NoneIsLeftBehind` (`[]NothingLeftBehind`).  Two threads stop one client, and either may
  find the list empty while the other is at work or the connection has not been added yet.
  `IInv` says where each thread can be (`Places`, `Resumes`), what there is before the
  connection is started (`Before`), and, the core, `Owned`: from its start until it is
  closed the connection is in the list, is about to be added, or exactly one of the two
  threads is stopping it, as long as they have not raced for the list.  `NoLateStart` and
  `Progress` say what each step of a stop has achieved for the steps behind it.

`ActionBridgeProofs` proves, for any goals, callback groups, stops and cancel requests:

* `TypeCorrect`;
* `OutcomesAreFaithful` (`[]Faithful`).  A result or grant passes through two maps, two
  queues of messages and two queues of threads on its way to the local client.  `IInv` follows
  each of them: `Stages` (the request of a goal exists once: not yet sent, under way, in the
  hands of its thread, or the real action's), `Results` (a result that is under way or queued
  is the real goal's), `Grants` (an acceptance of a cancellation, wherever it is, is the real
  action's), `Workers`, and `Reasons` (what is left anywhere of a cancellation has a reason: a
  cancel request, the stop of the client, or that the server gave the goal up);
* `GoalsAreServed` (`[]ExecutingIsServed`).  `JInv` adds to `IInv` that the callbacks of a
  goal take turns (`Turns`; this is where one callback at a time is needed), that an accepted
  goal was answered by the real action (`Heard`), that nobody has queued the handle of a goal
  that is awaited (`Kept`), and that a result which exists is under way or stored (`Debts`).

`DataPathProofs` proves, for any topics and number of messages:

* `TypeCorrect` and `WriterIsAlone` (`[]OneWriter`), which are inductive only together: that
  the handler of a write leaves a queue of messages rests on the queue not being empty;
* `PathIsLossyFifo` (`Implements`): the initial states are initial states of `LossyFifo`, and
  every step is one of its steps or a stutter.  `PathInv` adds to the two invariants that each
  queue belongs to its channel (`SortedOut`, `SortedIn`), that a message is accepted once and,
  by a `SharedSubscriber`, after those with smaller numbers (`Numbered`), and that a stopped
  host has closed its stream.  There is a lemma per action: a thread that hands a message on
  moves it over the seam of two neighbouring queues (a stutter), and a stop, a failed write, a
  closed stream or an unsubscription drops one contiguous piece (`LossStep`).  The mapping
  selects one channel's numbers from queues (`IdsOf`).  That this selection distributes over
  concatenation is shown by induction over the length, with the statement as a set of numbers
  that contains 0 and with each n also n + 1 (`NatSetInduction`, `QueueInduction`);
* `NothingTwice`, a consequence of the refinement: no message is published twice, and none
  overtakes another of a topic whose subscriber has no `useOwnThread`, whatever stops, closes
  or breaks.

`HostsProofs` proves, for any parameters of two hosts:

* `ConfigurationsAreSound` (`[]AcceptedIsSound`): of any parameters that start-up accepts, each
  channel is one topic in one direction or one plug-in, although it compares `int64_t` and
  stores `uint8_t`.  `OneEntryPerChannel`, `Origin`, `TopicsSound` and `PluginsSound` go from
  the loops over lists to the sets they fill; `AcceptedInv` carries the result through the
  behaviour;
* `ReadAsWritten`: for any data, compressor and outcome of the compression, what
  `fromFlatBuffer` and `decompress` make of a subscriber's frame is the message it was
  given.  `FourBytes` is the size in the header, `PlainFrame` and `BlockFrame` the two kinds;
* `CallReadAsWritten`: the same of a message about a call, with its channel, op-code and gid;
* `HostsInvariant` (`[]HostsInv`), the inductive invariant of the rest.  What is on the way
  must be right wherever it is, so there is a statement for each place: of frames (`Frames`,
  where the two codec theorems are used), of decoded messages and callbacks (`Topics`), of what
  has been published (`Deliveries`), of calls and their counterparts (`CallsOk`, `RemoteOk`).
  `Carried` says of a message how it came to be carried so often: by a subscriber to a name its
  own host publishes (`SentBack`), which for a topic of the flags is an entry under another
  text, as no host has both flags (`Standard`, `ConfigFacts`).  All of them stay true by
  `Growth`: configurations stay, histories grow, and a call keeps its plug-in.  `Quiet` and
  `Started` are why: nothing is under way before both hosts are up, and a host that is up
  keeps its configuration;
* `HostsTyped` (`[]TypeOK`), `NothingAlteredOrMisdirected` (`[]Faithful`) and
  `LoopsNeedBothDirections` (`[]LoopNeedsBoth`), from `HostsInv`;
* `StarvedOnlyByOverlap` (`[]StarvationNeedsOverlap`), by counting: the calls that hold a
  thread belong to callback groups of the host (`GroupKnown`), of which there are fewer than
  threads (`FewerGroupsThanThreads`), so that when all threads are held, two calls share one.

`ClockTimerProofs` proves, for any number of announcements:

* `TypeCorrect`;
* `SentAtItsPace` (`[]Paced`) and `KeepsBeingSent` (`[]NeverSilent`).  The invariant bounds
  the chains of waits and handlers by where the manager and the clock's thread are: between
  announcements there is one, until a start meets a handler or a stop a restart.

The proofs use the named assumptions on the constants only.  Those of `MessageCodec` and
`Hosts` say that the compressors' limits fit the four bytes of a size
(`messageBase.hpp:13-15`), that parameter lists are sequences, that a message may be
carried once, and that the predefined topics' absolute names are not changed by the middleware.

**Model-checked and not proved** are the liveness properties, as fairness and ENABLED are out
of the prover's reach: `Follows`, `TimedOutIsReleased`, `EveryCallReturns`, `GoalsEnd`,
`EveryCallbackReturns`, `StopsEnd`, `Arrives`, `Completes`, `ApplicationEnds` and `Quiet` (of
`ClockTimer`).  Every other property of a passing run is a theorem.

## Abstractions

* Undefined behaviour (an iterator or reference to an erased map entry) is a flag and the
  behaviour goes on with what was there; nothing is claimed about what follows it.
* `!rclcpp::ok()` in the waits occurs only while the process is being stopped and is
  covered by `stopping`.
* The wait of `executeRemove` on `toRemoveCV` and its join are one guard; that `stop` can
  miss it because it notifies without the mutex is modelled step by step where the same
  pattern occurs in `ServiceClient::executeHandle` (`TestWait`, `Park`).
* In `ActionBridge`, `handle` at the ActionClient inserts under `handlesMutex`; that
  `stop` does not take that mutex is the hazard at `serviceClient.hpp:62`, modelled in
  `ServiceBridge`.  A second goal with a known UUID does not occur.
* In the two life cycles a handler that waits for nothing is one step.  A race for the list is
  undefined behaviour: the flag `raced` and arbitrary results of later searches and erasures
  stand for it.  Which mutex an interrupted callback holds, and which thread waits for it, is
  one flag, `entangled`; what the managers stop and join inside `onStopThread` is one step that
  may miss a notification and one that waits.  The contents of the close are left out.
* In `ClientLifecycle` the three managers are one thread (`ServerLifecycle` has the three).
  A signal while the `Client` is being created or while `halt` runs is undefined behaviour and
  left out, as is a second Ctrl-C.  `MultiThreadedExecutor` is external: that `spin` sets the
  flag `cancel` clears is taken from rclcpp.
* In `DataPath` a stop is one step at each host, `send` always posts (only the
  authentication sends from the strand itself), and compression is left out.
* In `Hosts` the connection stays up, every subscriber exists, the queues are FIFO, and
  callbacks of topics keep no thread.  The answer of a call is the first one, and messages
  about calls that the other host cannot read do not occur, as no peer of the program
  writes them; `fromMessage` has the test.
* Field offsets and lengths of a frame are the order and number of cells; the compressors
  are libraries, of which the models know the family, the limit and that they may fail.
* In the bridges, serialisation, compression and sizes appear as the choice of an error.
* Plugins, rclcpp, rclcpp_action and Boost are external: they appear as the code uses
  them.

## What is left

What a continuation would take up first: theorems that join modules, as `NothingTwice` and
`ReadAsWritten` together say what a node receives; sharper lemmas for the exceptions that
the invariants make (after `overlap`, `lost` and `entangled` in the life cycles, what still
holds); and the hazards of `PROJECT.json` that no property covers, as far as they are
defined behaviour.

## Not modelled

* **Frames that no peer writes.** The reading side's behaviour on truncated frames, unknown
  compressors or op-codes is in `fromFlatBuffer` and `fromMessage` as far as it is defined.
* **Stop of the plug-in maps** (`ServiceActionManager::onStopThread`): it runs beside `run`
  without a lock, so that what follows is undefined; the stop of each plug-in is modelled
  in its bridge.
* **Status publisher**: a timer that reads the list of connections without a lock, which is
  undefined behaviour and nothing else.
* **A lost notification at the stop of a `ThreadedPublisher`**: its wait has a time limit.
* **Loading of plug-ins, the authentication plug-in interface, TLS, HTTP upgrade and the
  compressors**: external; they appear as an outcome.
* **Logger, launch files, spelling of parameters**: nothing a model checker could find
  that a unit test would not.

`PROJECT.json` lists every component with its status.

## Running

    tlc -workers 2 -config TopicSubscription_announce.cfg MCTopicSubscription.tla
    tlc -workers 2 -config ServiceBridge_overlap.cfg MCServiceBridge.tla
    tlc -workers 2 -config ServiceBridge_sequential.cfg MCServiceBridge.tla
    tlc -workers 2 -config ServiceBridge_stop.cfg MCServiceBridge.tla
    tlc -workers 2 -config ActionBridge_sequential.cfg ActionBridge.tla
    tlc -workers 2 -config ActionBridge_stop.cfg ActionBridge.tla
    tlc -workers 2 -config ServerLifecycle_ends.cfg ServerLifecycle.tla
    tlc -workers 2 -config ClientLifecycle_ends.cfg ClientLifecycle.tla
    tlc -workers 2 -config DataPath_fifo.cfg DataPath.tla
    tlc -workers 2 -config Hosts_pairs.cfg MCHosts.tla
    tlc -workers 2 -config Hosts_sequential.cfg MCHosts.tla
    tlc -workers 2 -config ClockTimer_races.cfg ClockTimer.tla
    for m in TopicSubscription ServiceBridge ActionBridge ServerLifecycle \
             ClientLifecycle DataPath Hosts ClockTimer; do tlapm ${m}Proofs.tla; done
