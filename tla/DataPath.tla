------------------------------ MODULE DataPath ------------------------------
(***************************************************************************)
(* The way of topic messages from the subscribers of one host to the       *)
(* publishers of the other.                                                *)
(*                                                                         *)
(* The sending host: rclcpp calls the callback of a subscriber on a thread *)
(* of its executor.  A SharedSubscriber sends the message at once, a       *)
(* ThreadedSubscriber queues it for its own thread to send.                *)
(* ConnectionBase::send posts it to the strand of the connection, which    *)
(* queues it and writes one message at a time.                             *)
(*                                                                         *)
(* The receiving host: the read handler queues the message for the         *)
(* PublisherManager, whose thread gives it to the publisher of its         *)
(* channel; a SharedPublisher publishes at once, a ThreadedPublisher       *)
(* queues it for its own thread to publish.                                *)
(*                                                                         *)
(* One behaviour of the module is the life of one connection.              *)
(***************************************************************************)
EXTENDS Naturals, Sequences

CONSTANTS
  Channels,
  OwnSubscriber,  \* the channels whose subscriber has useOwnThread
  OwnPublisher,   \* the channels whose publisher has it: the hosts choose independently
  Known,          \* the channels the receiving host has a publisher for
  MaxMessages     \* bound on the messages of the topics, numbered as they arrive

ASSUME ChannelAssumption ==
  /\ OwnSubscriber \subseteq Channels /\ OwnPublisher \subseteq Channels
  /\ Known \subseteq Channels
  /\ MaxMessages \in Nat

VARIABLES
  arrived,      \* how many messages rclcpp has taken
  callbacks,    \* messages whose callback has begun
  accepted,     \* history: the messages a subscriber has taken over
  subscribed,   \* the channels that have a subscriber
  cut,          \* history: the channels whose subscriber has been destroyed
  toSend,       \* ThreadedSubscriber::toSend
  sending,      \* the message in ThreadedSubscriber::run, <<>> or <<m>>
  posted,       \* queueMessage calls posted to the strand
  sendingQueue, \* ConnectionBase::sendingQueue
  writing,      \* the async_write: "no", "begun" or "done" (handler not yet run)
  streamOpen,   \* ws.is_open() of the sending host
  senderUp,     \* the sending host has not stopped the connection
  wire,         \* what is under way between the hosts
  receiverUp,   \* the receiving host has not stopped the connection
  toPublish,    \* PublisherManager::toPublish
  routing,      \* the message in PublisherManager::run, <<>> or <<m>>
  queue,        \* ThreadedPublisher::toPublish
  publishing,   \* the message in ThreadedPublisher::run, <<>> or <<m>>
  published     \* what has been published, in order

callbackVars == <<arrived, callbacks, accepted>>
subscriberVars == <<subscribed, cut, toSend, sending>>
writerVars == <<posted, sendingQueue, writing, streamOpen, senderUp>>
managerVars == <<toPublish, routing>>
publisherVars == <<queue, publishing, published>>
receiverVars == <<receiverUp, managerVars, publisherVars>>
vars == <<callbackVars, subscriberVars, writerVars, wire, receiverVars>>

Ids == 1 .. MaxMessages
Message == [channel : Channels, id : Ids]
Msg(c, i) == [channel |-> c, id |-> i]

----------------------------------------------------------------------------
(* The sending host: subscribers.                                          *)

\* rclcpp takes a message and begins the callback.  The callback group of threaded
\* subscribers is reentrant, that of shared ones mutually exclusive.
BeginCallback(c) ==
  /\ c \in subscribed /\ senderUp
  /\ arrived < MaxMessages
  /\ c \notin OwnSubscriber => \A m \in callbacks : m.channel \in OwnSubscriber
  /\ arrived' = arrived + 1
  /\ callbacks' = callbacks \cup {Msg(c, arrived')}
  /\ UNCHANGED <<accepted, subscriberVars, writerVars, wire, receiverVars>>

\* ThreadedSubscriber::callback
QueueToSend(m) ==
  /\ m \in callbacks /\ m.channel \in OwnSubscriber /\ senderUp
  /\ callbacks' = callbacks \ {m}
  /\ accepted' = [accepted EXCEPT ![m.channel] = @ \cup {m.id}]
  /\ toSend' = [toSend EXCEPT ![m.channel] = Append(@, m)]
  /\ UNCHANGED <<arrived, subscribed, cut, sending, writerVars, wire, receiverVars>>

\* ConnectionBase::send from another thread than the strand's
Post(m) == posted' = Append(posted, m)

\* SharedSubscriber::callback
SendShared(m) ==
  /\ m \in callbacks /\ m.channel \notin OwnSubscriber /\ senderUp
  /\ callbacks' = callbacks \ {m}
  /\ accepted' = [accepted EXCEPT ![m.channel] = @ \cup {m.id}]
  /\ Post(m)
  /\ UNCHANGED <<arrived, subscriberVars, sendingQueue, writing, streamOpen, senderUp>>
  /\ UNCHANGED <<wire, receiverVars>>

\* ThreadedSubscriber::run takes a message ...
TakeToSend(c) ==
  /\ senderUp /\ sending[c] = <<>> /\ toSend[c] # <<>>
  /\ sending' = [sending EXCEPT ![c] = <<Head(toSend[c])>>]
  /\ toSend' = [toSend EXCEPT ![c] = Tail(@)]
  /\ UNCHANGED <<subscribed, cut, callbackVars, writerVars, wire, receiverVars>>

\* ... and sends it.
SendThreaded(c) ==
  /\ senderUp /\ sending[c] # <<>>
  /\ Post(Head(sending[c]))
  /\ sending' = [sending EXCEPT ![c] = <<>>]
  /\ UNCHANGED <<subscribed, cut, toSend, callbackVars>>
  /\ UNCHANGED <<sendingQueue, writing, streamOpen, senderUp, wire, receiverVars>>

Subscribe(c) ==
  /\ c \notin subscribed
  /\ subscribed' = subscribed \cup {c}
  /\ UNCHANGED <<cut, toSend, sending, callbackVars, writerVars, wire, receiverVars>>

\* The subscriber is destroyed with its queue, after its thread has been joined.  A
\* callback that has begun keeps the object, but not its queue, in use.
Unsubscribe(c) ==
  /\ c \in subscribed
  /\ subscribed' = subscribed \ {c}
  /\ cut' = cut \cup {c}
  /\ toSend' = [toSend EXCEPT ![c] = <<>>]
  /\ sending' = [sending EXCEPT ![c] = <<>>]
  /\ callbacks' = {m \in callbacks : m.channel = c => c \notin OwnSubscriber}
  /\ UNCHANGED <<arrived, accepted, writerVars, wire, receiverVars>>

----------------------------------------------------------------------------
(* The sending host: the strand.                                           *)

\* asyncWrite, when sendingQueue has become q: a closed stream empties it.
asyncWrite(q) ==
  IF streamOpen
  THEN sendingQueue' = q /\ writing' = "begun"
  ELSE sendingQueue' = <<>> /\ writing' = "no"

\* (mutant) a write is begun for every message.
queueMessageEager ==
  /\ senderUp /\ posted # <<>>
  /\ posted' = Tail(posted)
  /\ asyncWrite(Append(sendingQueue, Head(posted)))
  /\ UNCHANGED <<callbackVars, subscriberVars, streamOpen, senderUp, wire, receiverVars>>

queueMessage ==
  /\ senderUp /\ posted # <<>>
  /\ posted' = Tail(posted)
  /\ LET q == Append(sendingQueue, Head(posted))
     IN IF Len(q) = 1 THEN asyncWrite(q)
                      ELSE sendingQueue' = q /\ UNCHANGED writing
  /\ UNCHANGED <<callbackVars, subscriberVars, streamOpen, senderUp, wire, receiverVars>>

\* The message is on its way; the handler of the write has yet to run.
Transmit ==
  /\ writing = "begun" /\ streamOpen
  /\ wire' = Append(wire, Head(sendingQueue))
  /\ writing' = "done"
  /\ UNCHANGED <<callbackVars, subscriberVars, posted, sendingQueue, streamOpen, senderUp>>
  /\ UNCHANGED receiverVars

\* (mutant) the handler does not begin the next write.
WrittenStalls ==
  /\ senderUp /\ writing = "done"
  /\ sendingQueue' = Tail(sendingQueue)
  /\ writing' = "no"
  /\ UNCHANGED <<callbackVars, subscriberVars, posted, streamOpen, senderUp, wire, receiverVars>>

\* The handler of a write that succeeded.
Written ==
  /\ senderUp /\ writing = "done"
  /\ IF Tail(sendingQueue) = <<>>
     THEN sendingQueue' = <<>> /\ writing' = "no"
     ELSE asyncWrite(Tail(sendingQueue))
  /\ UNCHANGED <<callbackVars, subscriberVars, posted, streamOpen, senderUp, wire, receiverVars>>

\* The handler of a write that failed; the connection is going to be stopped.
WriteFailed ==
  /\ senderUp /\ writing = "begun"
  /\ sendingQueue' = Tail(sendingQueue)
  /\ writing' = "no"
  /\ streamOpen' = FALSE
  /\ UNCHANGED <<callbackVars, subscriberVars, posted, senderUp, wire, receiverVars>>

\* The stream is closed by the peer, or breaks.
StreamCloses ==
  /\ streamOpen
  /\ streamOpen' = FALSE
  /\ UNCHANGED <<callbackVars, subscriberVars, posted, sendingQueue, writing, senderUp>>
  /\ UNCHANGED <<wire, receiverVars>>

StopSender ==
  /\ senderUp
  /\ senderUp' = FALSE
  /\ streamOpen' = FALSE
  /\ UNCHANGED <<callbackVars, subscriberVars, posted, sendingQueue, writing, wire, receiverVars>>

----------------------------------------------------------------------------
(* The receiving host.                                                     *)

\* The read handler: PublisherManager::publish
publish ==
  /\ receiverUp /\ wire # <<>>
  /\ wire' = Tail(wire)
  /\ toPublish' = Append(toPublish, Head(wire))
  /\ UNCHANGED <<callbackVars, subscriberVars, writerVars, receiverUp, routing, publisherVars>>

\* (mutant) the next message is taken before the last has been routed.
TakeToRouteAgain ==
  /\ receiverUp /\ toPublish # <<>>
  /\ routing' = Append(routing, Head(toPublish))
  /\ toPublish' = Tail(toPublish)
  /\ UNCHANGED <<callbackVars, subscriberVars, writerVars, wire, receiverUp, publisherVars>>

\* PublisherManager::run takes a message ...
TakeToRoute ==
  /\ receiverUp /\ routing = <<>> /\ toPublish # <<>>
  /\ routing' = <<Head(toPublish)>>
  /\ toPublish' = Tail(toPublish)
  /\ UNCHANGED <<callbackVars, subscriberVars, writerVars, wire, receiverUp, publisherVars>>

\* ... for a ThreadedPublisher,
RouteThreaded(c) ==
  /\ receiverUp /\ routing # <<>> /\ Head(routing).channel = c
  /\ c \in Known \cap OwnPublisher
  /\ routing' = <<>>
  /\ queue' = [queue EXCEPT ![c] = Append(@, Head(routing))]
  /\ UNCHANGED <<callbackVars, subscriberVars, writerVars, wire, receiverUp, toPublish>>
  /\ UNCHANGED <<publishing, published>>

\* ... for a SharedPublisher,
RouteShared(c) ==
  /\ receiverUp /\ routing # <<>> /\ Head(routing).channel = c
  /\ c \in Known \ OwnPublisher
  /\ routing' = <<>>
  /\ published' = [published EXCEPT ![c] = Append(@, Head(routing).id)]
  /\ UNCHANGED <<callbackVars, subscriberVars, writerVars, wire, receiverUp, toPublish>>
  /\ UNCHANGED <<queue, publishing>>

\* ... or for nobody.
RouteUnknown ==
  /\ receiverUp /\ routing # <<>> /\ Head(routing).channel \notin Known
  /\ routing' = <<>>
  /\ UNCHANGED <<callbackVars, subscriberVars, writerVars, wire, receiverUp, toPublish>>
  /\ UNCHANGED publisherVars

\* (mutant) only the newest message of the queue is kept.
TakeToPublishNewest(c) ==
  /\ receiverUp /\ publishing[c] = <<>> /\ queue[c] # <<>>
  /\ publishing' = [publishing EXCEPT ![c] = <<queue[c][Len(queue[c])]>>]
  /\ queue' = [queue EXCEPT ![c] = <<>>]
  /\ UNCHANGED <<callbackVars, subscriberVars, writerVars, wire, receiverUp, managerVars>>
  /\ UNCHANGED published

\* ThreadedPublisher::run takes a message ...
TakeToPublish(c) ==
  /\ receiverUp /\ publishing[c] = <<>> /\ queue[c] # <<>>
  /\ publishing' = [publishing EXCEPT ![c] = <<Head(queue[c])>>]
  /\ queue' = [queue EXCEPT ![c] = Tail(@)]
  /\ UNCHANGED <<callbackVars, subscriberVars, writerVars, wire, receiverUp, managerVars>>
  /\ UNCHANGED published

\* ... and publishes it.
rosPublish(c) ==
  /\ receiverUp /\ publishing[c] # <<>>
  /\ published' = [published EXCEPT ![c] = Append(@, Head(publishing[c]).id)]
  /\ publishing' = [publishing EXCEPT ![c] = <<>>]
  /\ UNCHANGED <<callbackVars, subscriberVars, writerVars, wire, receiverUp, managerVars>>
  /\ UNCHANGED queue

StopReceiver ==
  /\ receiverUp
  /\ receiverUp' = FALSE
  /\ UNCHANGED <<callbackVars, subscriberVars, writerVars, wire, managerVars, publisherVars>>

----------------------------------------------------------------------------
Init ==
  /\ arrived = 0
  /\ callbacks = {}
  /\ accepted = [c \in Channels |-> {}]
  /\ subscribed = {}
  /\ cut = {}
  /\ toSend = [c \in Channels |-> <<>>]
  /\ sending = [c \in Channels |-> <<>>]
  /\ posted = <<>> /\ sendingQueue = <<>> /\ writing = "no"
  /\ streamOpen = TRUE /\ senderUp = TRUE
  /\ wire = <<>>
  /\ receiverUp = TRUE
  /\ toPublish = <<>> /\ routing = <<>>
  /\ queue = [c \in Channels |-> <<>>]
  /\ publishing = [c \in Channels |-> <<>>]
  /\ published = [c \in Channels |-> <<>>]

Sender ==
  \/ \E c \in Channels : TakeToSend(c) \/ SendThreaded(c)
  \/ \E m \in Message : QueueToSend(m) \/ SendShared(m)

Strand == queueMessage \/ Transmit \/ Written

Receiver ==
  \/ publish \/ TakeToRoute \/ RouteUnknown
  \/ \E c \in Channels : RouteThreaded(c) \/ RouteShared(c) \/ TakeToPublish(c) \/ rosPublish(c)

Next ==
  \/ Sender \/ Strand \/ Receiver
  \/ \E c \in Channels : BeginCallback(c) \/ Subscribe(c) \/ Unsubscribe(c)
  \/ WriteFailed \/ StreamCloses \/ StopSender \/ StopReceiver

Spec == Init /\ [][Next]_vars

\* Threads that have something to do do it, and an open stream transmits.
Fairness ==
  /\ \A m \in Message : WF_vars(QueueToSend(m)) /\ WF_vars(SendShared(m))
  /\ \A c \in Channels :
       /\ WF_vars(TakeToSend(c)) /\ WF_vars(SendThreaded(c))
       /\ WF_vars(TakeToPublish(c)) /\ WF_vars(rosPublish(c))
  /\ WF_vars(queueMessage) /\ WF_vars(Transmit \/ WriteFailed) /\ WF_vars(Written)
  /\ WF_vars(publish) /\ WF_vars(TakeToRoute)
  /\ WF_vars(RouteUnknown \/ \E c \in Channels : RouteThreaded(c) \/ RouteShared(c))

FairSpec == Spec /\ Fairness

----------------------------------------------------------------------------
(* Properties.                                                             *)

\* The types of the variables; a thread works on one message at a time.
AtMostOne == {<<>>} \cup {<<m>> : m \in Message}

TypeOK ==
  /\ arrived \in 0 .. MaxMessages
  /\ callbacks \subseteq Message
  /\ accepted \in [Channels -> SUBSET Ids]
  /\ subscribed \subseteq Channels /\ cut \subseteq Channels
  /\ toSend \in [Channels -> Seq(Message)] /\ sending \in [Channels -> AtMostOne]
  /\ posted \in Seq(Message) /\ sendingQueue \in Seq(Message)
  /\ writing \in {"no", "begun", "done"}
  /\ streamOpen \in BOOLEAN /\ senderUp \in BOOLEAN /\ receiverUp \in BOOLEAN
  /\ wire \in Seq(Message)
  /\ toPublish \in Seq(Message) /\ routing \in AtMostOne
  /\ queue \in [Channels -> Seq(Message)] /\ publishing \in [Channels -> AtMostOne]
  /\ published \in [Channels -> Seq(Ids)]

\* The writer neither stalls nor doubles: on an open stream a message waits in
\* sendingQueue exactly while a write is under way, so a write never begins beside
\* another, its handler never pops an empty queue, and a message that finds the queue
\* not empty (connectionBase.cpp:36-38) can rely on the handler to be written.
OneWriter ==
  /\ writing # "no" => sendingQueue # <<>>
  /\ streamOpen /\ sendingQueue # <<>> => writing # "no"

\* Whatever is on its way on a channel, first published first; what a host that has
\* stopped still holds is lost.
Untransmitted == IF writing = "done" THEN Tail(sendingQueue) ELSE sendingQueue

Path(c) ==
  (IF receiverUp THEN publishing[c] \o queue[c] \o routing \o toPublish \o wire ELSE <<>>)
  \o (IF senderUp THEN Untransmitted \o posted \o sending[c] \o toSend[c] ELSE <<>>)

\* The ids of the messages of a channel among those of a queue.
IdsOf(q, c) ==
  LET ids[k \in 0 .. Len(q)] ==
        IF k = 0 THEN <<>>
        ELSE IF q[k].channel = c THEN Append(ids[k - 1], q[k].id) ELSE ids[k - 1]
  IN ids[Len(q)]

PathIds(c) == IdsOf(Path(c), c)

Fifo(c) == INSTANCE LossyFifo WITH
  Ordered <- c \notin OwnSubscriber,
  accepted <- accepted[c],
  pending <- PathIds(c),
  delivered <- published[c]

\* Six queues, four threads and two strands make one queue: nothing is duplicated or
\* overtakes another message of its topic, and where the subscriber has no useOwnThread they
\* keep the order in which they arrived from ROS, whatever the publisher has.
Implements ==
  /\ \A c \in Channels : Fifo(c)!Init
  /\ [][\A c \in Channels : [Fifo(c)!Next]_(Fifo(c)!vars)]_vars

\* A message whose callback has begun is published on the other host, if that has a
\* publisher for it, the subscriber stays and the connection too: no thread misses the
\* notification of a message, none waits for another.
Arrives ==
  \A c \in Known : \A i \in Ids :
    Msg(c, i) \in callbacks ~>
      \/ \E k \in DOMAIN published[c] : published[c][k] = i
      \/ c \in cut \/ ~streamOpen \/ ~receiverUp
=============================================================================
