-------------------------------- MODULE Hosts -------------------------------
(***************************************************************************)
(* Two hosts, each with the parameters it was started with, and what       *)
(* becomes of topic messages and of calls between them: the configuration  *)
(* a host accepts (ConnectBase), the frames (MessageCodec), the routing by *)
(* channel and op-code (WebsocketConnectionBase::processMessage,           *)
(* PublisherManager::run, ServiceActionManager::run), and the executor     *)
(* whose threads run the callbacks of subscribers and the calls that wait. *)
(*                                                                         *)
(* A message of a topic may be published again on the host it came from:   *)
(* "hops" counts how often the bridge has carried it.  The queues are the  *)
(* FIFO that DataPath shows them to be; the connection stays up, every     *)
(* subscriber exists.  A call is a service call or the goal request of an  *)
(* action, both of which keep a thread until they are answered or time     *)
(* out; what else happens to them is the subject of the two bridges.       *)
(***************************************************************************)
EXTENDS MessageCodec

CONSTANTS
  Candidates,     \* records: the parameters the two hosts may be started with ("param"),
                  \* and bounds on the messages and calls of the nodes around them
  MaxMessages,    \* the largest of these bounds
  MaxCalls,
  MaxHops,        \* bound on how often a message is carried
  FullName(_, _)  \* the name of a topic on a host's graph: rclcpp puts the namespace of the
                  \* node before a relative name

ASSUME BoundAssumption ==
  /\ MaxMessages \in Nat /\ MaxHops \in Nat \ {0} /\ MaxCalls \in Nat
  /\ \A c \in Candidates : c.messages \in 0 .. MaxMessages /\ c.calls \in 0 .. MaxCalls

Host == {"server", "client"}
ASSUME NameAssumption == \A h \in Host, topic \in PredefinedTopics : FullName(h, topic) = topic
Peer(h) == IF h = "server" THEN "client" ELSE "server"

\* What ConnectBase goes through in the order of the launch file.
Lists(p) == {p.subscriber, p.publisher, p.serviceServer, p.serviceClient, p.actionServer,
             p.actionClient}
ASSUME ParameterAssumption ==
  \A c \in Candidates : \A h \in Host : \A list \in Lists(c.param[h]) :
    Len(list) \in Nat /\ DOMAIN list = 1 .. Len(list)
Ids == 1 .. MaxMessages
Calls == 1 .. MaxCalls
Kind == {"service", "action"}

VARIABLES
  given,        \* one of the candidates
  config,       \* GlobalConfig of each host, and the number of its threads
  state,        \* "down", "up", or "refused" after a failed start
  published,    \* how many messages nodes have published
  ready,        \* subscriptions' callbacks the executor has to run
  sent,         \* history: what subscribers have sent
  delivered,    \* history: what publishers have published
  wire,         \* frames to each host
  toPublish,    \* PublisherManager::toPublish
  threaded,     \* ThreadedPublisher::toPublish, of all threaded publishers
  toHandle,     \* ServiceActionManager::toHandle
  call,         \* the calls: where they were made and how far they are
  remote        \* what the other host does for each call

topicVars == <<published, ready, sent, delivered, toPublish, threaded>>
callVars == <<toHandle, call, remote>>
vars == <<given, config, state, wire, topicVars, callVars>>

Unasked == [stage |-> "none", at |-> "server", kind |-> "service", channel |-> 0]
Idle == [stage |-> "none", kind |-> "service", channel |-> 0]

NoConfig ==
  [threads |-> 0, subscriber |-> {}, publisher |-> {}, subscribeClock |-> FALSE,
   server |-> [kind \in Kind |-> {}], client |-> [kind \in Kind |-> {}]]

Init ==
  /\ given \in Candidates
  /\ config = [h \in Host |-> NoConfig]
  /\ state = [h \in Host |-> "down"]
  /\ published = 0 /\ ready = {} /\ sent = {} /\ delivered = {}
  /\ wire = [h \in Host |-> <<>>]
  /\ toPublish = [h \in Host |-> <<>>] /\ threaded = [h \in Host |-> <<>>]
  /\ toHandle = [h \in Host |-> <<>>]
  /\ call = [i \in Calls |-> Unasked] /\ remote = [i \in Calls |-> Idle]

----------------------------------------------------------------------------
(* Start and executor.                                                     *)

\* The server has one more thread, for its status timer.
NumberOfThreads(h) ==
  evalNrOfMultiThreadedExecutorThreads(given.param[h]) + (IF h = "server" THEN 1 ELSE 0)

\* GlobalConfig, filled by initializeParameters
GlobalConfig(p, threads) ==
  [threads |-> threads, subscriber |-> Subscribers(p), publisher |-> Publishers(p),
   subscribeClock |-> p.subscribeClock,
   server |-> [kind \in Kind |-> Plugins(p, IF kind = "service" THEN p.serviceServer ELSE p.actionServer)],
   client |-> [kind \in Kind |-> Plugins(p, IF kind = "service" THEN p.serviceClient ELSE p.actionClient)]]

\* main: without a valid number of threads, or with parameters that are refused, it ends.
Start(h) ==
  /\ state[h] = "down"
  /\ IF NumberOfThreads(h) >= 1 /\ initializeParameters(given.param[h], h = "server")
     THEN /\ state' = [state EXCEPT ![h] = "up"]
          /\ config' = [config EXCEPT ![h] = GlobalConfig(given.param[h], NumberOfThreads(h))]
     ELSE state' = [state EXCEPT ![h] = "refused"] /\ UNCHANGED config
  /\ UNCHANGED <<given, wire, topicVars, callVars>>

Connected == \A h \in Host : state[h] = "up"

\* A call that waits, or has not yet returned, keeps its thread.
Holding(h) == {i \in Calls : call[i].at = h /\ call[i].stage \in {"blocked", "answered"}}
ThreadFree(h) == Cardinality(Holding(h)) < config[h].threads

----------------------------------------------------------------------------
(* Topics.                                                                 *)

\* What a node publishes as message n: sizes differ.
Payload(n) == [k \in 1 .. n |-> n]

Hop(h, channel, n, hops) == [at |-> h, channel |-> channel, id |-> n, hops |-> hops]
Under(hop, m) == [hop |-> hop, message |-> m]

\* The topics of a host's subscribers, or of its publishers, as its graph knows them.
NamesOf(h, topics) == {FullName(h, t.topic) : t \in topics}

CallbacksOf(h, name, data, n, hops) ==
  {Under(Hop(h, s.channel, n, hops), fromSerializedMessage(s.channel, data)) :
     s \in {s \in config[h].subscriber : FullName(h, s.topic) = name}}

\* A node of the ROS graph of h publishes a message.
NodePublishes(h, name) ==
  /\ Connected /\ published < given.messages
  /\ published' = published + 1
  /\ ready' = ready \cup CallbacksOf(h, name, Payload(published'), published', 0)
  /\ UNCHANGED <<given, config, state, wire, sent, delivered, toPublish, threaded, callVars>>

Frame(bytes, hop) == [bytes |-> bytes, hop |-> hop]
SendFrame(h, frame) == wire' = [wire EXCEPT ![Peer(h)] = Append(@, frame)]

\* SharedSubscriber::callback, or ThreadedSubscriber::callback and ::run: the second
\* compresses if the profile says so.
SubscriberCallback(h, s, c, works) ==
  /\ c.hop.at = h /\ c.hop.channel = s.channel /\ ThreadFree(h)
  /\ ready' = ready \ {c}
  /\ sent' = sent \cup {c.hop}
  /\ SendFrame(h, Frame(IF s.useOwnThread
                        THEN getCompressedCombinedVector(c.message, s.compressor, works)
                        ELSE getCombinedVector(c.message), c.hop))
  /\ UNCHANGED <<given, config, state, published, delivered, toPublish, threaded, callVars>>

\* ClockSubscriber::handler: the clock of the host, from a thread of its own.
ClockTick(h) ==
  /\ Connected /\ config[h].subscribeClock /\ published < given.messages
  /\ published' = published + 1
  /\ LET hop == Hop(h, CLOCK, published', 0)
     IN /\ sent' = sent \cup {hop}
        /\ SendFrame(h, Frame(getCombinedVector(fromSerializedMessage(CLOCK, Payload(published'))), hop))
  /\ UNCHANGED <<given, config, state, ready, delivered, toPublish, threaded, callVars>>

\* The read handler: what is read goes to the manager its channel stands for.  None of
\* these frames is a notification or a subscription, which other modules treat.
processMessage(h) ==
  /\ wire[h] # <<>>
  /\ wire' = [wire EXCEPT ![h] = Tail(@)]
  /\ LET frame == Head(wire[h])
         m == fromFlatBuffer(frame.bytes)
     IN \/ /\ m.channel = SERVICE_ACTION
           /\ toHandle' = [toHandle EXCEPT ![h] = Append(@, m)]
           /\ UNCHANGED toPublish
        \/ /\ m.channel \notin {NOTIFICATION, SUBSCRIPTION, SERVICE_ACTION}
           /\ toPublish' = [toPublish EXCEPT ![h] = Append(@, Under(frame.hop, m))]
           /\ UNCHANGED toHandle
  /\ UNCHANGED <<given, config, state, published, ready, sent, delivered, threaded, call, remote>>

\* PublisherBase::rosPublish.  No middleware honours ignore_local_publications, so the
\* host's own subscriptions to the topic receive the message as well.
rosPublish(h, p, hop, m) ==
  LET hops == hop.hops + 1
  IN /\ delivered' = delivered \cup
          {[at |-> h, topic |-> p.topic, channel |-> p.channel, id |-> hop.id,
            hops |-> hops, data |-> m.data]}
     /\ ready' = IF hops < MaxHops
                 THEN ready \cup CallbacksOf(h, FullName(h, p.topic), m.data, hop.id, hops) ELSE ready

\* PublisherManager::run gives the message to the publisher of its channel, or drops it.
RunPublisherManager(h) ==
  /\ toPublish[h] # <<>>
  /\ toPublish' = [toPublish EXCEPT ![h] = Tail(@)]
  /\ LET x == Head(toPublish[h])
         known == {p \in config[h].publisher : p.channel = x.message.channel}
     IN \/ /\ known = {}
           /\ UNCHANGED <<threaded, delivered, ready>>
        \/ \E p \in known :
             \/ /\ p.useOwnThread
                /\ threaded' = [threaded EXCEPT ![h] = Append(@, x)]
                /\ UNCHANGED <<delivered, ready>>
             \/ /\ ~p.useOwnThread /\ isCompressed(x.message)
                /\ UNCHANGED <<threaded, delivered, ready>>
             \/ /\ ~p.useOwnThread /\ ~isCompressed(x.message)
                /\ rosPublish(h, p, x.hop, x.message)
                /\ UNCHANGED threaded
  /\ UNCHANGED <<given, config, state, wire, published, sent, callVars>>

\* ThreadedPublisher::run, each publisher with its own thread and queue: the k-th message
\* is the first of its publisher.
RunThreadedPublisher(h, k) ==
  /\ \A j \in 1 .. k - 1 : threaded[h][j].message.channel # threaded[h][k].message.channel
  /\ threaded' = [threaded EXCEPT ![h] =
       [j \in 1 .. Len(@) - 1 |-> IF j < k THEN @[j] ELSE @[j + 1]]]
  /\ LET x == threaded[h][k]
     IN IF Readable(x.message) = {} THEN UNCHANGED <<delivered, ready>>
        ELSE \E p \in config[h].publisher, m \in Readable(x.message) :
               p.channel = x.message.channel /\ rosPublish(h, p, x.hop, m)
  /\ UNCHANGED <<given, config, state, wire, published, sent, toPublish, callVars>>

----------------------------------------------------------------------------
(* Calls.                                                                  *)

\* ServiceActionManager::init: the callback group of a plug-in, and its type.
GroupOf(kind, s) == IF s.useOwnThread THEN <<kind, s.channel>> ELSE <<kind>>
MutuallyExclusive(s) == s.useOwnThread /\ s.allowSimultaneous

ServerOf(i) ==
  CHOOSE s \in config[call[i].at].server[call[i].kind] : s.channel = call[i].channel
GroupOfCall(i) == GroupOf(call[i].kind, ServerOf(i))

RequestOp(kind) == IF kind = "service" THEN SERVICE_TO_CLIENT ELSE ACTION_TO_CLIENT_GOAL
CancelOp(kind) == IF kind = "service" THEN SERVICE_TO_CLIENT_CANCEL ELSE ACTION_TO_CLIENT_CANCEL
AnswerOp(kind) == IF kind = "service" THEN SERVICE_TO_SERVER ELSE ACTION_TO_SERVER_GOAL_ACCEPT

\* Service::send, Action::send
Send(h, plugin, op, i, data, works) ==
  SendFrame(h, Frame(serviceActionCompressedVector(
    forServiceAction(plugin.channel, op, data, <<i>>), plugin.compressor, works),
    Hop(h, SERVICE_ACTION, 0, 0)))

\* A node calls the service, or sends a goal, on the host's graph.
NodeCalls(i, h, kind, s) ==
  /\ Connected /\ i =< given.calls
  /\ call[i].stage = "none" /\ \A j \in 1 .. i - 1 : call[j].stage # "none"
  /\ call' = [call EXCEPT ![i] = [stage |-> "ready", at |-> h, kind |-> kind, channel |-> s.channel]]
  /\ UNCHANGED <<given, config, state, wire, topicVars, toHandle, remote>>

SamePlugin(i, j) ==
  call[i].at = call[j].at /\ call[i].kind = call[j].kind /\ call[i].channel = call[j].channel
FirstOf(i, stage) == \A j \in 1 .. i - 1 : SamePlugin(i, j) => call[j].stage # stage

\* (mutant) the executor starts a thread for the call.
ExecuteUnbounded(i, works) ==
  /\ call[i].stage = "ready" /\ FirstOf(i, "ready")
  /\ call' = [call EXCEPT ![i].stage = "blocked"]
  /\ Send(call[i].at, ServerOf(i), RequestOp(call[i].kind), i, <<i>>, works)
  /\ UNCHANGED <<given, config, state, topicVars, toHandle, remote>>

\* ServiceServer::sendAndWait, ActionServer::handleGoal on a thread of the executor, which
\* takes the requests of a plug-in in the order they came.
Execute(i, works) ==
  /\ call[i].stage = "ready" /\ FirstOf(i, "ready") /\ ThreadFree(call[i].at)
  /\ MutuallyExclusive(ServerOf(i)) =>
       \A j \in Holding(call[i].at) : GroupOfCall(j) # GroupOfCall(i)
  /\ call' = [call EXCEPT ![i].stage = "blocked"]
  /\ Send(call[i].at, ServerOf(i), RequestOp(call[i].kind), i, <<i>>, works)
  /\ UNCHANGED <<given, config, state, topicVars, toHandle, remote>>

\* maxExecTime of a service, 10 s of a goal: no answer came.  The limit is the same for the
\* calls of a plug-in, so that the one that began first is the first to reach it.
Timeout(i) ==
  /\ call[i].stage = "blocked" /\ FirstOf(i, "blocked")
  /\ call' = [call EXCEPT ![i].stage = "done"]
  /\ Send(call[i].at, ServerOf(i), CancelOp(call[i].kind), i, <<>>, FALSE)
  /\ UNCHANGED <<given, config, state, topicVars, toHandle, remote>>

Return(i) ==
  /\ call[i].stage = "answered"
  /\ call' = [call EXCEPT ![i].stage = "done"]
  /\ UNCHANGED <<given, config, state, wire, topicVars, toHandle, remote>>

\* ServiceActionManager::run: which map the op-code stands for.
ClientKind(op) ==
  IF op \in {SERVICE_TO_CLIENT, SERVICE_TO_CLIENT_CANCEL} THEN "service" ELSE "action"
ServerKind(op) == IF op = SERVICE_TO_SERVER THEN "service" ELSE "action"
ToClient == {SERVICE_TO_CLIENT, SERVICE_TO_CLIENT_CANCEL, ACTION_TO_CLIENT_GOAL, ACTION_TO_CLIENT_CANCEL}
ToClientCancel == {SERVICE_TO_CLIENT_CANCEL, ACTION_TO_CLIENT_CANCEL}

\* A client's plug-in starts a thread for a request, and ends the thread of a cancelled one.
HandleAtClient(h, m, i) ==
  IF ~\E c \in config[h].client[ClientKind(m.opCode)] : c.channel = m.serviceActionChannel
  THEN UNCHANGED remote
  ELSE IF m.opCode \in ToClientCancel
  THEN remote' = [remote EXCEPT ![i].stage = IF @ = "none" THEN "none" ELSE "done"]
  ELSE remote' = [remote EXCEPT ![i] =
         [stage |-> IF Readable(m) = {} THEN "done" ELSE "asking", kind |-> ClientKind(m.opCode),
          channel |-> m.serviceActionChannel]]

\* A server's plug-in wakes the call that waits under the gid of the answer.
HandleAtServer(h, m, i) ==
  IF /\ \E s \in config[h].server[ServerKind(m.opCode)] : s.channel = m.serviceActionChannel
     /\ call[i].at = h /\ call[i].stage = "blocked"
     /\ call[i].kind = ServerKind(m.opCode) /\ call[i].channel = m.serviceActionChannel
  THEN call' = [call EXCEPT ![i].stage = "answered"]
  ELSE UNCHANGED call

RunServiceActionManager(h) ==
  /\ toHandle[h] # <<>>
  /\ toHandle' = [toHandle EXCEPT ![h] = Tail(@)]
  /\ LET read == fromMessage(Head(toHandle[h]))
     IN IF read = {} THEN UNCHANGED <<call, remote>>
        ELSE \E m \in read :
               \/ /\ m.opCode \in ToClient
                  /\ HandleAtClient(h, m, m.gid[1])
                  /\ UNCHANGED call
               \/ /\ m.opCode \notin ToClient
                  /\ HandleAtServer(h, m, m.gid[1])
                  /\ UNCHANGED remote
  /\ UNCHANGED <<given, config, state, wire, topicVars>>

\* The real service, or action server, answers; a thread of the executor takes the answer.
RealAnswers(i) ==
  /\ remote[i].stage = "asking"
  /\ remote' = [remote EXCEPT ![i].stage = "reply"]
  /\ UNCHANGED <<given, config, state, wire, topicVars, toHandle, call>>

AnswerCallback(i, h, c, works) ==
  /\ remote[i].stage = "reply" /\ h = Peer(call[i].at) /\ c.channel = remote[i].channel
  /\ ThreadFree(h)
  /\ remote' = [remote EXCEPT ![i].stage = "done"]
  /\ Send(h, c, AnswerOp(remote[i].kind), i, <<i>>, works)
  /\ UNCHANGED <<given, config, state, topicVars, toHandle, call>>
----------------------------------------------------------------------------
(* The whole.                                                              *)

\* A compressor of a library may fail.
Outcomes(compressor) == IF compressor = NONE THEN {TRUE} ELSE BOOLEAN

RunExecutor(h) ==
  \/ \E s \in config[h].subscriber, c \in ready : \E works \in Outcomes(s.compressor) :
       SubscriberCallback(h, s, c, works)
  \/ \E i \in Calls : call[i].at = h /\ Return(i)
  \/ \E i \in Calls : /\ call[i].at = h /\ call[i].stage = "ready"
                     /\ \E works \in Outcomes(ServerOf(i).compressor) : Execute(i, works)
  \/ \E i \in Calls : \E c \in config[h].client[remote[i].kind] :
       \E works \in Outcomes(c.compressor) : AnswerCallback(i, h, c, works)

RunManagers(h) == RunPublisherManager(h) \/ RunServiceActionManager(h)

Nodes(h) ==
  \/ \E name \in NamesOf(h, config[h].subscriber \cup config[h].publisher) : NodePublishes(h, name)
  \/ ClockTick(h)
  \/ \E i \in Calls, kind \in Kind : \E s \in config[h].server[kind] : NodeCalls(i, h, kind, s)

\* The bounded instance is done.
Done ==
  /\ \A h \in Host : state[h] # "down" /\ wire[h] = <<>> /\ toPublish[h] = <<>>
                     /\ threaded[h] = <<>> /\ toHandle[h] = <<>>
  /\ ready = {}
  /\ \A i \in Calls : call[i].stage \in {"none", "done"} /\ remote[i].stage \in {"none", "done"}
  /\ UNCHANGED vars

Next ==
  \/ \E h \in Host : Start(h) \/ Nodes(h) \/ RunExecutor(h) \/ processMessage(h) \/ RunManagers(h)
  \/ \E h \in Host : \E k \in DOMAIN threaded[h] : RunThreadedPublisher(h, k)
  \/ \E i \in Calls : Timeout(i) \/ RealAnswers(i)
  \/ Done

\* Each thread goes on: the main threads, the executors, the strands, the managers, the
\* publishers.  A wait has its time limit.  Nothing is asked of the nodes.
Fairness ==
  /\ \A h \in Host : WF_vars(Start(h)) /\ WF_vars(RunExecutor(h)) /\ WF_vars(processMessage(h))
  /\ \A h \in Host : WF_vars(RunPublisherManager(h)) /\ WF_vars(RunServiceActionManager(h))
  /\ \A h \in Host : WF_vars(\E k \in DOMAIN threaded[h] : RunThreadedPublisher(h, k))
  /\ \A i \in Calls : WF_vars(Timeout(i))

Spec == Init /\ [][Next]_vars /\ Fairness

----------------------------------------------------------------------------
(* Properties.                                                             *)

\* Everything has its type, and no more calls hold a thread than the executor has.
TypeOK ==
  /\ given \in Candidates
  /\ state \in [Host -> {"down", "up", "refused"}]
  /\ published \in 0 .. MaxMessages
  /\ \A h \in Host : Cardinality(Holding(h)) \in 0 .. config[h].threads
  /\ \A d \in delivered : d.at \in Host /\ d.id \in Ids /\ d.hops \in 1 .. MaxHops
  /\ \A i \in Calls : call[i].stage \in {"none", "ready", "blocked", "answered", "done"}
  /\ \A i \in Calls : remote[i].stage \in {"none", "asking", "reply", "done"}

Up(h) == state[h] = "up"

\* What a host has accepted is unambiguous: a channel stands for one topic, in one
\* direction, or for one plug-in of services and one of actions; the channels with a
\* meaning of their own belong to the predefined topics only, which have them if they are
\* written as the code writes them; and what is compressed has a thread of its own
\* (ConnectBase).
AcceptedIsSound ==
  \A h \in Host : Up(h) =>
    LET subs == config[h].subscriber
        pubs == config[h].publisher
    IN /\ \A s, t \in subs : s.channel = t.channel => s = t
       /\ \A s, t \in pubs : s.channel = t.channel => s = t
       /\ \A s \in subs, t \in pubs : s.channel # t.channel
       /\ \A t \in subs \cup pubs : t.channel \in Reserved <=> t.topic \in PredefinedTopics
       /\ \A s \in subs : s.compressor # NONE => s.useOwnThread
       /\ \A kind \in Kind :
            LET plugins == config[h].server[kind] \cup config[h].client[kind]
            IN \A c, d \in plugins : c.channel = d.channel => c = d

\* What a publisher publishes is what a node published on a topic of the other host whose
\* subscriber has the publisher's channel, byte for byte, or what a host's clock said.
Intact ==
  \A d \in delivered :
    /\ d.data = Payload(d.id)
    /\ \E p \in config[d.at].publisher : p.channel = d.channel /\ p.topic = d.topic
    /\ Hop(Peer(d.at), d.channel, d.id, d.hops - 1) \in sent
    /\ \/ \E s \in config[Peer(d.at)].subscriber : s.channel = d.channel
       \/ d.channel = CLOCK /\ config[Peer(d.at)].subscribeClock

CallMeetsCounterpart ==
  \A i \in Calls : remote[i].stage # "none" =>
    /\ remote[i].kind = call[i].kind /\ remote[i].channel = call[i].channel
    /\ \E c \in config[Peer(call[i].at)].client[call[i].kind] : c.channel = call[i].channel

\* Nothing is altered and nothing is misdirected: a publisher's message is the one that was
\* published on the topic of its channel, byte for byte, and a request is handled by the
\* client plug-in of the same kind and channel as the server plug-in that sent it, on the
\* other host (MessageCodec, PublisherManager::run, ServiceActionManager::run).
Faithful == Intact /\ CallMeetsCounterpart

BothDirections(h) == NamesOf(h, config[h].subscriber) \cap NamesOf(h, config[h].publisher)

\* The publishers of a topic that are not those of the flags.
Ordinary(h, name) ==
  {p \in config[h].publisher : p.channel \notin Reserved /\ FullName(h, p.topic) = name}

\* A message circulates only in the configuration the README warns of, whatever the topics
\* are called: it is carried three times only if each host subscribes to a topic it also
\* publishes; and what the flags of tf and clock carry has come back only if the host it
\* came from has an entry of its own that publishes the topic, under a name connectBase.hpp
\* does not look for (ConnectBase, PublisherBase::rosPublish).
LoopNeedsBoth ==
  \A d \in delivered :
    /\ d.hops >= 3 => \A h \in Host : BothDirections(h) # {}
    /\ d.topic \in PredefinedTopics /\ d.hops >= 2 => Ordinary(Peer(d.at), d.topic) # {}

\* README: "the parameters tf/subscribe, tf/publish, clock/subscribe, and clock/publish
\* explicitly prevent this situation", a loop: no message of tf or of the clock is carried
\* round to where it was, and on again.  The code refuses other entries for the names
\* "/tf", "/tf_static" and "/clock" only (connectBase.hpp:396-401), not for "tf".
FlagsPreventLoops ==
  \A d \in delivered : FullName(d.at, d.topic) \in PredefinedTopics => d.hops < 3

\* Will the publisher of the other host take what this subscriber sends?
Taken(hop) ==
  \E p \in config[Peer(hop.at)].publisher :
    /\ p.channel = hop.channel
    /\ p.useOwnThread \/ \A s \in config[hop.at].subscriber : s.channel = hop.channel => s.compressor = NONE

Missing ==
  {hop \in sent : Taken(hop) /\
     ~\E d \in delivered : d.at = Peer(hop.at) /\ d.channel = hop.channel
                          /\ d.id = hop.id /\ d.hops = hop.hops + 1}

\* Every message a subscriber sends, and every callback the executor has to run, is
\* published on the other host in the end, unless that host has no publisher for the
\* channel, or a shared one that gets compressed messages (PublisherManager::run).
Arrives == <>[](ready = {} /\ Missing = {})

\* The threads of the executor are enough for one waiting call in every callback group:
\* all of them wait only if one group holds two calls, which is what allowSimultaneous and
\* the shared groups permit (ConnectBase::evalNrOfMultiThreadedExecutorThreads).
StarvationNeedsOverlap ==
  \A h \in Host : Up(h) /\ ~ThreadFree(h) =>
    \E i, j \in Holding(h) : i # j /\ GroupOfCall(i) = GroupOfCall(j)

\* Every call returns, even when all threads of both hosts wait for each other: each wait
\* has its time limit (ServiceServer::sendAndWait, ActionServer::handleGoal).
EveryCallReturns == \A i \in Calls : call[i].stage = "ready" ~> call[i].stage = "done"

\* What has begun is completed: messages arrive and calls return.
Completes == Arrives /\ EveryCallReturns

\* README: "If false, calls / goals to the service or action are processed sequentially."
\* ServiceActionManager::init gives such a plug-in a reentrant group.
SequentialUnlessAllowed ==
  \A h \in Host : \A i, j \in Holding(h) :
    (i # j /\ call[i].kind = call[j].kind /\ call[i].channel = call[j].channel)
      => ServerOf(i).allowSimultaneous
=============================================================================
