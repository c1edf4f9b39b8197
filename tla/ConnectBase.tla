----------------------------- MODULE ConnectBase ----------------------------
(***************************************************************************)
(* What ConnectBase makes of the parameters of a host before anything runs *)
(* (ConnectBase::initializeParameters) and how many threads it asks the    *)
(* executor for (ConnectBase::evalNrOfMultiThreadedExecutorThreads).       *)
(*                                                                         *)
(* A set of parameters is a record.  Its lists of JSON texts (qos,         *)
(* compression, subscriber, ...) are sequences of entries; an entry has a  *)
(* "form": "complete", "incomplete" when a member is missing, of the wrong *)
(* type or the name of no policy, "broken" when the text is no object or   *)
(* has no boolean useOwnThread.  "creatable" says whether the middleware   *)
(* or the plug-in loader can make the test instance the code makes of it.  *)
(*                                                                         *)
(* Numbers arrive as int64_t and are narrowed where the code narrows them. *)
(***************************************************************************)
EXTENDS Integers, Sequences, FiniteSets

CONSTANT MaxUint32    \* the largest uint32_t; TLC's integers are too narrow for it

ASSUME WidthAssumption == MaxUint32 \in Nat /\ MaxUint32 >= 65537

Byte == 0 .. 255
ToByte(n) == n % 256        \* int64_t to uint8_t
ToUint16(n) == n % 65536    \* int64_t to uint16_t

\* OpCode: channels with a meaning of their own
NOTIFICATION == 249
SUBSCRIPTION == 250
SERVICE_ACTION == 251
TF == 252
TF_STATIC == 253
CLOCK == 254
AUTHENTICATION == 255
Reserved == NOTIFICATION .. AUTHENTICATION

\* Compressor
NONE == 0
LZ4_DEFAULT == 1
LZ4_HC == 2
ZLIB == 3
Compressor == NONE .. ZLIB

\* Topics that have flags of their own.  The code knows them as these texts: it compares
\* what is configured, not what rclcpp makes of it ("tf" is another text).
PredefinedTopics == {"/tf", "/tf_static", "/clock"}

\* declare_parameter: what holds when the launch file says nothing
DefaultParameters ==
  [ssl |-> FALSE, authenticationPlugin |-> "", authenticationOmit |-> FALSE,
   authenticationTimeout |-> 10, pluginLoads |-> FALSE, fragmentationSize |-> 4096,
   subscribeClock |-> FALSE, publishClock |-> FALSE, subscribeTf |-> FALSE, publishTf |-> FALSE,
   subscriber |-> <<>>, publisher |-> <<>>, serviceServer |-> <<>>, serviceClient |-> <<>>,
   actionServer |-> <<>>, actionClient |-> <<>>, qos |-> <<>>, compression |-> <<>>]

Entries(list) == {list[i] : i \in DOMAIN list}
Before(list, i) == {list[j] : j \in 1 .. i - 1}

----------------------------------------------------------------------------
(* Quality of service and compression.                                     *)

\* depth is compared as a size_t: of the int64_t values only 0 is smaller than 1.
QosOk(list) ==
  \A i \in DOMAIN list : LET q == list[i] IN
    /\ q.form = "complete" /\ q.depth # 0
    /\ q.id \in Byte /\ \A e \in Before(list, i) : e.id # q.id

RateOk(compressor, rate) ==
  /\ compressor = LZ4_DEFAULT => rate \in 1 .. 65537
  /\ compressor = LZ4_HC => rate \in 1 .. 12
  /\ compressor = ZLIB => rate \in 1 .. 9
  /\ rate \in 0 .. MaxUint32

CompressionOk(list) ==
  \A i \in DOMAIN list : LET c == list[i] IN
    /\ c.form = "complete" /\ RateOk(c.compressor, c.rate)
    /\ c.id \in Byte /\ \A e \in Before(list, i) : e.id # c.id

\* std::map<uint8_t, ...>::find: the int64_t asked for is narrowed to the key's type.
Known(list, id) == \E d \in Entries(list) : d.id = ToByte(id)
CompressorOf(list, id) == (CHOOSE d \in Entries(list) : d.id = ToByte(id)).compressor

----------------------------------------------------------------------------
(* Subscribers and publishers.                                             *)

SubscriberOk(p, i) == LET s == p.subscriber[i] IN
  /\ s.form = "complete"
  /\ s.topic \notin PredefinedTopics
  /\ Known(p.qos, s.qos) /\ Known(p.compression, s.compression)
  /\ CompressorOf(p.compression, s.compression) # NONE => s.useOwnThread
  /\ s.channel \in Byte \ Reserved
  /\ \A e \in Before(p.subscriber, i) : e.channel # s.channel
  /\ s.creatable

\* (mutant) the channels of subscribers are not looked at.
PublisherOkAlone(p, i) == LET s == p.publisher[i] IN
  /\ s.form = "complete"
  /\ s.topic \notin PredefinedTopics
  /\ Known(p.qos, s.qos)
  /\ s.channel \in Byte \ Reserved
  /\ \A e \in Before(p.publisher, i) : e.channel # s.channel
  /\ s.creatable

PublisherOk(p, i) == LET s == p.publisher[i] IN
  /\ s.form = "complete"
  /\ s.topic \notin PredefinedTopics
  /\ Known(p.qos, s.qos)
  /\ s.channel \in Byte \ Reserved
  /\ \A e \in Before(p.publisher, i) : e.channel # s.channel
  /\ \A e \in Entries(p.subscriber) : e.channel # s.channel
  /\ s.creatable

Topic(channel, topic, useOwnThread, compressor) ==
  [channel |-> channel, topic |-> topic, useOwnThread |-> useOwnThread,
   compressor |-> compressor]

PredefinedSubscribers(p) ==
  IF p.subscribeTf THEN {Topic(TF, "/tf", TRUE, NONE), Topic(TF_STATIC, "/tf_static", TRUE, NONE)}
                   ELSE {}
PredefinedPublishers(p) ==
  (IF p.publishClock THEN {Topic(CLOCK, "/clock", TRUE, NONE)} ELSE {}) \cup
  (IF p.publishTf THEN {Topic(TF, "/tf", TRUE, NONE), Topic(TF_STATIC, "/tf_static", TRUE, NONE)}
                  ELSE {})

\* GlobalConfig::subscriber and GlobalConfig::publisher
Subscribers(p) ==
  {Topic(ToByte(s.channel), s.topic, s.useOwnThread, CompressorOf(p.compression, s.compression)) :
     s \in Entries(p.subscriber)} \cup PredefinedSubscribers(p)
Publishers(p) ==
  {Topic(ToByte(s.channel), s.topic, s.useOwnThread, NONE) : s \in Entries(p.publisher)}
    \cup PredefinedPublishers(p)

----------------------------------------------------------------------------
(* Service and action servers and clients.  "qos" holds the one profile of *)
(* a service or the three of an action; the range of an action server's    *)
(* resultTimeout is that of TLC's integers.                                *)

CallOk(p, list, i) == LET c == list[i] IN
  /\ c.form = "complete"
  /\ c.allowSimultaneous => c.useOwnThread
  /\ \A k \in DOMAIN c.qos : Known(p.qos, c.qos[k])
  /\ Known(p.compression, c.compression)
  /\ CompressorOf(p.compression, c.compression) # NONE => c.useOwnThread
  /\ c.channel \in Byte
  /\ \A e \in Before(list, i) : e.channel # c.channel
  /\ c.creatable

DisjointFrom(list, c) == \A e \in Entries(list) : e.channel # c.channel

ServiceServerOk(p, i) ==
  CallOk(p, p.serviceServer, i) /\ p.serviceServer[i].maxExecTime \in 0 .. MaxUint32
ServiceClientOk(p, i) ==
  CallOk(p, p.serviceClient, i) /\ DisjointFrom(p.serviceServer, p.serviceClient[i])
ActionServerOk(p, i) ==
  CallOk(p, p.actionServer, i)
ActionClientOk(p, i) ==
  CallOk(p, p.actionClient, i) /\ DisjointFrom(p.actionServer, p.actionClient[i])

\* Service_Action_t: an element of GlobalConfig::serviceServer, serviceClient, ...
Plugin(p, c) ==
  [channel |-> ToByte(c.channel), type |-> c.type, useOwnThread |-> c.useOwnThread,
   allowSimultaneous |-> c.allowSimultaneous, maxExecTime |-> c.maxExecTime,
   compressor |-> CompressorOf(p.compression, c.compression)]
Plugins(p, list) == {Plugin(p, c) : c \in Entries(list)}

----------------------------------------------------------------------------
(* The whole.                                                              *)

\* The timeout is kept as a uint16_t, fragmentation/size as a size_t: a negative size
\* is a large one.
FragmentationOk(p) == p.fragmentationSize >= 8 \/ p.fragmentationSize < 0
AuthenticationOk(p) ==
  /\ ToUint16(p.authenticationTimeout) > 0
  /\ p.authenticationPlugin # "" => p.pluginLoads
  /\ ~p.authenticationOmit => p.authenticationPlugin # ""

\* (mutant) only the flags of the clock are compared.
FlagsOkClock(p) == ~(p.publishClock /\ p.subscribeClock)

FlagsOk(p) == ~(p.publishTf /\ p.subscribeTf) /\ ~(p.publishClock /\ p.subscribeClock)

initializeParameters(p, authentication) ==
  /\ QosOk(p.qos) /\ CompressionOk(p.compression)
  /\ \A i \in DOMAIN p.subscriber : SubscriberOk(p, i)
  /\ \A i \in DOMAIN p.publisher : PublisherOk(p, i)
  /\ \A i \in DOMAIN p.serviceServer : ServiceServerOk(p, i)
  /\ \A i \in DOMAIN p.serviceClient : ServiceClientOk(p, i)
  /\ \A i \in DOMAIN p.actionServer : ActionServerOk(p, i)
  /\ \A i \in DOMAIN p.actionClient : ActionClientOk(p, i)
  /\ FlagsOk(p)
  /\ FragmentationOk(p)
  /\ authentication => AuthenticationOk(p)

OwnThreads(list) == Cardinality({i \in DOMAIN list : list[i].useOwnThread})
Broken(list) == \E e \in Entries(list) : e.form = "broken"
One(flag) == IF flag THEN 1 ELSE 0

\* Entries that have a "useOwnThread" to count.
Threadable(p) == {p.subscriber, p.serviceServer, p.serviceClient, p.actionServer, p.actionClient}
Additional(p) ==
  OwnThreads(p.subscriber) + OwnThreads(p.serviceServer) + OwnThreads(p.serviceClient)
    + OwnThreads(p.actionServer) + OwnThreads(p.actionClient)
    + One(p.publishClock) + One(p.publishTf) + One(p.subscribeTf)

\* (mutant) the shared groups of services and of actions are not counted.
evalNrWithoutCalls(p) ==
  IF \E list \in Threadable(p) : Broken(list) THEN -1 ELSE 2 + Additional(p)

evalNrOfMultiThreadedExecutorThreads(p) ==
  IF \E list \in Threadable(p) : Broken(list) THEN -1 ELSE 4 + Additional(p)
=============================================================================
