----------------------------- MODULE HostsProofs -----------------------------
(***************************************************************************)
(* TLAPS proofs about Hosts, for any parameters of the two hosts and any   *)
(* number of messages and calls: that the configuration a host runs with   *)
(* is sound, which needs every check of ConnectBase::initializeParameters  *)
(* that relates two entries; that a frame is read as it was written; and,  *)
(* from an inductive invariant about everything that is on its way between *)
(* the hosts, every safety property of Hosts that TLC checks.              *)
(***************************************************************************)
EXTENDS Hosts, FiniteSetTheorems, SequenceTheorems, TLAPS

----------------------------------------------------------------------------
(* What initializeParameters accepts.                                      *)

\* A channel that is a byte is not changed by the narrowing (ConnectBase: the cast of an
\* int64_t to uint8_t).
LEMMA ByteKept == \A n \in Byte : ToByte(n) = n
BY DEF Byte, ToByte

\* A list as nlohmann::json and the launch file give it, and its channels.
InOrder(list) == DOMAIN list \subseteq Nat \ {0}

\* No channel occurs twice in a list.
DistinctChannels(list) ==
  \A i \in DOMAIN list : \A e \in Before(list, i) : e.channel # list[i].channel

\* No two entries of an accepted list have the same channel.
LEMMA OneEntryPerChannel ==
  ASSUME NEW list, InOrder(list), DistinctChannels(list),
         NEW s \in Entries(list), NEW t \in Entries(list), s.channel = t.channel
  PROVE  s = t
<1>1. PICK i \in DOMAIN list, j \in DOMAIN list : s = list[i] /\ t = list[j]
  BY DEF Entries
<1>2. i \in Nat \ {0} /\ j \in Nat \ {0}
  BY DEF InOrder
<1>3. CASE i = j
  BY <1>1, <1>3
<1>4. CASE i < j
  <2>1. list[i] \in Before(list, j)
    BY <1>2, <1>4 DEF Before
  <2> QED
    BY <1>1, <2>1 DEF DistinctChannels
<1>5. CASE j < i
  <2>1. list[j] \in Before(list, i)
    BY <1>2, <1>5 DEF Before
  <2> QED
    BY <1>1, <2>1 DEF DistinctChannels
<1> QED
  BY <1>2, <1>3, <1>4, <1>5

\* What is said of a subscriber the launch file lists: its channel is a byte with no
\* meaning of its own, its topic is not predefined, and it is compressed only by a thread
\* of its own.
LEMMA ListedSubscriber ==
  ASSUME NEW p, \A i \in DOMAIN p.subscriber : SubscriberOk(p, i), NEW e \in Entries(p.subscriber)
  PROVE  /\ e.channel \in Byte \ Reserved /\ e.topic \notin PredefinedTopics
         /\ CompressorOf(p.compression, e.compression) # NONE => e.useOwnThread
BY DEF Entries, SubscriberOk

\* And of a publisher: no subscriber has its channel.
LEMMA ListedPublisher ==
  ASSUME NEW p, \A i \in DOMAIN p.publisher : PublisherOk(p, i), NEW e \in Entries(p.publisher)
  PROVE  /\ e.channel \in Byte \ Reserved /\ e.topic \notin PredefinedTopics
         /\ \A d \in Entries(p.subscriber) : d.channel # e.channel
BY DEF Entries, PublisherOk

\* A predefined topic on the channel that is its own.
Standard(t) == \/ t.channel = TF /\ t.topic = "/tf"
               \/ t.channel = TF_STATIC /\ t.topic = "/tf_static"
               \/ t.channel = CLOCK /\ t.topic = "/clock"

\* Two of them with one channel have one topic.
LEMMA StandardTopic ==
  ASSUME NEW s, NEW t, Standard(s), Standard(t), s.channel = t.channel
  PROVE  s.topic = t.topic
BY DEF Standard, TF, TF_STATIC, CLOCK

\* Predefined topics use the channels that are theirs, and no host has one of them in both
\* directions (ConnectBase: publishTf, subscribeTf, publishClock, subscribeClock).
LEMMA Predefined ==
  ASSUME NEW p, FlagsOk(p)
  PROVE  /\ \A s, t \in PredefinedSubscribers(p) : s.channel = t.channel => s = t
         /\ \A s, t \in PredefinedPublishers(p) : s.channel = t.channel => s = t
         /\ \A s \in PredefinedSubscribers(p), t \in PredefinedPublishers(p) :
              s.channel # t.channel /\ s.topic # t.topic
         /\ \A t \in PredefinedSubscribers(p) \cup PredefinedPublishers(p) :
              /\ t.channel \in {TF, TF_STATIC, CLOCK} /\ t.channel \in Reserved
              /\ t.topic \in PredefinedTopics /\ t.compressor = NONE /\ Standard(t)
<1> DEFINE tf == Topic(TF, "/tf", TRUE, NONE)
           static == Topic(TF_STATIC, "/tf_static", TRUE, NONE)
           clock == Topic(CLOCK, "/clock", TRUE, NONE)
<1>1. \A s \in PredefinedSubscribers(p) : p.subscribeTf /\ s \in {tf, static}
  <2>1. CASE p.subscribeTf
    BY <2>1, Zenon DEF PredefinedSubscribers
  <2>2. CASE ~p.subscribeTf
    BY <2>2, Zenon DEF PredefinedSubscribers
  <2> QED
    BY <2>1, <2>2
<1>2. \A s \in PredefinedPublishers(p) : s = clock \/ (p.publishTf /\ s \in {tf, static})
  <2>1. CASE p.publishTf
    BY <2>1, Zenon DEF PredefinedPublishers
  <2>2. CASE ~p.publishTf
    BY <2>2, Zenon DEF PredefinedPublishers
  <2> QED
    BY <2>1, <2>2
<1>3. /\ tf.channel = 252 /\ static.channel = 253 /\ clock.channel = 254
      /\ tf.topic # clock.topic /\ static.topic # clock.topic
      /\ \A t \in {tf, static, clock} :
           /\ t.channel \in {TF, TF_STATIC, CLOCK} /\ t.channel \in Reserved
           /\ t.topic \in PredefinedTopics /\ t.compressor = NONE /\ Standard(t)
  BY DEF Topic, Standard, TF, TF_STATIC, CLOCK, Reserved, NOTIFICATION, AUTHENTICATION, PredefinedTopics
<1> HIDE DEF tf, static, clock
<1>4. ASSUME NEW s \in PredefinedSubscribers(p), NEW t \in PredefinedPublishers(p)
      PROVE  s.channel # t.channel /\ s.topic # t.topic
  <2>1. CASE t = clock
    BY <1>1, <1>3, <2>1
  <2>2. CASE p.publishTf
    BY <1>1, <2>2, Zenon DEF FlagsOk
  <2> QED
    BY <1>2, <2>1, <2>2
<1>5. \A s, t \in {tf, static, clock} : s.channel = t.channel => s = t
  BY <1>3
<1>6. PredefinedSubscribers(p) \cup PredefinedPublishers(p) \subseteq {tf, static, clock}
  BY <1>1, <1>2
<1> QED
  BY <1>3, <1>4, <1>5, <1>6

\* An element of GlobalConfig::subscriber comes from an entry of the list or is predefined.
Listed(p, s) ==
  \E e \in Entries(p.subscriber) :
    /\ s = Topic(e.channel, e.topic, e.useOwnThread, CompressorOf(p.compression, e.compression))
    /\ e.channel \in Byte \ Reserved /\ e.topic \notin PredefinedTopics
    /\ CompressorOf(p.compression, e.compression) # NONE => e.useOwnThread

\* So does an element of GlobalConfig::publisher.
ListedPub(p, s) ==
  \E e \in Entries(p.publisher) :
    /\ s = Topic(e.channel, e.topic, e.useOwnThread, NONE)
    /\ e.channel \in Byte \ Reserved /\ e.topic \notin PredefinedTopics
    /\ \A d \in Entries(p.subscriber) : d.channel # e.channel

\* Topics of an accepted configuration are listed or predefined.
LEMMA Origin ==
  ASSUME NEW p,
         \A i \in DOMAIN p.subscriber : SubscriberOk(p, i),
         \A i \in DOMAIN p.publisher : PublisherOk(p, i)
  PROVE  /\ \A s \in Subscribers(p) : Listed(p, s) \/ s \in PredefinedSubscribers(p)
         /\ \A s \in Publishers(p) : ListedPub(p, s) \/ s \in PredefinedPublishers(p)
<1>1. ASSUME NEW s \in Subscribers(p), s \notin PredefinedSubscribers(p) PROVE Listed(p, s)
  <2>1. PICK e \in Entries(p.subscriber) :
          s = Topic(ToByte(e.channel), e.topic, e.useOwnThread, CompressorOf(p.compression, e.compression))
    BY <1>1 DEF Subscribers
  <2>2. /\ e.channel \in Byte \ Reserved /\ e.topic \notin PredefinedTopics
        /\ CompressorOf(p.compression, e.compression) # NONE => e.useOwnThread
    BY ListedSubscriber
  <2>3. ToByte(e.channel) = e.channel
    BY <2>2, ByteKept
  <2> QED
    BY <2>1, <2>2, <2>3 DEF Listed
<1>2. ASSUME NEW s \in Publishers(p), s \notin PredefinedPublishers(p) PROVE ListedPub(p, s)
  <2>1. PICK e \in Entries(p.publisher) :
          s = Topic(ToByte(e.channel), e.topic, e.useOwnThread, NONE)
    BY <1>2 DEF Publishers
  <2>2. /\ e.channel \in Byte \ Reserved /\ e.topic \notin PredefinedTopics
        /\ \A d \in Entries(p.subscriber) : d.channel # e.channel
    BY ListedPublisher
  <2>3. ToByte(e.channel) = e.channel
    BY <2>2, ByteKept
  <2> QED
    BY <2>1, <2>2, <2>3 DEF ListedPub
<1> QED
  BY <1>1, <1>2

\* Topics of an accepted configuration: the first parts of AcceptedIsSound.
LEMMA TopicsSound ==
  ASSUME NEW p, InOrder(p.subscriber), InOrder(p.publisher), FlagsOk(p),
         \A i \in DOMAIN p.subscriber : SubscriberOk(p, i),
         \A i \in DOMAIN p.publisher : PublisherOk(p, i)
  PROVE  /\ \A s, t \in Subscribers(p) : s.channel = t.channel => s = t
         /\ \A s, t \in Publishers(p) : s.channel = t.channel => s = t
         /\ \A s \in Subscribers(p), t \in Publishers(p) : s.channel # t.channel
         /\ \A t \in Subscribers(p) \cup Publishers(p) :
              t.channel \in Reserved <=> t.topic \in PredefinedTopics
         /\ \A s \in Subscribers(p) : s.compressor # NONE => s.useOwnThread
<1>1. DistinctChannels(p.subscriber) /\ DistinctChannels(p.publisher)
  BY DEF DistinctChannels, SubscriberOk, PublisherOk
<1>2. \A s, t \in Entries(p.subscriber) : s.channel = t.channel => s = t
  BY <1>1, OneEntryPerChannel
<1>3. \A s, t \in Entries(p.publisher) : s.channel = t.channel => s = t
  BY <1>1, OneEntryPerChannel
<1>4. ASSUME NEW s \in Subscribers(p), NEW t \in Subscribers(p), s.channel = t.channel PROVE s = t
  BY <1>2, <1>4, Origin, Predefined DEF Listed, Topic
<1>5. ASSUME NEW s \in Publishers(p), NEW t \in Publishers(p), s.channel = t.channel PROVE s = t
  BY <1>3, <1>5, Origin, Predefined DEF ListedPub, Topic
<1>6. ASSUME NEW s \in Subscribers(p), NEW t \in Publishers(p) PROVE s.channel # t.channel
  BY Origin, Predefined DEF Listed, ListedPub, Topic
<1>7. ASSUME NEW t \in Subscribers(p) \cup Publishers(p)
      PROVE  t.channel \in Reserved <=> t.topic \in PredefinedTopics
  BY Origin, Predefined DEF Listed, ListedPub, Topic
<1>8. ASSUME NEW s \in Subscribers(p), s.compressor # NONE PROVE s.useOwnThread
  BY <1>8, Origin, Predefined DEF Listed, Topic
<1> QED
  BY <1>4, <1>5, <1>6, <1>7, <1>8

\* Plug-ins of an accepted configuration: the last part of AcceptedIsSound, for the
\* servers and the clients of services, or of actions.
LEMMA PluginsSound ==
  ASSUME NEW p, NEW servers, NEW clients, InOrder(servers), InOrder(clients),
         DistinctChannels(servers), DistinctChannels(clients),
         \A e \in Entries(clients) : DisjointFrom(servers, e),
         \A e \in Entries(servers) \cup Entries(clients) : e.channel \in Byte,
         NEW c \in Plugins(p, servers) \cup Plugins(p, clients),
         NEW d \in Plugins(p, servers) \cup Plugins(p, clients),
         c.channel = d.channel
  PROVE  c = d
<1>1. PICK e \in Entries(servers) \cup Entries(clients) : c = Plugin(p, e)
  BY DEF Plugins
<1>2. PICK f \in Entries(servers) \cup Entries(clients) : d = Plugin(p, f)
  BY DEF Plugins
<1>3. e.channel = f.channel
  <2>1. c.channel = ToByte(e.channel) /\ d.channel = ToByte(f.channel)
    BY <1>1, <1>2 DEF Plugin
  <2> QED
    BY <2>1, ByteKept
<1>4. e = f
  <2>1. CASE e \in Entries(servers) /\ f \in Entries(servers)
    BY <1>3, <2>1, OneEntryPerChannel
  <2>2. CASE e \in Entries(clients) /\ f \in Entries(clients)
    BY <1>3, <2>2, OneEntryPerChannel
  <2>3. CASE e \in Entries(servers) /\ f \in Entries(clients)
    BY <1>3, <2>3 DEF DisjointFrom
  <2>4. CASE e \in Entries(clients) /\ f \in Entries(servers)
    BY <1>3, <2>4 DEF DisjointFrom
  <2> QED
    BY <2>1, <2>2, <2>3, <2>4
<1> QED
  BY <1>1, <1>2, <1>4

\* What each check of initializeParameters says of a list of plug-ins.
LEMMA ListedPlugins ==
  ASSUME NEW p, NEW a, initializeParameters(p, a)
  PROVE  /\ \A list \in {p.serviceServer, p.serviceClient, p.actionServer, p.actionClient} :
              DistinctChannels(list) /\ \A e \in Entries(list) : e.channel \in Byte
         /\ \A e \in Entries(p.serviceClient) : DisjointFrom(p.serviceServer, e)
         /\ \A e \in Entries(p.actionClient) : DisjointFrom(p.actionServer, e)
<1>1. ASSUME NEW list, \A i \in DOMAIN list : CallOk(p, list, i)
      PROVE  DistinctChannels(list) /\ \A e \in Entries(list) : e.channel \in Byte
  BY <1>1 DEF CallOk, DistinctChannels, Entries
<1>2. /\ \A i \in DOMAIN p.serviceServer : CallOk(p, p.serviceServer, i)
      /\ \A i \in DOMAIN p.serviceClient : CallOk(p, p.serviceClient, i)
      /\ \A i \in DOMAIN p.actionServer : CallOk(p, p.actionServer, i)
      /\ \A i \in DOMAIN p.actionClient : CallOk(p, p.actionClient, i)
  BY Zenon DEF initializeParameters, ServiceServerOk, ServiceClientOk, ActionServerOk, ActionClientOk
<1>3. /\ \A i \in DOMAIN p.serviceClient : DisjointFrom(p.serviceServer, p.serviceClient[i])
      /\ \A i \in DOMAIN p.actionClient : DisjointFrom(p.actionServer, p.actionClient[i])
  BY Zenon DEF initializeParameters, ServiceClientOk, ActionClientOk
<1>4. /\ \A e \in Entries(p.serviceClient) : DisjointFrom(p.serviceServer, e)
      /\ \A e \in Entries(p.actionClient) : DisjointFrom(p.actionServer, e)
  BY <1>3 DEF Entries
<1> QED
  BY <1>1, <1>2, <1>4

----------------------------------------------------------------------------
(* Frames.                                                                 *)

\* The numbers a uint32_t holds.
Uint32 == {n \in Nat : n < 256 * 16777216}

\* A uint32_t survives its four bytes.
LEMMA FourBytes ==
  ASSUME NEW n \in Uint32
  PROVE  (n % 256) + 256 * ((n \div 256) % 256) + 65536 * ((n \div 65536) % 256)
           + 16777216 * ((n \div 16777216) % 256) = n
<1>0. n \in Nat /\ n < 256 * 16777216
  BY SMT DEF Uint32
<1>1. PICK p \in Nat, a \in 0 .. 255 : n = 256 * p + a
  <2>1. n \div 256 \in Nat /\ n % 256 \in 0 .. 255 /\ n = 256 * (n \div 256) + (n % 256)
    BY <1>0, SMT
  <2> QED
    BY <2>1
<1>2. PICK q \in Nat, b \in 0 .. 255 : p = 256 * q + b
  <2>1. p \div 256 \in Nat /\ p % 256 \in 0 .. 255 /\ p = 256 * (p \div 256) + (p % 256)
    BY SMT
  <2> QED
    BY <2>1
<1>3. PICK r \in Nat, c \in 0 .. 255 : q = 256 * r + c
  <2>1. q \div 256 \in Nat /\ q % 256 \in 0 .. 255 /\ q = 256 * (q \div 256) + (q % 256)
    BY SMT
  <2> QED
    BY <2>1
<1>4. r \in 0 .. 255
  BY <1>0, <1>1, <1>2, <1>3, SMT
<1>5. n \div 256 = p /\ n % 256 = a
  BY <1>1, SMT
<1>6. n \div 65536 = q
  BY <1>1, <1>2, SMT
<1>7. n \div 16777216 = r
  BY <1>1, <1>2, <1>3, SMT
<1>8. p % 256 = b /\ q % 256 = c /\ r % 256 = r
  BY <1>2, <1>3, <1>4, SMT
<1>9. a + 256 * b + 65536 * c + 16777216 * r = n
  BY <1>1, <1>2, <1>3, SMT
<1> QED
  BY <1>0, <1>4, <1>5, <1>6, <1>7, <1>8, <1>9, SMT

\* The size of what is compressed is one (messageBase.hpp: ZLIB_MAX_SRC_SIZE).
LEMMA Announced == \A n \in Nat : n =< ZLIB_MAX_SRC_SIZE => n \in Uint32
BY SizeAssumption, SMT DEF Uint32

\* What follows a header is read as it was written.
LEMMA AfterHeader ==
  ASSUME NEW S, NEW header \in Seq(S), NEW data \in Seq(S)
  PROVE  /\ SubSeq(header \o data, Len(header) + 1, Len(header \o data)) = data
         /\ Len(header \o data) = Len(header) + Len(data)
         /\ \A i \in 1 .. Len(header) : (header \o data)[i] = header[i]
OBVIOUS

\* The bytes behind a header are those that were put there.
LEMMA BehindHeader ==
  ASSUME NEW S, NEW header \in Seq(S), NEW data \in Seq(S), NEW i \in 1 .. Len(data)
  PROVE  (header \o data)[Len(header) + i] = data[i]
OBVIOUS

\* An uncompressed message is read as it was sent (VectorMessage::getCombinedVector,
\* RclMessage::fromFlatBuffer).
LEMMA PlainFrame ==
  ASSUME NEW S, NEW channel \in S, NONE \in S, NEW data \in Seq(S)
  PROVE  fromFlatBuffer(getCombinedVector(fromSerializedMessage(channel, data)))
           = fromSerializedMessage(channel, data)
<1> DEFINE header == <<channel, NONE>>
           m == fromSerializedMessage(channel, data)
           f == header \o data
<1>1. getCombinedVector(m) = f
  BY DEF getCombinedVector, Header, fromSerializedMessage, Message
<1>2. header \in Seq(S) /\ Len(header) = 2
  OBVIOUS
<1>3. f[1] = channel /\ f[2] = NONE /\ Len(f) = 2 + Len(data) /\ SubSeq(f, 3, Len(f)) = data
  <2>1. header[1] = channel /\ header[2] = NONE
    OBVIOUS
  <2> HIDE DEF header
  <2>2. /\ SubSeq(f, Len(header) + 1, Len(f)) = data
        /\ Len(f) = Len(header) + Len(data)
        /\ \A i \in 1 .. Len(header) : f[i] = header[i]
    BY <1>2, AfterHeader
  <2>3. Len(header) + 1 = 3 /\ 1 \in 1 .. Len(header) /\ 2 \in 1 .. Len(header)
    BY <1>2
  <2> QED
    BY <1>2, <2>1, <2>2, <2>3
<1> HIDE DEF f
<1>4. fromFlatBuffer(f) = Message(channel, NONE, Len(data), data)
  <2>1. Len(f) - 2 = Len(data)
    BY <1>3
  <2> QED
    BY <1>3, <2>1, Zenon DEF fromFlatBuffer
<1> QED
  BY <1>1, <1>4 DEF fromSerializedMessage

\* A compressed message, too, with the size of what was compressed.
LEMMA BlockFrame ==
  ASSUME NEW S, Byte \subseteq S, NEW channel \in S, NEW k \in Compressor \ {NONE},
         NEW n \in Uint32, NEW block \in Seq(S)
  PROVE  fromFlatBuffer(getCombinedVector(Message(channel, k, n, block)))
           = Message(channel, k, n, block)
<1> DEFINE a == n % 256
           b == (n \div 256) % 256
           c == (n \div 65536) % 256
           d == (n \div 16777216) % 256
           first == <<channel, k>>
           bytes == <<a, b, c, d>>
           header == first \o bytes
           f == header \o block
<1>1. a \in Byte /\ b \in Byte /\ c \in Byte /\ d \in Byte
  <2>1. ASSUME NEW i \in Nat PROVE i % 256 \in Byte
    BY <2>1, SMT DEF Byte
  <2>2. n \in Nat /\ n \div 256 \in Nat /\ n \div 65536 \in Nat /\ n \div 16777216 \in Nat
    <3>1. n \in Nat
      BY SMT DEF Uint32
    <3> QED
      BY <3>1, SMT
  <2> QED
    BY <2>1, <2>2, SMT
<1>2. a + 256 * b + 65536 * c + 16777216 * d = n
  BY FourBytes, SMT
<1>3. Bytes(n) = bytes
  BY SMT DEF Bytes
<1> HIDE DEF a, b, c, d
<1>4. k \in S /\ k # NONE
  <2>1. k \in Byte
    BY SMT DEF Compressor, Byte, NONE, ZLIB
  <2> QED
    BY <2>1, Zenon
<1>5. /\ first \in Seq(S) /\ Len(first) = 2 /\ first[1] = channel /\ first[2] = k
      /\ bytes \in Seq(S) /\ Len(bytes) = 4
      /\ bytes[1] = a /\ bytes[2] = b /\ bytes[3] = c /\ bytes[4] = d
  BY <1>1, <1>4
<1>6. getCombinedVector(Message(channel, k, n, block)) = f
  BY <1>3, <1>4 DEF getCombinedVector, Header, Message
<1> HIDE DEF first, bytes
<1>7. /\ header \in Seq(S) /\ Len(header) = 6
      /\ header[1] = channel /\ header[2] = k
      /\ header[3] = a /\ header[4] = b /\ header[5] = c /\ header[6] = d
  <2>1. ASSUME NEW i \in 1 .. Len(bytes) PROVE header[Len(first) + i] = bytes[i]
    <3>1. first \in Seq(S) /\ bytes \in Seq(S)
      BY <1>5
    <3> QED
      BY <2>1, <3>1, BehindHeader, Zenon
  <2>2. header[3] = a /\ header[4] = b /\ header[5] = c /\ header[6] = d
    <3> HIDE DEF header
    <3>1. Len(first) + 1 = 3 /\ Len(first) + 2 = 4 /\ Len(first) + 3 = 5 /\ Len(first) + 4 = 6
      BY <1>5
    <3>2. /\ 1 \in 1 .. Len(bytes) /\ 2 \in 1 .. Len(bytes)
          /\ 3 \in 1 .. Len(bytes) /\ 4 \in 1 .. Len(bytes)
      BY <1>5
    <3> QED
      BY <1>5, <2>1, <3>1, <3>2, Zenon
  <2>3. /\ SubSeq(header, Len(first) + 1, Len(header)) = bytes
        /\ Len(header) = Len(first) + Len(bytes)
        /\ \A i \in 1 .. Len(first) : header[i] = first[i]
    BY <1>5, AfterHeader
  <2> QED
    BY <1>5, <2>2, <2>3
<1>8. /\ f[1] = channel /\ f[2] = k /\ f[3] = a /\ f[4] = b /\ f[5] = c /\ f[6] = d
      /\ SubSeq(f, 7, Len(f)) = block
  <2> HIDE DEF header
  <2>1. /\ SubSeq(f, Len(header) + 1, Len(f)) = block
        /\ Len(f) = Len(header) + Len(block)
        /\ \A i \in 1 .. Len(header) : f[i] = header[i]
    BY <1>7, AfterHeader
  <2>2. Len(header) + 1 = 7 /\ 1 .. 6 = 1 .. Len(header)
    BY <1>7
  <2> QED
    BY <1>7, <2>1, <2>2
<1> HIDE DEF f
<1>9. Number(f) = n
  BY <1>2, <1>8, SMT DEF Number
<1> QED
  BY <1>4, <1>6, <1>8, <1>9, Zenon DEF fromFlatBuffer

\* Whatever a subscriber's compressor does, the frame has the subscriber's channel and the
\* publisher's thread publishes the message the subscriber was given
\* (ThreadedSubscriber::run, ThreadedPublisher::run).
THEOREM ReadAsWritten ==
  ASSUME NEW S, Byte \subseteq S, NEW channel \in S, NEW data \in Seq(S),
         \A family \in {"lz4", "zlib"} : [family |-> family, of |-> data] \in S,
         NEW compressor, NEW works
  PROVE  LET m == fromSerializedMessage(channel, data)
             read == fromFlatBuffer(getCompressedCombinedVector(m, compressor, works))
         IN Readable(read) = {m} /\ read.channel = channel
<1> DEFINE m == fromSerializedMessage(channel, data)
           z == Message(channel, compressor, Len(data), Block(compressor, data))
<1>1. m.channel = channel /\ m.compressor = NONE /\ m.size = Len(data) /\ m.data = data
  BY DEF fromSerializedMessage, Message
<1>2. CASE Compress(m, compressor, works) = m
  <2>1. NONE \in S
    BY DEF Byte, NONE
  <2>2. fromFlatBuffer(getCombinedVector(m)) = m
    BY <2>1, PlainFrame
  <2> QED
    BY <1>1, <1>2, <2>2, Zenon DEF getCompressedCombinedVector, Readable, isCompressed
<1>3. CASE Compress(m, compressor, works) # m
  <2>1. compressor \in {LZ4_DEFAULT, LZ4_HC, ZLIB}
    BY <1>3 DEF Compress
  <2>2. /\ Compress(m, compressor, works) = z
        /\ Len(data) =< ZLIB_MAX_SRC_SIZE
    <3>1. ASSUME NEW max, Compressed(m, compressor, max, works) # m
          PROVE  Compressed(m, compressor, max, works) = z /\ ~(Len(data) > max)
      <4>1. ~(Len(data) > max \/ ~works)
        BY <1>1, <3>1, Zenon DEF Compressed
      <4>2. [m EXCEPT !.compressor = compressor, !.size = Len(data), !.data = Block(compressor, data)] = z
        <5> DEFINE n == Len(data)
                   b == Block(compressor, data)
        <5>1. m = Message(channel, NONE, n, data) /\ z = Message(channel, compressor, n, b)
          BY DEF fromSerializedMessage
        <5> HIDE DEF m, z, n, b
        <5>2. [[[m EXCEPT !.compressor = compressor] EXCEPT !.size = n] EXCEPT !.data = b] = z
          <6>1. [m EXCEPT !.compressor = compressor] = Message(channel, compressor, n, data)
            BY <5>1 DEF Message
          <6>2. [Message(channel, compressor, n, data) EXCEPT !.size = n]
                  = Message(channel, compressor, n, data)
            BY DEF Message
          <6>3. [Message(channel, compressor, n, data) EXCEPT !.data = b] = z
            BY <5>1 DEF Message
          <6> QED
            BY <6>1, <6>2, <6>3, Zenon
        <5>3. [m EXCEPT !.compressor = compressor, !.size = n, !.data = b] = z
          BY <5>2
        <5> QED
          BY <5>3 DEF n, b
      <4> QED
        BY <1>1, <4>1, <4>2, Zenon DEF Compressed
    <3>2. PICK max \in {LZ4_MAX_SRC_SIZE, ZLIB_MAX_SRC_SIZE} :
            Compress(m, compressor, works) = Compressed(m, compressor, max, works)
      BY <2>1 DEF Compress, lz4DefaultCompression, lz4HCCompression, zlibCompression,
                  LZ4_DEFAULT, LZ4_HC, ZLIB
    <3>3. Compress(m, compressor, works) = z /\ ~(Len(data) > max)
      BY <1>3, <3>1, <3>2
    <3>4. Len(data) \in Nat
      OBVIOUS
    <3> QED
      BY <3>3, <3>4, SizeAssumption
  <2>3. compressor \in Compressor \ {NONE} /\ Len(data) \in Nat
    BY <2>1 DEF Compressor, LZ4_DEFAULT, LZ4_HC, ZLIB, NONE
  <2>4. Block(compressor, data) \in Seq(S)
    BY DEF Block, Family
  <2>5. fromFlatBuffer(getCombinedVector(z)) = z
    BY <2>2, <2>3, <2>4, Announced, BlockFrame
  <2>6. decompress(z) = {m}
    <3>1. z.compressor = compressor /\ z.size = Len(data)
          /\ z.data[1].family = Family(compressor) /\ z.data[1].of = data
      BY DEF Message, Block
    <3>2. [z EXCEPT !.compressor = NONE, !.data = data] = m
      <4> DEFINE n == Len(data)
                 b == Block(compressor, data)
      <4>1. m = Message(channel, NONE, n, data) /\ z = Message(channel, compressor, n, b)
        BY DEF fromSerializedMessage
      <4> HIDE DEF m, z, n, b
      <4>2. [[z EXCEPT !.compressor = NONE] EXCEPT !.data = data] = m
        <5>1. [z EXCEPT !.compressor = NONE] = Message(channel, NONE, n, b)
          BY <4>1 DEF Message
        <5>2. [Message(channel, NONE, n, b) EXCEPT !.data = data] = m
          BY <4>1 DEF Message
        <5> QED
          BY <5>1, <5>2, Zenon
      <4> QED
        BY <4>2
    <3> HIDE DEF z, m
    <3>3. Inflated(z, Family(compressor), ZLIB_MAX_SRC_SIZE) = {m}
      BY <2>2, <2>3, <3>1, <3>2, SizeAssumption DEF Inflated
    <3> QED
      BY <2>1, <3>1, <3>3
         DEF decompress, lz4Decompression, zlibDecompression, Family, LZ4_DEFAULT, LZ4_HC, ZLIB
  <2>7. isCompressed(z)
    BY <2>3 DEF isCompressed, Message
  <2>8. z.channel = channel
    BY DEF Message
  <2> QED
    BY <2>2, <2>5, <2>6, <2>7, <2>8, Zenon DEF getCompressedCombinedVector, Readable
<1> QED
  BY <1>2, <1>3

\* Numbers that fit a byte.
LEMMA BytesOf ==
  /\ \A n \in 1 .. 255 : n \in Byte /\ n >= 1
  /\ ServiceActionOpCode \subseteq Byte /\ Compressor \subseteq Byte
  /\ \A n \in Nat : n % 256 \in Byte
BY DEF Byte, ServiceActionOpCode, Compressor, NONE, ZLIB

\* The extended header of a service or an action is read as it was written
\* (ServiceActionMessage::fromMessage).
LEMMA HeaderAsWritten ==
  ASSUME NEW S, Byte \subseteq S, NEW channel \in S, NEW op \in ServiceActionOpCode,
         NEW gid \in Seq(S), Len(gid) \in 1 .. 255, NEW data \in Seq(S), NEW k, NEW n,
         NEW size, k = NONE => n = Len(data), k # NONE => size = n
  PROVE  LET z == ServiceActionMessage(k, n, channel, op, gid, data)
         IN  /\ ExtendedHeader(z) \in Seq(S)
             /\ fromMessage(Message(SERVICE_ACTION, k, size, ExtendedHeader(z) \o data)) = {z}
<1> DEFINE z == ServiceActionMessage(k, n, channel, op, gid, data)
           first == <<channel, op, Len(gid)>>
           header == first \o gid
           v == header \o data
           m == Message(SERVICE_ACTION, k, size, v)
           end == 3 + Len(gid)
<1>1. Len(gid) % 256 = Len(gid) /\ Len(gid) \in Byte /\ op \in Byte
  <2>1. Len(gid) \in Byte /\ op \in Byte
    BY BytesOf, Zenon
  <2> QED
    BY <2>1, ByteKept DEF ToByte
<1>2. ExtendedHeader(z) = header
  BY <1>1, Zenon DEF ExtendedHeader, ServiceActionMessage
<1>3. /\ first \in Seq(S) /\ Len(first) = 3
      /\ first[1] = channel /\ first[2] = op /\ first[3] = Len(gid)
  BY <1>1
<1> HIDE DEF first
<1>4. /\ header \in Seq(S) /\ Len(header) = end
      /\ header[1] = channel /\ header[2] = op /\ header[3] = Len(gid)
      /\ SubSeq(header, 4, end) = gid
  <2>1. /\ SubSeq(header, Len(first) + 1, Len(header)) = gid
        /\ Len(header) = Len(first) + Len(gid)
        /\ \A i \in 1 .. Len(first) : header[i] = first[i]
    BY <1>3, AfterHeader
  <2>2. Len(first) + 1 = 4 /\ Len(header) = end /\ 1 .. Len(first) = 1 .. 3
    BY <1>3, <2>1
  <2>3. header \in Seq(S)
    BY <1>3
  <2> HIDE DEF header, end
  <2>4. header[1] = first[1] /\ header[2] = first[2] /\ header[3] = first[3]
    BY <2>1, <2>2
  <2> QED
    BY <1>3, <2>1, <2>2, <2>3, <2>4
<1> HIDE DEF header
<1>5. /\ v[1] = channel /\ v[2] = op /\ v[3] = Len(gid) /\ Len(v) = end + Len(data)
      /\ SubSeq(v, end + 1, Len(v)) = data /\ v \in Seq(S)
      /\ \A i \in 1 .. end : v[i] = header[i]
  <2>1. /\ SubSeq(v, Len(header) + 1, Len(v)) = data
        /\ Len(v) = Len(header) + Len(data)
        /\ \A i \in 1 .. Len(header) : v[i] = header[i]
    BY <1>4, AfterHeader
  <2>2. v \in Seq(S)
    BY <1>4
  <2>3. end \in Nat /\ 3 =< end
    OBVIOUS
  <2> HIDE DEF v, end
  <2> QED
    BY <1>4, <2>1, <2>2, <2>3
<1>6. SubSeq(v, 4, end) = gid
  <2> HIDE DEF v
  <2>1. SubSeq(v, 4, end) = SubSeq(header, 4, end)
    BY <1>4, <1>5
  <2> QED
    BY <1>4, <2>1
<1> HIDE DEF v
<1>7. /\ ~(Len(v) < 4) /\ v[2] \in ServiceActionOpCode /\ ~(Len(v) < 3 + v[3])
      /\ Len(v) - (3 + v[3]) = Len(data)
  <2> HIDE DEF z, m, end
  <2>1. Len(data) \in Nat /\ Len(gid) \in Nat /\ Len(gid) >= 1
    <3>1. Len(data) \in Nat /\ Len(gid) \in Nat
      OBVIOUS
    <3>2. Len(gid) >= 1
      BY BytesOf, Zenon
    <3> QED
      BY <3>1, <3>2
  <2>2. Len(v) = (3 + Len(gid)) + Len(data) /\ v[3] = Len(gid) /\ v[2] = op
    BY <1>5 DEF end
  <2>3. Len(v) \in Nat /\ ~(Len(v) < 4) /\ ~(Len(v) < 3 + v[3]) /\ Len(v) - (3 + v[3]) = Len(data)
    BY <2>1, <2>2
  <2> QED
    BY <2>2, <2>3, Zenon
<1>8. m.data = v /\ m.compressor = k /\ m.size = size
  BY DEF Message
<1> HIDE DEF m
<1>9. fromMessage(m) = {z}
  <2>1. fromMessage(m) =
          {ServiceActionMessage(k, IF k = NONE THEN Len(v) - (3 + v[3]) ELSE size,
             v[1], v[2], SubSeq(v, 4, 3 + v[3]), SubSeq(v, 3 + v[3] + 1, Len(v)))}
    BY <1>7, <1>8, Zenon DEF fromMessage
  <2>2. (IF k = NONE THEN Len(v) - (3 + v[3]) ELSE size) = n
    BY <1>7
  <2>3. 3 + v[3] = end
    BY <1>5
  <2> QED
    BY <1>5, <1>6, <2>1, <2>2, <2>3, Zenon
<1> QED
  BY <1>2, <1>4, <1>9 DEF m, v

\* So is the whole frame, compressed or not.
LEMMA VectorAsWritten ==
  ASSUME NEW S, Byte \subseteq S, NEW channel \in S, NEW op \in ServiceActionOpCode,
         NEW gid \in Seq(S), Len(gid) \in 1 .. 255, NEW data \in Seq(S),
         NEW k \in Compressor, NEW n, k = NONE => n = Len(data), k # NONE => n \in Uint32
  PROVE  LET z == ServiceActionMessage(k, n, channel, op, gid, data)
             read == fromFlatBuffer(serviceActionVector(z))
         IN  read.channel = SERVICE_ACTION /\ fromMessage(read) = {z}
<1> DEFINE z == ServiceActionMessage(k, n, channel, op, gid, data)
           rest == ExtendedHeader(z) \o data
           plain == Message(SERVICE_ACTION, NONE, Len(rest), rest)
           block == Message(SERVICE_ACTION, k, n, rest)
<1>1. ExtendedHeader(z) \in Seq(S)
  BY HeaderAsWritten
<1>2. SERVICE_ACTION \in S /\ NONE \in S
  BY DEF SERVICE_ACTION, NONE, Byte
<1>3. z.channel = SERVICE_ACTION /\ z.compressor = k /\ z.size = n /\ z.data = data
  BY DEF ServiceActionMessage
<1>4. CASE k = NONE
  <2> DEFINE h == <<SERVICE_ACTION, NONE>>
             x == ExtendedHeader(z)
  <2>1. serviceActionVector(z) = (h \o x) \o data
    BY <1>3, <1>4, Zenon DEF serviceActionVector, Header
  <2>2. (h \o x) \o data = h \o rest
    <3>1. h \in Seq(S)
      BY <1>2
    <3> HIDE DEF h
    <3> QED
      BY <1>1, <3>1, ConcatAssociative
  <2>3. rest \in Seq(S)
    BY <1>1
  <2>4. fromSerializedMessage(SERVICE_ACTION, rest) = plain
    BY DEF fromSerializedMessage
  <2>5. plain.channel = SERVICE_ACTION /\ plain.compressor = NONE /\ plain.data = rest
    BY DEF Message
  <2> HIDE DEF rest, plain, x
  <2>6. getCombinedVector(plain) = h \o rest
    BY <2>5, Zenon DEF getCombinedVector, Header
  <2>7. fromFlatBuffer(serviceActionVector(z)) = plain
    BY <1>2, <2>1, <2>2, <2>3, <2>4, <2>6, PlainFrame
  <2>8. fromMessage(plain) = {z}
    BY <1>4, HeaderAsWritten DEF plain, rest
  <2> QED
    BY <2>5, <2>7, <2>8
<1>5. CASE k # NONE
  <2> DEFINE h == <<SERVICE_ACTION, k>> \o Bytes(n)
             x == ExtendedHeader(z)
  <2>1. serviceActionVector(z) = (h \o x) \o data
    BY <1>3, <1>5, Zenon DEF serviceActionVector, Header
  <2>2. (h \o x) \o data = h \o rest
    <3>1. h \in Seq(S)
      <4>1. k \in S /\ \A i \in Nat : i % 256 \in S
        BY BytesOf, Zenon
      <4>2. n \in Nat /\ n \div 256 \in Nat /\ n \div 65536 \in Nat /\ n \div 16777216 \in Nat
        BY <1>5, SMT DEF Uint32
      <4>3. Bytes(n) \in Seq(S)
        <5> DEFINE a == n % 256
                   b == (n \div 256) % 256
                   c == (n \div 65536) % 256
                   d == (n \div 16777216) % 256
        <5>1. a \in S /\ b \in S /\ c \in S /\ d \in S
          BY <4>1, <4>2
        <5>2. Bytes(n) = <<a, b, c, d>>
          BY SMT DEF Bytes
        <5> HIDE DEF a, b, c, d
        <5> QED
          BY <5>1, <5>2
      <4> QED
        BY <1>2, <4>1, <4>3
    <3> HIDE DEF h
    <3> QED
      BY <1>1, <3>1, ConcatAssociative
  <2>3. rest \in Seq(S)
    BY <1>1
  <2>5. block.channel = SERVICE_ACTION /\ block.compressor = k /\ block.data = rest /\ block.size = n
    BY DEF Message
  <2> HIDE DEF rest, block, x
  <2>6. getCombinedVector(block) = h \o rest
    BY <1>5, <2>5, Zenon DEF getCombinedVector, Header
  <2>7. fromFlatBuffer(serviceActionVector(z)) = block
    BY <1>2, <1>5, <2>1, <2>2, <2>3, <2>6, BlockFrame DEF block
  <2>8. fromMessage(block) = {z}
    BY <1>5, HeaderAsWritten DEF block, rest
  <2> QED
    BY <2>5, <2>7, <2>8
<1> QED
  BY <1>4, <1>5

\* What compression makes of a message, if anything.
LEMMA CompressedOrNot ==
  ASSUME NEW m, NEW compressor, NEW works, Len(m.data) \in Nat
  PROVE  \/ Compress(m, compressor, works) = m
         \/ /\ compressor \in Compressor \ {NONE} /\ Len(m.data) \in Uint32
            /\ Len(m.data) =< ZLIB_MAX_SRC_SIZE
            /\ Compress(m, compressor, works) =
                 [m EXCEPT !.compressor = compressor, !.size = Len(m.data),
                           !.data = Block(compressor, m.data)]
<1> SUFFICES ASSUME Compress(m, compressor, works) # m
             PROVE  /\ compressor \in Compressor \ {NONE} /\ Len(m.data) \in Uint32
                    /\ Len(m.data) =< ZLIB_MAX_SRC_SIZE
                    /\ Compress(m, compressor, works) =
                         [m EXCEPT !.compressor = compressor, !.size = Len(m.data),
                                   !.data = Block(compressor, m.data)]
  OBVIOUS
<1>1. compressor \in {LZ4_DEFAULT, LZ4_HC, ZLIB}
  BY DEF Compress
<1>2. PICK max \in {LZ4_MAX_SRC_SIZE, ZLIB_MAX_SRC_SIZE} :
        Compress(m, compressor, works) = Compressed(m, compressor, max, works)
  BY <1>1 DEF Compress, lz4DefaultCompression, lz4HCCompression, zlibCompression,
              LZ4_DEFAULT, LZ4_HC, ZLIB
<1>3. ~(Len(m.data) > max \/ ~works)
  BY <1>2, Zenon DEF Compressed
<1>4. Compress(m, compressor, works) =
        [m EXCEPT !.compressor = compressor, !.size = Len(m.data),
                  !.data = Block(compressor, m.data)]
  BY <1>2, <1>3, Zenon DEF Compressed
<1>5. Len(m.data) =< ZLIB_MAX_SRC_SIZE
  BY <1>3, SizeAssumption
<1>6. compressor \in Compressor \ {NONE}
  BY <1>1 DEF Compressor, LZ4_DEFAULT, LZ4_HC, ZLIB, NONE
<1> QED
  BY <1>4, <1>5, <1>6, Announced, Zenon

\* A message about a call has the call's channel, op-code and gid on the other side, and
\* the plug-in there reads the data of the plug-in that sent it, whatever its compressor
\* does (Service::send, Action::send, ServiceActionManager::run).
THEOREM CallReadAsWritten ==
  ASSUME NEW S, Byte \subseteq S, NEW channel \in S, NEW op \in ServiceActionOpCode,
         NEW gid \in Seq(S), Len(gid) \in 1 .. 255, NEW data \in Seq(S),
         \A family \in {"lz4", "zlib"} : [family |-> family, of |-> data] \in S,
         NEW compressor, NEW works
  PROVE  LET m == forServiceAction(channel, op, data, gid)
             read == fromFlatBuffer(serviceActionCompressedVector(m, compressor, works))
         IN  /\ read.channel = SERVICE_ACTION /\ fromMessage(read) # {}
             /\ \A r \in fromMessage(read) :
                  /\ r.serviceActionChannel = channel /\ r.opCode = op /\ r.gid = gid
                  /\ Readable(r) = {m}
<1> DEFINE m == forServiceAction(channel, op, data, gid)
           n == Len(data)
           b == Block(compressor, data)
           plain == ServiceActionMessage(NONE, n, channel, op, gid, data)
           z == ServiceActionMessage(compressor, n, channel, op, gid, b)
           read == fromFlatBuffer(serviceActionCompressedVector(m, compressor, works))
<1>1. m = plain
  BY DEF forServiceAction
<1>2. /\ plain.compressor = NONE /\ plain.size = n /\ plain.data = data
      /\ plain.serviceActionChannel = channel /\ plain.opCode = op /\ plain.gid = gid
      /\ z.compressor = compressor /\ z.size = n /\ z.data = b
      /\ z.serviceActionChannel = channel /\ z.opCode = op /\ z.gid = gid
  BY DEF ServiceActionMessage
<1>3. n \in Nat
  OBVIOUS
<1>4. NONE \in Compressor
  BY DEF Compressor, NONE, ZLIB
<1>5. CASE Compress(m, compressor, works) = m
  <2>1. read = fromFlatBuffer(serviceActionVector(plain))
    BY <1>1, <1>5, Zenon DEF serviceActionCompressedVector
  <2>2. read.channel = SERVICE_ACTION /\ fromMessage(read) = {plain}
    BY <1>4, <2>1, VectorAsWritten
  <2>3. Readable(plain) = {plain}
    BY <1>2, Zenon DEF Readable, isCompressed
  <2> QED
    BY <1>1, <1>2, <2>2, <2>3, Zenon
<1>6. CASE Compress(m, compressor, works) # m
  <2>1. /\ compressor \in Compressor \ {NONE} /\ n \in Uint32 /\ n =< ZLIB_MAX_SRC_SIZE
        /\ Compress(m, compressor, works)
             = [plain EXCEPT !.compressor = compressor, !.size = n, !.data = b]
    <3>1. Len(plain.data) = n /\ Block(compressor, plain.data) = b
      BY <1>2
    <3> QED
      BY <1>1, <1>3, <1>6, <3>1, CompressedOrNot
  <2>2. [plain EXCEPT !.compressor = compressor, !.size = n, !.data = b] = z
    <3>1. plain = ServiceActionMessage(NONE, n, channel, op, gid, data)
      OBVIOUS
    <3> HIDE DEF plain, n, b, m, read
    <3>2. [plain EXCEPT !.compressor = compressor]
            = ServiceActionMessage(compressor, n, channel, op, gid, data)
      BY <3>1 DEF ServiceActionMessage
    <3>3. [ServiceActionMessage(compressor, n, channel, op, gid, data) EXCEPT !.size = n]
            = ServiceActionMessage(compressor, n, channel, op, gid, data)
      BY DEF ServiceActionMessage
    <3>4. [ServiceActionMessage(compressor, n, channel, op, gid, data) EXCEPT !.data = b] = z
      BY DEF ServiceActionMessage, z
    <3> HIDE DEF z
    <3>5. [[[plain EXCEPT !.compressor = compressor] EXCEPT !.size = n] EXCEPT !.data = b] = z
      BY <3>2, <3>3, <3>4, Zenon
    <3> QED
      BY <3>5
  <2>3. read = fromFlatBuffer(serviceActionVector(z))
    BY <2>1, <2>2, Zenon DEF serviceActionCompressedVector
  <2>4. b \in Seq(S)
    BY DEF Block, Family
  <2>5. read.channel = SERVICE_ACTION /\ fromMessage(read) = {z}
    <3> HIDE DEF read, b
    <3> QED
      BY <2>1, <2>3, <2>4, VectorAsWritten
  <2>6. Readable(z) = {plain}
    <3>1. [z EXCEPT !.compressor = NONE, !.data = data] = plain
      <4>1. z = ServiceActionMessage(compressor, n, channel, op, gid, b)
        OBVIOUS
      <4> HIDE DEF z, n, b, m, read
      <4>2. [z EXCEPT !.compressor = NONE] = ServiceActionMessage(NONE, n, channel, op, gid, b)
        BY <4>1 DEF ServiceActionMessage
      <4>3. [ServiceActionMessage(NONE, n, channel, op, gid, b) EXCEPT !.data = data] = plain
        BY DEF ServiceActionMessage, plain
      <4> HIDE DEF plain
      <4>4. [[z EXCEPT !.compressor = NONE] EXCEPT !.data = data] = plain
        BY <4>2, <4>3, Zenon
      <4> QED
        BY <4>4
    <3>2. /\ z.data[1].family = Family(compressor) /\ z.data[1].of = data
          /\ z.compressor = compressor /\ z.size = n
      <4>1. b[1].family = Family(compressor) /\ b[1].of = data
        BY DEF Block
      <4> QED
        BY <1>2, <4>1, Zenon
    <3> HIDE DEF z, plain, m, read, b
    <3>3. Inflated(z, Family(compressor), ZLIB_MAX_SRC_SIZE) = {plain}
      BY <1>3, <2>1, <3>1, <3>2, SizeAssumption DEF Inflated
    <3>4. compressor \in {LZ4_DEFAULT, LZ4_HC, ZLIB}
      BY <2>1 DEF Compressor, NONE, LZ4_DEFAULT, LZ4_HC, ZLIB
    <3>5. decompress(z) = {plain}
      BY <3>2, <3>3, <3>4
         DEF decompress, lz4Decompression, zlibDecompression, Family, LZ4_DEFAULT, LZ4_HC, ZLIB
    <3> QED
      BY <2>1, <3>2, <3>5, Zenon DEF Readable, isCompressed
  <2> QED
    BY <1>1, <1>2, <2>5, <2>6, Zenon
<1> QED
  BY <1>5, <1>6

----------------------------------------------------------------------------
(* The hosts.                                                              *)

\* A host that is up runs with what it made of parameters it accepted.
Accepted(h) ==
  /\ config[h] = GlobalConfig(given.param[h], NumberOfThreads(h)) /\ NumberOfThreads(h) >= 1
  /\ initializeParameters(given.param[h], h = "server")

\* The inductive invariant behind AcceptedIsSound.
AcceptedInv ==
  /\ given \in Candidates
  /\ config = [h \in Host |-> config[h]] /\ state = [h \in Host |-> state[h]]
  /\ \A h \in Host : Up(h) => Accepted(h)

\* Every step keeps it: only Start changes what a host runs with.
LEMMA AcceptedStep == AcceptedInv /\ [Next]_vars => AcceptedInv'
<1> SUFFICES ASSUME AcceptedInv, [Next]_vars PROVE AcceptedInv'
  OBVIOUS
<1>1. ASSUME UNCHANGED <<given, config, state>> PROVE AcceptedInv'
  BY <1>1 DEF AcceptedInv, Accepted, Up, NumberOfThreads
<1>2. ASSUME NEW h \in Host, Start(h) PROVE AcceptedInv'
  <2>1. given' = given
    BY <1>2 DEF Start
  <2>2. CASE NumberOfThreads(h) >= 1 /\ initializeParameters(given.param[h], h = "server")
    <3>1. /\ state' = [state EXCEPT ![h] = "up"]
          /\ config' = [config EXCEPT ![h] = GlobalConfig(given.param[h], NumberOfThreads(h))]
      BY <1>2, <2>2, Zenon DEF Start
    <3>2. Accepted(h)'
      BY <2>1, <2>2, <3>1, Zenon DEF Accepted, AcceptedInv, NumberOfThreads
    <3>3. ASSUME NEW k \in Host, k # h, Up(k)' PROVE Accepted(k)'
      BY <2>1, <3>1, <3>3, Zenon DEF Accepted, AcceptedInv, Up, NumberOfThreads
    <3> QED
      BY <2>1, <3>1, <3>2, <3>3, Zenon DEF AcceptedInv
  <2>3. CASE ~(NumberOfThreads(h) >= 1 /\ initializeParameters(given.param[h], h = "server"))
    <3>1. state' = [state EXCEPT ![h] = "refused"] /\ config' = config
      BY <1>2, <2>3, Zenon DEF Start
    <3>2. ASSUME NEW k \in Host, Up(k)' PROVE k # h /\ Up(k)
      BY <3>1, <3>2, Zenon DEF AcceptedInv, Up
    <3> QED
      BY <2>1, <3>1, <3>2, Zenon DEF AcceptedInv, Accepted, NumberOfThreads
  <2> QED
    BY <2>2, <2>3
<1>3. ASSUME NEW h \in Host, Nodes(h) PROVE UNCHANGED <<given, config, state>>
  BY <1>3 DEF Nodes, NodePublishes, ClockTick, NodeCalls
<1>4. ASSUME NEW h \in Host, RunExecutor(h) PROVE UNCHANGED <<given, config, state>>
  BY <1>4 DEF RunExecutor, SubscriberCallback, Return, Execute, AnswerCallback
<1>5. ASSUME NEW h \in Host, processMessage(h) \/ RunManagers(h)
      PROVE  UNCHANGED <<given, config, state>>
  BY <1>5 DEF processMessage, RunManagers, RunPublisherManager, RunServiceActionManager
<1>6. ASSUME NEW h \in Host, NEW k \in DOMAIN threaded[h], RunThreadedPublisher(h, k)
      PROVE  UNCHANGED <<given, config, state>>
  BY <1>6 DEF RunThreadedPublisher
<1>7. ASSUME NEW i \in Calls, Timeout(i) \/ RealAnswers(i)
      PROVE  UNCHANGED <<given, config, state>>
  BY <1>7 DEF Timeout, RealAnswers
<1>8. ASSUME Done \/ UNCHANGED vars PROVE UNCHANGED <<given, config, state>>
  BY <1>8 DEF Done, vars
<1> QED
  BY <1>1, <1>2, <1>3, <1>4, <1>5, <1>6, <1>7, <1>8 DEF Next

\* What is accepted is sound.
LEMMA AcceptedSound == AcceptedInv => AcceptedIsSound
<1> SUFFICES ASSUME AcceptedInv, NEW h \in Host, Up(h)
             PROVE  LET subs == config[h].subscriber
                        pubs == config[h].publisher
                    IN /\ \A s, t \in subs : s.channel = t.channel => s = t
                       /\ \A s, t \in pubs : s.channel = t.channel => s = t
                       /\ \A s \in subs, t \in pubs : s.channel # t.channel
                       /\ \A t \in subs \cup pubs : t.channel \in Reserved <=> t.topic \in PredefinedTopics
                       /\ \A s \in subs : s.compressor # NONE => s.useOwnThread
                       /\ \A kind \in Kind :
                            LET plugins == config[h].server[kind] \cup config[h].client[kind]
                            IN \A c, d \in plugins : c.channel = d.channel => c = d
  BY DEF AcceptedIsSound
<1> DEFINE p == given.param[h]
<1>1. PICK n, a : config[h] = GlobalConfig(p, n) /\ initializeParameters(p, a)
  BY DEF AcceptedInv, Accepted
<1>2. \A list \in Lists(p) : InOrder(list)
  <2>1. \A list \in Lists(p) : Len(list) \in Nat /\ DOMAIN list = 1 .. Len(list)
    BY ParameterAssumption DEF AcceptedInv
  <2> QED
    BY <2>1 DEF InOrder
<1> HIDE DEF p
<1>3. /\ config[h].subscriber = Subscribers(p) /\ config[h].publisher = Publishers(p)
      /\ config[h].server["service"] = Plugins(p, p.serviceServer)
      /\ config[h].client["service"] = Plugins(p, p.serviceClient)
      /\ config[h].server["action"] = Plugins(p, p.actionServer)
      /\ config[h].client["action"] = Plugins(p, p.actionClient)
  BY <1>1 DEF GlobalConfig, Kind
<1>4. /\ FlagsOk(p)
      /\ \A i \in DOMAIN p.subscriber : SubscriberOk(p, i)
      /\ \A i \in DOMAIN p.publisher : PublisherOk(p, i)
  BY <1>1, Zenon DEF initializeParameters
<1>5. /\ InOrder(p.subscriber) /\ InOrder(p.publisher) /\ InOrder(p.serviceServer)
      /\ InOrder(p.serviceClient) /\ InOrder(p.actionServer) /\ InOrder(p.actionClient)
  BY <1>2 DEF Lists
<1>6. ASSUME NEW c \in Plugins(p, p.serviceServer) \cup Plugins(p, p.serviceClient),
             NEW d \in Plugins(p, p.serviceServer) \cup Plugins(p, p.serviceClient),
             c.channel = d.channel
      PROVE  c = d
  BY <1>1, <1>5, <1>6, ListedPlugins, PluginsSound
<1>7. ASSUME NEW c \in Plugins(p, p.actionServer) \cup Plugins(p, p.actionClient),
             NEW d \in Plugins(p, p.actionServer) \cup Plugins(p, p.actionClient),
             c.channel = d.channel
      PROVE  c = d
  BY <1>1, <1>5, <1>7, ListedPlugins, PluginsSound
<1>8. ASSUME NEW kind \in Kind
      PROVE  LET plugins == config[h].server[kind] \cup config[h].client[kind]
             IN \A c, d \in plugins : c.channel = d.channel => c = d
  <2>1. CASE kind = "service"
    BY <1>3, <1>6, <2>1
  <2>2. CASE kind = "action"
    BY <1>3, <1>7, <2>2
  <2> QED
    BY <2>1, <2>2 DEF Kind
<1>9. /\ \A s, t \in Subscribers(p) : s.channel = t.channel => s = t
      /\ \A s, t \in Publishers(p) : s.channel = t.channel => s = t
      /\ \A s \in Subscribers(p), t \in Publishers(p) : s.channel # t.channel
      /\ \A t \in Subscribers(p) \cup Publishers(p) :
           t.channel \in Reserved <=> t.topic \in PredefinedTopics
      /\ \A s \in Subscribers(p) : s.compressor # NONE => s.useOwnThread
  BY <1>4, <1>5, TopicsSound
<1> QED
  BY <1>3, <1>8, <1>9

\* For any parameters of the two hosts, what a host runs with is unambiguous, keeps to its
\* channels and compresses only in a thread of its own.
THEOREM ConfigurationsAreSound == Spec => []AcceptedIsSound
<1>1. Init => AcceptedInv
  <2> SUFFICES ASSUME Init PROVE AcceptedInv
    OBVIOUS
  <2>1. given \in Candidates /\ config = [h \in Host |-> config[h]] /\ state = [h \in Host |-> state[h]]
    BY DEF Init
  <2>2. \A h \in Host : ~Up(h)
    BY DEF Init, Up
  <2> QED
    BY <2>1, <2>2 DEF AcceptedInv
<1> QED
  BY <1>1, AcceptedStep, AcceptedSound, PTL DEF Spec

\* What a publisher takes or a node sends on a topic has a channel of its own, a topic that
\* goes both ways under one name is not predefined, and a channel with a meaning has its topic.
LEMMA TopicChannels ==
  ASSUME NEW p, FlagsOk(p),
         \A i \in DOMAIN p.subscriber : SubscriberOk(p, i),
         \A i \in DOMAIN p.publisher : PublisherOk(p, i)
  PROVE  /\ \A s \in Subscribers(p) :
              s.channel \in Byte \ {NOTIFICATION, SUBSCRIPTION, SERVICE_ACTION, AUTHENTICATION}
         /\ \A s \in Subscribers(p), t \in Publishers(p) :
              s.topic = t.topic => s.topic \notin PredefinedTopics
         /\ \A t \in Subscribers(p) \cup Publishers(p) : t.channel \in Reserved => Standard(t)
<1>1. \A c \in {TF, TF_STATIC, CLOCK} \cup (Byte \ Reserved) :
         c \in Byte \ {NOTIFICATION, SUBSCRIPTION, SERVICE_ACTION, AUTHENTICATION}
  BY DEF TF, TF_STATIC, CLOCK, Byte, Reserved, NOTIFICATION, SUBSCRIPTION, SERVICE_ACTION, AUTHENTICATION
<1>2. \A s \in Subscribers(p) : s.channel \in {TF, TF_STATIC, CLOCK} \cup (Byte \ Reserved)
  BY Origin, Predefined DEF Listed, Topic
<1>3. ASSUME NEW s \in Subscribers(p), NEW t \in Publishers(p), s.topic = t.topic,
             s.topic \in PredefinedTopics
      PROVE  FALSE
  <2>1. s \in PredefinedSubscribers(p)
    BY <1>3, Origin DEF Listed, Topic
  <2>2. t \in PredefinedPublishers(p)
    BY <1>3, Origin DEF ListedPub, Topic
  <2> QED
    BY <1>3, <2>1, <2>2, Predefined
<1>4. ASSUME NEW t \in Subscribers(p) \cup Publishers(p), t.channel \in Reserved PROVE Standard(t)
  <2>1. t \in PredefinedSubscribers(p) \cup PredefinedPublishers(p)
    BY <1>4, Origin DEF Listed, ListedPub, Topic
  <2> QED
    BY <2>1, Predefined
<1> QED
  BY <1>1, <1>2, <1>3, <1>4

----------------------------------------------------------------------------
(* Queues.                                                                 *)

\* A sequence, of whatever it holds.
IsQueue(q) == q \in Seq(Entries(q))

\* The empty queue holds nothing.
LEMMA EmptyQueue == IsQueue(<<>>) /\ Entries(<<>>) = {}
BY DEF IsQueue, Entries

\* Every sequence is a sequence of its entries.
LEMMA OfItsEntries == ASSUME NEW S, NEW t \in Seq(S) PROVE IsQueue(t)
<1>1. t \in [1 .. Len(t) -> S] /\ Len(t) \in Nat
  OBVIOUS
<1>2. \A i \in 1 .. Len(t) : t[i] \in Entries(t)
  BY <1>1 DEF Entries
<1>3. t \in [1 .. Len(t) -> Entries(t)]
  BY <1>1, <1>2, Zenon
<1> QED
  BY <1>1, <1>3 DEF IsQueue

\* What is appended is one more entry.
LEMMA QueueGrows ==
  ASSUME NEW q, NEW x, IsQueue(q)
  PROVE  IsQueue(Append(q, x)) /\ Entries(Append(q, x)) = Entries(q) \cup {x}
<1> DEFINE S == Entries(q) \cup {x}
<1>1. q \in Seq(S)
  <2>1. Entries(q) \subseteq S
    OBVIOUS
  <2> HIDE DEF S
  <2> QED
    BY <2>1 DEF IsQueue
<1>2. Append(q, x) \in Seq(S) /\ Len(Append(q, x)) = Len(q) + 1 /\ Append(q, x)[Len(q) + 1] = x
      /\ \A i \in 1 .. Len(q) : Append(q, x)[i] = q[i]
  <2>1. x \in S
    OBVIOUS
  <2> HIDE DEF S
  <2> QED
    BY <1>1, <2>1
<1>3. Entries(Append(q, x)) = S
  <2>1. DOMAIN q = 1 .. Len(q) /\ DOMAIN Append(q, x) = 1 .. Len(q) + 1 /\ Len(q) \in Nat
    BY <1>1, <1>2
  <2>2. 1 .. Len(q) + 1 = (1 .. Len(q)) \cup {Len(q) + 1}
    BY <2>1
  <2> QED
    BY <1>2, <2>1, <2>2, Zenon DEF Entries
<1> QED
  BY <1>2, <1>3 DEF IsQueue

\* The head of a queue is an entry, and what remains holds no other ones.
LEMMA QueueShrinks ==
  ASSUME NEW q, IsQueue(q), q # <<>>
  PROVE  /\ Head(q) \in Entries(q)
         /\ IsQueue(Tail(q)) /\ Entries(Tail(q)) \subseteq Entries(q)
<1>1. /\ Len(q) \in Nat \ {0} /\ DOMAIN q = 1 .. Len(q) /\ Head(q) = q[1]
      /\ Tail(q) \in Seq(Entries(q)) /\ Len(Tail(q)) = Len(q) - 1 /\ DOMAIN Tail(q) = 1 .. Len(q) - 1
      /\ \A i \in 1 .. Len(q) - 1 : Tail(q)[i] = q[i + 1]
  BY DEF IsQueue
<1>2. Head(q) \in Entries(q)
  BY <1>1 DEF Entries
<1>3. Entries(Tail(q)) \subseteq Entries(q)
  BY <1>1 DEF Entries
<1> QED
  BY <1>1, <1>2, <1>3, OfItsEntries

\* The queues of all threaded publishers are one in the model, which gives its k-th message.
LEMMA QueueGives ==
  ASSUME NEW q, IsQueue(q), NEW k \in DOMAIN q
  PROVE  LET t == [j \in 1 .. Len(q) - 1 |-> IF j < k THEN q[j] ELSE q[j + 1]]
         IN  q[k] \in Entries(q) /\ IsQueue(t) /\ Entries(t) \subseteq Entries(q)
<1> DEFINE t == [j \in 1 .. Len(q) - 1 |-> IF j < k THEN q[j] ELSE q[j + 1]]
<1>1. Len(q) \in Nat \ {0} /\ DOMAIN q = 1 .. Len(q) /\ k \in 1 .. Len(q)
  BY DEF IsQueue
<1>2. q[k] \in Entries(q)
  BY DEF Entries
<1>3. DOMAIN t = 1 .. Len(q) - 1 /\ \A j \in 1 .. Len(q) - 1 : t[j] \in Entries(q) /\ t[j] \in Entries(t)
  BY <1>1 DEF Entries
<1>4. Entries(t) \subseteq Entries(q)
  BY <1>3 DEF Entries
<1>5. t \in Seq(Entries(q))
  <2>1. t = [j \in 1 .. Len(q) - 1 |-> t[j]] /\ Len(q) - 1 \in Nat
    BY <1>1
  <2> HIDE DEF t
  <2> QED
    BY <1>3, <2>1
<1> QED
  BY <1>2, <1>4, <1>5, OfItsEntries

----------------------------------------------------------------------------
(* The inductive invariant.                                                *)

\* Nothing happens before both hosts are up.
Quiet == ~Connected =>
  /\ published = 0 /\ ready = {} /\ sent = {} /\ delivered = {}
  /\ \A h \in Host : /\ wire[h] = <<>> /\ toPublish[h] = <<>>
                     /\ threaded[h] = <<>> /\ toHandle[h] = <<>>
  /\ \A i \in Calls : call[i].stage = "none" /\ remote[i].stage = "none"

\* Each host has a queue.
Queued(queues) == queues = [h \in Host |-> queues[h]] /\ \A h \in Host : IsQueue(queues[h])

\* The queues of the two hosts.
Queues == Queued(wire) /\ Queued(toPublish) /\ Queued(threaded) /\ Queued(toHandle)

\* A subscriber of the channel gets what its host publishes.
SentBack(h, channel) ==
  \E s \in config[h].subscriber :
    s.channel = channel /\ (channel \in Reserved => Ordinary(h, s.topic) # {})

\* A message that has been carried once is on its way because its host subscribes to what it
\* publishes, and if it does so for a flag, because an entry publishes the topic as well; after
\* two times, the other host subscribes to what it publishes too.
Carried(x) ==
  /\ x = Hop(x.at, x.channel, x.id, x.hops)
  /\ x.at \in Host /\ x.id \in Ids /\ x.hops \in 0 .. MaxHops - 1
  /\ x.hops >= 1 => BothDirections(x.at) # {} /\ SentBack(x.at, x.channel)
  /\ x.hops >= 2 => BothDirections(Peer(x.at)) # {}
  /\ x.channel \in Byte /\ x.channel # SERVICE_ACTION
  /\ \/ \E s \in config[x.at].subscriber : s.channel = x.channel
     \/ x.channel = CLOCK /\ config[x.at].subscribeClock

\* What is on its way to h comes from the other host, and from nothing but what was published.
TopicOk(h, x, m) ==
  /\ x \in sent /\ x.at = Peer(h) /\ Carried(x)
  /\ m.channel = x.channel
  /\ Readable(m) = {fromSerializedMessage(x.channel, Payload(x.id))}

\* A request, or its cancellation, is about a call of the other host.
RequestOk(h, m) ==
  \A r \in fromMessage(m) : r.opCode \in ToClient =>
    LET i == r.gid[1]
    IN  /\ i \in Calls /\ call[i].stage # "none" /\ call[i].at = Peer(h)
        /\ call[i].kind = ClientKind(r.opCode) /\ call[i].channel = r.serviceActionChannel

\* A frame to h carries a message of a topic, or is about a call.
FrameOk(h, f) ==
  LET m == fromFlatBuffer(f.bytes)
  IN  TopicOk(h, f.hop, m) \/ (m.channel = SERVICE_ACTION /\ RequestOk(h, m))

\* A callback has the bytes that were published.
ReadyOk(c) ==
  Carried(c.hop) /\ c.message = fromSerializedMessage(c.hop.channel, Payload(c.hop.id))

\* Every message of a topic is in order, wherever it is on its way.
Topics ==
  /\ published \in 0 .. given.messages
  /\ \A c \in ready : ReadyOk(c)
  /\ \A h \in Host : /\ \A x \in Entries(toPublish[h]) : TopicOk(h, x.hop, x.message)
                     /\ \A x \in Entries(threaded[h]) : TopicOk(h, x.hop, x.message)

\* So is every frame, and every message about a call that was read from one.
Frames ==
  \A h \in Host : /\ \A f \in Entries(wire[h]) : FrameOk(h, f)
                  /\ \A m \in Entries(toHandle[h]) : RequestOk(h, m)

\* What a call and its counterpart on the other host are made of.
Stage == {"none", "ready", "blocked", "answered", "done"}
CallRecord == [stage : Stage, at : Host, kind : Kind, channel : Nat]
RemoteRecord == [stage : {"none", "asking", "reply", "done"}, kind : Kind, channel : Nat]

\* A call is one of a plug-in of its host, and those that hold a thread have one.
CallsOk ==
  /\ call \in [Calls -> CallRecord]
  /\ \A i \in Calls : call[i].stage # "none" =>
       \E s \in config[call[i].at].server[call[i].kind] : s.channel = call[i].channel
  /\ \A h \in Host : Cardinality(Holding(h)) \in 0 .. config[h].threads

\* The other host does something only for a call that was made, with the plug-in for it.
RemoteOk ==
  /\ remote \in [Calls -> RemoteRecord]
  /\ \A i \in Calls : remote[i].stage # "none" => call[i].stage # "none"
  /\ CallMeetsCounterpart

\* What a publisher has published: TypeOK, Intact and LoopNeedsBoth of one message.
Delivery(d) ==
  /\ d.at \in Host /\ d.id \in Ids /\ d.hops \in 1 .. MaxHops
  /\ d.data = Payload(d.id)
  /\ \E p \in config[d.at].publisher : p.channel = d.channel /\ p.topic = d.topic
  /\ Hop(Peer(d.at), d.channel, d.id, d.hops - 1) \in sent
  /\ \/ \E s \in config[Peer(d.at)].subscriber : s.channel = d.channel
     \/ d.channel = CLOCK /\ config[Peer(d.at)].subscribeClock
  /\ d.hops >= 3 => \A h \in Host : BothDirections(h) # {}
  /\ d.topic \in PredefinedTopics /\ d.hops >= 2 => Ordinary(Peer(d.at), d.topic) # {}

\* All that was published by publishers.
Deliveries == \A d \in delivered : Delivery(d)

\* The state of a host, and what it runs with before it is up.
Started ==
  /\ AcceptedInv /\ (\A h \in Host : ~Up(h) => config[h] = NoConfig)
  /\ state \in [Host -> {"down", "up", "refused"}]

\* The inductive invariant behind TypeOK, Faithful, LoopNeedsBoth and StarvationNeedsOverlap.
HostsInv == Started /\ Quiet /\ Queues /\ Topics /\ Frames /\ CallsOk /\ RemoteOk /\ Deliveries

\* The number of the executor's threads, when there is one.
LEMMA ThreadNumber ==
  ASSUME given \in Candidates, NEW h \in Host, NumberOfThreads(h) >= 1
  PROVE  /\ NumberOfThreads(h) \in Nat
         /\ \A list \in Threadable(given.param[h]) :
              IsFiniteSet({i \in DOMAIN list : list[i].useOwnThread}) /\ OwnThreads(list) \in Nat
         /\ NumberOfThreads(h) >= 4 + OwnThreads(given.param[h].serviceServer)
                                    + OwnThreads(given.param[h].actionServer)
<1> DEFINE p == given.param[h]
<1>1. \A list \in Lists(p) : Len(list) \in Nat /\ DOMAIN list = 1 .. Len(list)
  BY ParameterAssumption
<1> HIDE DEF p
<1>2. ASSUME NEW list \in Threadable(p)
      PROVE  IsFiniteSet({i \in DOMAIN list : list[i].useOwnThread}) /\ OwnThreads(list) \in Nat
  <2>1. Len(list) \in Nat /\ DOMAIN list = 1 .. Len(list)
    BY <1>1 DEF Lists, Threadable
  <2> DEFINE T == {i \in DOMAIN list : list[i].useOwnThread}
  <2>2. IsFiniteSet(DOMAIN list)
    BY <2>1, FS_Interval
  <2>3. T \in SUBSET DOMAIN list
    OBVIOUS
  <2> HIDE DEF T
  <2>4. IsFiniteSet(T)
    BY <2>2, <2>3, FS_Subset
  <2>5. Cardinality(T) \in Nat
    BY <2>4, FS_CardinalityType
  <2> QED
    BY <2>4, <2>5 DEF OwnThreads, T
<1>3. Additional(p) \in Nat /\ Additional(p) >= OwnThreads(p.serviceServer) + OwnThreads(p.actionServer)
  <2>1. /\ OwnThreads(p.subscriber) \in Nat /\ OwnThreads(p.serviceServer) \in Nat
        /\ OwnThreads(p.serviceClient) \in Nat /\ OwnThreads(p.actionServer) \in Nat
        /\ OwnThreads(p.actionClient) \in Nat
    BY <1>2 DEF Threadable
  <2>2. One(p.publishClock) \in Nat /\ One(p.publishTf) \in Nat /\ One(p.subscribeTf) \in Nat
    BY DEF One
  <2> QED
    BY <2>1, <2>2 DEF Additional
<1>4. evalNrOfMultiThreadedExecutorThreads(p) = 4 + Additional(p)
  <2>1. NumberOfThreads(h) = evalNrOfMultiThreadedExecutorThreads(p) + (IF h = "server" THEN 1 ELSE 0)
    BY DEF NumberOfThreads, p
  <2>2. evalNrOfMultiThreadedExecutorThreads(p) # -1
    BY <2>1
  <2> QED
    BY <2>2, Zenon DEF evalNrOfMultiThreadedExecutorThreads
<1>5. NumberOfThreads(h) = (4 + Additional(p)) + (IF h = "server" THEN 1 ELSE 0)
  BY <1>4 DEF NumberOfThreads, p
<1>6. OwnThreads(p.serviceServer) \in Nat /\ OwnThreads(p.actionServer) \in Nat
  BY <1>2 DEF Threadable
<1>7. NumberOfThreads(h) \in Nat
      /\ NumberOfThreads(h) >= 4 + OwnThreads(p.serviceServer) + OwnThreads(p.actionServer)
  BY <1>3, <1>5, <1>6
<1> QED
  BY <1>2, <1>7 DEF p

\* What a host that is up has accepted, in the form the steps need it.
LEMMA ConfigFacts ==
  ASSUME AcceptedInv, NEW h \in Host, Up(h)
  PROVE  /\ \A s \in config[h].subscriber : s.channel \in Byte /\ s.channel # SERVICE_ACTION
         /\ \A s \in config[h].subscriber, t \in config[h].publisher :
              s.topic = t.topic => s.channel \notin Reserved
         /\ \A t \in config[h].subscriber \cup config[h].publisher :
              /\ t.channel \in Reserved <=> t.topic \in PredefinedTopics
              /\ t.channel \in Reserved => Standard(t)
         /\ \A kind \in Kind : \A s \in config[h].server[kind] \cup config[h].client[kind] :
              s.channel \in Nat
         /\ config[h].threads = NumberOfThreads(h) /\ config[h].threads \in Nat
<1> DEFINE p == given.param[h]
<1>1. config[h] = GlobalConfig(p, NumberOfThreads(h)) /\ NumberOfThreads(h) >= 1
  BY DEF AcceptedInv, Accepted
<1>2. initializeParameters(p, h = "server")
  BY Zenon DEF AcceptedInv, Accepted
<1>3. NumberOfThreads(h) \in Nat
  BY <1>1, ThreadNumber DEF AcceptedInv
<1> HIDE DEF p
<1>4. /\ config[h].subscriber = Subscribers(p) /\ config[h].publisher = Publishers(p)
      /\ config[h].server["service"] = Plugins(p, p.serviceServer)
      /\ config[h].client["service"] = Plugins(p, p.serviceClient)
      /\ config[h].server["action"] = Plugins(p, p.actionServer)
      /\ config[h].client["action"] = Plugins(p, p.actionClient)
      /\ config[h].threads = NumberOfThreads(h)
  BY <1>1 DEF GlobalConfig, Kind
<1>5. /\ FlagsOk(p)
      /\ \A i \in DOMAIN p.subscriber : SubscriberOk(p, i)
      /\ \A i \in DOMAIN p.publisher : PublisherOk(p, i)
  BY <1>2, Zenon DEF initializeParameters
<1>6. \A t \in config[h].subscriber \cup config[h].publisher :
        t.channel \in Reserved <=> t.topic \in PredefinedTopics
  BY AcceptedSound DEF AcceptedIsSound
<1>7. \A s \in config[h].subscriber : s.channel \in Byte /\ s.channel # SERVICE_ACTION
  BY <1>4, <1>5, TopicChannels
<1>8. \A s \in config[h].subscriber, t \in config[h].publisher :
        s.topic = t.topic => s.channel \notin Reserved
  BY <1>4, <1>5, <1>6, TopicChannels
<1>9. ASSUME NEW list \in {p.serviceServer, p.serviceClient, p.actionServer, p.actionClient},
             NEW s \in Plugins(p, list)
      PROVE  s.channel \in Nat
  <2>1. \A e \in Entries(list) : e.channel \in Byte
    BY <1>2, ListedPlugins
  <2>2. PICK e \in Entries(list) : s = Plugin(p, e)
    BY DEF Plugins
  <2>3. s.channel = ToByte(e.channel)
    BY <2>2 DEF Plugin
  <2>4. s.channel \in Byte
    BY <2>1, <2>3, ByteKept
  <2> QED
    BY <2>4 DEF Byte
<1>10. ASSUME NEW kind \in Kind, NEW s \in config[h].server[kind] \cup config[h].client[kind]
       PROVE  s.channel \in Nat
  BY <1>4, <1>9, <1>10 DEF Kind
<1>11. \A t \in config[h].subscriber \cup config[h].publisher : t.channel \in Reserved => Standard(t)
  BY <1>4, <1>5, TopicChannels
<1> QED
  BY <1>3, <1>4, <1>6, <1>7, <1>8, <1>10, <1>11

\* What nodes publish.
LEMMA Payloads ==
  \A n \in Nat : Payload(n) \in Seq(Nat) /\ Len(Payload(n)) = n
BY DEF Payload

\* The two kinds of frames hosts send, as they are read.
LEMMA TopicFrameRead ==
  ASSUME NEW channel \in Byte, NEW n \in Nat, NEW k, NEW works
  PROVE  LET m == fromSerializedMessage(channel, Payload(n))
             read == fromFlatBuffer(getCompressedCombinedVector(m, k, works))
         IN  read.channel = channel /\ Readable(read) = {m}
<1> DEFINE data == Payload(n)
           S == Nat \cup {[family |-> f, of |-> data] : f \in {"lz4", "zlib"}}
<1>1. data \in Seq(S)
  <2>1. Nat \subseteq S
    OBVIOUS
  <2> HIDE DEF S, data
  <2> QED
    BY <2>1, Payloads DEF data
<1>2. Byte \subseteq S /\ channel \in S
  BY DEF Byte
<1>3. \A f \in {"lz4", "zlib"} : [family |-> f, of |-> data] \in S
  OBVIOUS
<1> HIDE DEF S, data
<1> QED
  BY <1>1, <1>2, <1>3, ReadAsWritten DEF data

\* A request, its cancellation or an answer.
LEMMA CallFrameRead ==
  ASSUME NEW channel \in Nat, NEW op \in ServiceActionOpCode, NEW i \in Nat,
         NEW data \in {<<i>>, <<>>}, NEW k, NEW works
  PROVE  LET m == forServiceAction(channel, op, data, <<i>>)
             read == fromFlatBuffer(serviceActionCompressedVector(m, k, works))
         IN  /\ read.channel = SERVICE_ACTION
             /\ \A r \in fromMessage(read) :
                  r.serviceActionChannel = channel /\ r.opCode = op /\ r.gid[1] = i
<1> DEFINE S == Nat \cup {[family |-> f, of |-> data] : f \in {"lz4", "zlib"}}
           gid == <<i>>
<1>1. data \in Seq(S) /\ gid \in Seq(S) /\ Len(gid) \in 1 .. 255 /\ gid[1] = i
  <2>1. i \in S
    OBVIOUS
  <2> HIDE DEF S
  <2>2. gid \in Seq(S) /\ Len(gid) = 1 /\ gid[1] = i
    BY <2>1
  <2>3. <<>> \in Seq(S)
    OBVIOUS
  <2>4. 1 \in 1 .. 255
    OBVIOUS
  <2> QED
    BY <2>2, <2>3, <2>4, Zenon
<1>2. Byte \subseteq S /\ channel \in S
  BY DEF Byte
<1>3. \A f \in {"lz4", "zlib"} : [family |-> f, of |-> data] \in S
  OBVIOUS
<1> DEFINE m == forServiceAction(channel, op, data, gid)
           read == fromFlatBuffer(serviceActionCompressedVector(m, k, works))
<1>4. /\ read.channel = SERVICE_ACTION
      /\ \A r \in fromMessage(read) : r.serviceActionChannel = channel /\ r.opCode = op /\ r.gid = gid
  <2> HIDE DEF S, gid
  <2> QED
    BY <1>1, <1>2, <1>3, CallReadAsWritten
<1> HIDE DEF read
<1>5. /\ read.channel = SERVICE_ACTION
      /\ \A r \in fromMessage(read) : r.serviceActionChannel = channel /\ r.opCode = op /\ r.gid[1] = i
  BY <1>1, <1>4, Zenon
<1> QED
  BY <1>5 DEF read

\* A call whose stage is set to something stays what it is otherwise.
LEMMA StageSet ==
  ASSUME call \in [Calls -> CallRecord], NEW i, NEW stage \in Stage,
         call' = [call EXCEPT ![i].stage = stage]
  PROVE  /\ call' \in [Calls -> CallRecord]
         /\ \A j \in Calls :
              /\ call'[j].at = call[j].at /\ call'[j].kind = call[j].kind
              /\ call'[j].channel = call[j].channel
              /\ call'[j].stage = IF j = i THEN stage ELSE call[j].stage
BY DEF CallRecord

\* What every step but the start of a host keeps: a host's configuration, what has been sent, and
\* what a call is about.
Growth ==
  /\ UNCHANGED <<given, config, state>> /\ sent \subseteq sent'
  /\ \A i \in Calls : call[i].stage # "none" =>
       /\ call'[i].stage # "none" /\ call'[i].at = call[i].at
       /\ call'[i].kind = call[i].kind /\ call'[i].channel = call[i].channel

\* So what has been said of a message stays true of it.
LEMMA GrowthKeeps ==
  ASSUME Growth, NEW h
  PROVE  /\ \A x : Carried(x) => Carried(x)'
         /\ \A x, m : TopicOk(h, x, m) => TopicOk(h, x, m)'
         /\ \A m : RequestOk(h, m) => RequestOk(h, m)'
         /\ \A f : FrameOk(h, f) => FrameOk(h, f)'
<1>1. ASSUME NEW x, Carried(x) PROVE Carried(x)'
  BY <1>1 DEF Growth, Carried, SentBack, BothDirections, NamesOf, Ordinary
<1>2. ASSUME NEW x, NEW m, TopicOk(h, x, m) PROVE TopicOk(h, x, m)'
  BY <1>1, <1>2 DEF Growth, TopicOk
<1>3. ASSUME NEW m, RequestOk(h, m) PROVE RequestOk(h, m)'
  BY <1>3 DEF Growth, RequestOk
<1>4. ASSUME NEW f, FrameOk(h, f) PROVE FrameOk(h, f)'
  BY <1>2, <1>3, <1>4, Zenon DEF FrameOk
<1> QED
  BY <1>1, <1>2, <1>3, <1>4

\* What a server plug-in does to the call that waits for an answer.
LEMMA HandledCalls ==
  ASSUME CallsOk, NEW h, NEW m, NEW i, HandleAtServer(h, m, i)
  PROVE  \/ UNCHANGED call
         \/ /\ call' = [call EXCEPT ![i].stage = "answered"]
            /\ call[i].at = h /\ call[i].stage = "blocked"
BY DEF HandleAtServer

\* Every step but the start of a host is one of growth.
LEMMA GrowthStep ==
  ASSUME CallsOk, [Next]_vars, \A h \in Host : ~Start(h)
  PROVE  Growth
<1> SUFFICES ASSUME UNCHANGED <<given, config, state>> /\ sent \subseteq sent'
             PROVE  \A i \in Calls : call[i].stage # "none" =>
                      /\ call'[i].stage # "none" /\ call'[i].at = call[i].at
                      /\ call'[i].kind = call[i].kind /\ call'[i].channel = call[i].channel
  <2>1. ASSUME NEW h \in Host, Nodes(h) PROVE UNCHANGED <<given, config, state>> /\ sent \subseteq sent'
    BY <2>1 DEF Nodes, NodePublishes, ClockTick, NodeCalls, topicVars
  <2>2. ASSUME NEW h \in Host, RunExecutor(h) PROVE UNCHANGED <<given, config, state>> /\ sent \subseteq sent'
    BY <2>2 DEF RunExecutor, SubscriberCallback, Return, Execute, AnswerCallback, topicVars
  <2>3. ASSUME NEW h \in Host, processMessage(h) \/ RunManagers(h)
        PROVE  UNCHANGED <<given, config, state>> /\ sent \subseteq sent'
    BY <2>3 DEF processMessage, RunManagers, RunPublisherManager, RunServiceActionManager, topicVars
  <2>4. ASSUME NEW h \in Host, NEW k \in DOMAIN threaded[h], RunThreadedPublisher(h, k)
        PROVE  UNCHANGED <<given, config, state>> /\ sent \subseteq sent'
    BY <2>4 DEF RunThreadedPublisher
  <2>5. ASSUME NEW i \in Calls, Timeout(i) \/ RealAnswers(i)
        PROVE  UNCHANGED <<given, config, state>> /\ sent \subseteq sent'
    BY <2>5 DEF Timeout, RealAnswers, topicVars
  <2>6. ASSUME Done \/ UNCHANGED vars PROVE UNCHANGED <<given, config, state>> /\ sent \subseteq sent'
    BY <2>6 DEF Done, vars, topicVars
  <2> QED
    BY <2>1, <2>2, <2>3, <2>4, <2>5, <2>6 DEF Growth, Next
<1> DEFINE Same(i) == /\ call'[i].stage # "none" /\ call'[i].at = call[i].at
                      /\ call'[i].kind = call[i].kind /\ call'[i].channel = call[i].channel
<1> SUFFICES ASSUME NEW j \in Calls, call[j].stage # "none" PROVE Same(j)
  OBVIOUS
<1>0. call \in [Calls -> CallRecord]
  BY DEF CallsOk
<1>1. ASSUME UNCHANGED call PROVE Same(j)
  BY <1>1
<1>2. ASSUME NEW i, NEW stage \in Stage \ {"none"}, call' = [call EXCEPT ![i].stage = stage]
      PROVE  Same(j)
  <2>1. stage \in Stage /\ stage # "none"
    OBVIOUS
  <2>2. /\ call'[j].at = call[j].at /\ call'[j].kind = call[j].kind
        /\ call'[j].channel = call[j].channel
        /\ call'[j].stage = IF j = i THEN stage ELSE call[j].stage
    BY <1>0, <1>2, <2>1, StageSet
  <2> QED
    BY <2>1, <2>2
<1>3. {"ready", "blocked", "answered", "done"} \subseteq Stage \ {"none"}
  BY DEF Stage
<1>4. ASSUME NEW h \in Host, Nodes(h) PROVE Same(j)
  <2>1. CASE \E i \in Calls, kind \in Kind : \E s \in config[h].server[kind] : NodeCalls(i, h, kind, s)
    <3>1. PICK i \in Calls, kind \in Kind : \E s \in config[h].server[kind] : NodeCalls(i, h, kind, s)
      BY <2>1
    <3>2. PICK s : NodeCalls(i, h, kind, s)
      BY <3>1
    <3> QED
      BY <1>0, <3>2 DEF NodeCalls
  <2>2. CASE UNCHANGED call
    BY <1>1, <2>2
  <2> QED
    BY <1>4, <2>1, <2>2 DEF Nodes, NodePublishes, ClockTick, callVars
<1>5. ASSUME NEW h \in Host, RunExecutor(h) PROVE Same(j)
  <2>1. \/ UNCHANGED call
        \/ \E i \in Calls : \E stage \in {"blocked", "done"} : call' = [call EXCEPT ![i].stage = stage]
    BY <1>5 DEF RunExecutor, SubscriberCallback, Return, Execute, AnswerCallback, callVars
  <2> QED
    BY <1>1, <1>2, <1>3, <2>1
<1>6. ASSUME NEW h \in Host, processMessage(h) \/ RunPublisherManager(h) PROVE Same(j)
  BY <1>1, <1>6 DEF processMessage, RunPublisherManager, callVars
<1>7. ASSUME NEW h \in Host, RunServiceActionManager(h) PROVE Same(j)
  <2>1. \/ UNCHANGED call
        \/ \E m : HandleAtServer(h, m, m.gid[1])
    BY <1>7 DEF RunServiceActionManager
  <2>2. ASSUME NEW m, HandleAtServer(h, m, m.gid[1]) PROVE Same(j)
    BY <1>1, <1>2, <1>3, <2>2, HandledCalls
  <2> QED
    BY <1>1, <2>1, <2>2
<1>8. ASSUME NEW h \in Host, NEW k \in DOMAIN threaded[h], RunThreadedPublisher(h, k) PROVE Same(j)
  BY <1>1, <1>8 DEF RunThreadedPublisher, callVars
<1>9. ASSUME NEW i \in Calls, Timeout(i) \/ RealAnswers(i) PROVE Same(j)
  BY <1>1, <1>2, <1>3, <1>9 DEF Timeout, RealAnswers
<1>10. ASSUME Done \/ UNCHANGED vars PROVE Same(j)
  BY <1>1, <1>10 DEF Done, vars, callVars
<1> QED
  BY <1>4, <1>5, <1>6, <1>7, <1>8, <1>9, <1>10 DEF Next, RunManagers

\* Before both hosts are up, only they can start.
LEMMA NotBefore ==
  ASSUME Quiet, ~Connected, [Next]_vars, \A h \in Host : ~Start(h)
  PROVE  UNCHANGED vars
<1>1. /\ ready = {}
      /\ \A h \in Host : /\ wire[h] = <<>> /\ toPublish[h] = <<>>
                         /\ threaded[h] = <<>> /\ toHandle[h] = <<>>
      /\ \A i \in Calls : call[i].stage = "none" /\ remote[i].stage = "none"
  BY DEF Quiet
<1>2. ASSUME NEW h \in Host PROVE ~Nodes(h)
  BY DEF Nodes, NodePublishes, ClockTick, NodeCalls
<1>3. ASSUME NEW h \in Host PROVE ~RunExecutor(h)
  BY <1>1 DEF RunExecutor, Return, AnswerCallback
<1>4. ASSUME NEW h \in Host PROVE ~processMessage(h) /\ ~RunManagers(h)
  BY <1>1 DEF processMessage, RunManagers, RunPublisherManager, RunServiceActionManager
<1>5. ASSUME NEW h \in Host PROVE DOMAIN threaded[h] = {}
  BY <1>1
<1>6. ASSUME NEW i \in Calls PROVE ~Timeout(i) /\ ~RealAnswers(i)
  BY <1>1 DEF Timeout, RealAnswers
<1> QED
  BY <1>2, <1>3, <1>4, <1>5, <1>6 DEF Next, Done

\* Until both hosts are up, nothing happens.
LEMMA QuietKept == Quiet /\ CallsOk /\ [Next]_vars => Quiet'
<1> SUFFICES ASSUME Quiet, CallsOk, [Next]_vars, ~Connected' PROVE Quiet'
  BY DEF Quiet
<1> DEFINE data == <<published, ready, sent, delivered, wire, toPublish, threaded, toHandle, call, remote>>
<1>1. ASSUME ~Connected, UNCHANGED data PROVE Quiet'
  BY <1>1 DEF Quiet
<1>2. ASSUME NEW h \in Host, Start(h) PROVE Quiet'
  <2>1. ~Connected /\ UNCHANGED data
    BY <1>2 DEF Start, Connected, topicVars, callVars
  <2> QED
    BY <1>1, <2>1
<1>3. ASSUME \A h \in Host : ~Start(h) PROVE Quiet'
  <2>1. CASE Connected
    BY <1>3, <2>1, GrowthStep DEF Growth, Connected
  <2>2. CASE ~Connected
    <3>1. UNCHANGED data
      BY <1>3, <2>2, NotBefore DEF vars, topicVars, callVars
    <3> QED
      BY <1>1, <2>2, <3>1
  <2> QED
    BY <2>1, <2>2
<1> QED
  BY <1>2, <1>3

\* What a host runs with stays what it accepted.
LEMMA StartedKept == Started /\ CallsOk /\ [Next]_vars => Started'
<1> SUFFICES ASSUME Started, CallsOk, [Next]_vars PROVE Started'
  OBVIOUS
<1>1. AcceptedInv'
  BY AcceptedStep DEF Started
<1>2. ASSUME UNCHANGED <<given, config, state>> PROVE Started'
  BY <1>1, <1>2 DEF Started, Up
<1>3. ASSUME NEW h \in Host, Start(h) PROVE Started'
  <2>1. CASE NumberOfThreads(h) >= 1 /\ initializeParameters(given.param[h], h = "server")
    <3>1. /\ state' = [state EXCEPT ![h] = "up"]
          /\ \A k \in Host : k # h => config'[k] = config[k]
      <4>1. /\ state' = [state EXCEPT ![h] = "up"]
            /\ config' = [config EXCEPT ![h] = GlobalConfig(given.param[h], NumberOfThreads(h))]
        BY <1>3, <2>1, Zenon DEF Start
      <4>2. config = [k \in Host |-> config[k]]
        BY DEF Started, AcceptedInv
      <4> QED
        BY <4>1, <4>2, Zenon
    <3> QED
      BY <1>1, <3>1 DEF Started, Up
  <2>2. CASE ~(NumberOfThreads(h) >= 1 /\ initializeParameters(given.param[h], h = "server"))
    <3>1. state' = [state EXCEPT ![h] = "refused"] /\ config' = config /\ state[h] = "down"
      BY <1>3, <2>2, Zenon DEF Start
    <3> QED
      BY <1>1, <3>1 DEF Started, Up
  <2> QED
    BY <2>1, <2>2
<1>4. ASSUME \A h \in Host : ~Start(h) PROVE Started'
  BY <1>2, <1>4, GrowthStep DEF Growth
<1> QED
  BY <1>3, <1>4

\* A host has a number of threads, and none before it is up.
LEMMA Threads == Started => \A k \in Host : config[k].threads \in Nat
<1> SUFFICES ASSUME Started, NEW h \in Host PROVE config[h].threads \in Nat
  OBVIOUS
<1>1. CASE Up(h)
  BY <1>1, ConfigFacts DEF Started
<1>2. CASE ~Up(h)
  BY <1>2 DEF Started, NoConfig
<1> QED
  BY <1>1, <1>2

\* A host's queue gets one more message, loses its first, or gives out its n-th.
LEMMA PutIn ==
  ASSUME NEW f, Queued(f), NEW k \in Host, NEW x, NEW g, \A h \in Host : h # k => g[h] = f[h],
         IsQueue(g[k]), Entries(g[k]) = Entries(f[k]) \cup {x}
  PROVE  \A h \in Host : /\ IsQueue(g[h])
                         /\ \A y \in Entries(g[h]) : y \in Entries(f[h]) \/ (h = k /\ y = x)
BY DEF Queued

\* It loses its first message.
LEMMA TakenOff ==
  ASSUME NEW f, Queued(f), NEW k \in Host, f[k] # <<>>, NEW g, g = [h \in Host |-> g[h]],
         \A h \in Host : g[h] = IF h = k THEN Tail(f[h]) ELSE f[h]
  PROVE  /\ Queued(g) /\ Head(f[k]) \in Entries(f[k])
         /\ \A h \in Host : Entries(g[h]) \subseteq Entries(f[h])
<1>1. ASSUME NEW h \in Host PROVE IsQueue(g[h]) /\ Entries(g[h]) \subseteq Entries(f[h])
  <2>1. IsQueue(f[h]) /\ g[h] = IF h = k THEN Tail(f[h]) ELSE f[h]
    BY Zenon DEF Queued
  <2> QED
    BY <2>1, QueueShrinks
<1>2. Head(f[k]) \in Entries(f[k])
  BY QueueShrinks DEF Queued
<1> QED
  BY <1>1, <1>2, Zenon DEF Queued

\* It gives out one of its messages.
LEMMA GivenOut ==
  ASSUME NEW f, Queued(f), NEW k \in Host, NEW g, \A h \in Host : h # k => g[h] = f[h],
         IsQueue(g[k]), Entries(g[k]) \subseteq Entries(f[k])
  PROVE  \A h \in Host : IsQueue(g[h]) /\ Entries(g[h]) \subseteq Entries(f[h])
BY DEF Queued

\* A message is sent to the other host.
LEMMA FrameSent ==
  ASSUME Queued(wire), NEW h \in Host, NEW frame, SendFrame(h, frame)
  PROVE  /\ Queued(wire)'
         /\ \A k \in Host : \A f \in Entries(wire'[k]) :
              f \in Entries(wire[k]) \/ (k = Peer(h) /\ f = frame)
<1> DEFINE w == wire
           n == wire'
           p == Peer(h)
<1>1. p \in Host
  BY DEF Host, Peer
<1>2. n = [k \in Host |-> n[k]] /\ n[p] = Append(w[p], frame) /\ \A k \in Host : k # p => n[k] = w[k]
  BY <1>1, Zenon DEF SendFrame, Queued
<1> HIDE DEF w, n, p
<1>3. Queued(w)
  BY DEF w
<1>4. IsQueue(n[p]) /\ Entries(n[p]) = Entries(w[p]) \cup {frame}
  <2> DEFINE q == w[p]
             r == n[p]
  <2>1. IsQueue(q) /\ r = Append(q, frame)
    BY <1>1, <1>2, <1>3 DEF Queued
  <2> HIDE DEF q, r
  <2>2. IsQueue(r) /\ Entries(r) = Entries(q) \cup {frame}
    BY <2>1, QueueGrows
  <2> QED
    BY <2>2 DEF q, r
<1>5. \A k \in Host : /\ IsQueue(n[k])
                      /\ \A f \in Entries(n[k]) : f \in Entries(w[k]) \/ (k = p /\ f = frame)
  <2>1. \A k \in Host : k # p => n[k] = w[k]
    BY <1>2, Zenon
  <2> QED
    BY <1>1, <1>3, <1>4, <2>1, PutIn
<1> QED
  BY <1>2, <1>5, Zenon DEF Queued, w, n, p

\* The parts of the invariant after a step that keeps what has been said of messages.
LEMMA FramesStep ==
  ASSUME Growth, Frames,
         \A h \in Host : /\ \A f \in Entries(wire'[h]) : f \in Entries(wire[h]) \/ FrameOk(h, f)'
                         /\ \A m \in Entries(toHandle'[h]) : m \in Entries(toHandle[h]) \/ RequestOk(h, m)'
  PROVE  Frames'
BY GrowthKeeps, Zenon DEF Frames

\* The messages of topics, once the new ones are in order.
LEMMA TopicsStep ==
  ASSUME Growth, Topics, published' \in 0 .. given'.messages,
         \A c \in ready' : c \in ready \/ ReadyOk(c),
         \A h \in Host :
           /\ \A x \in Entries(toPublish'[h]) : x \in Entries(toPublish[h]) \/ TopicOk(h, x.hop, x.message)'
           /\ \A x \in Entries(threaded'[h]) : x \in Entries(threaded[h]) \/ TopicOk(h, x.hop, x.message)'
  PROVE  Topics'
<1>1. ASSUME NEW c \in ready' PROVE ReadyOk(c)'
  <2>1. ReadyOk(c)
    BY DEF Topics
  <2> QED
    BY <2>1, GrowthKeeps DEF ReadyOk
<1>2. ASSUME NEW h \in Host, NEW x \in Entries(toPublish'[h]) PROVE TopicOk(h, x.hop, x.message)'
  BY GrowthKeeps, Zenon DEF Topics
<1>3. ASSUME NEW h \in Host, NEW x \in Entries(threaded'[h]) PROVE TopicOk(h, x.hop, x.message)'
  BY GrowthKeeps, Zenon DEF Topics
<1> QED
  BY <1>1, <1>2, <1>3, Zenon DEF Topics

\* What was published, once the new ones are in order.
LEMMA DeliveriesStep ==
  ASSUME Growth, Deliveries, \A d \in delivered' : d \in delivered \/ Delivery(d)
  PROVE  Deliveries'
<1>1. ASSUME NEW d, Delivery(d) PROVE Delivery(d)'
  BY <1>1 DEF Growth, Delivery, BothDirections, NamesOf, Ordinary
<1> QED
  BY <1>1 DEF Deliveries

\* When a host starts, nothing has happened yet.
LEMMA StartKept ==
  ASSUME HostsInv, Started', NEW h \in Host, Start(h)
  PROVE  Queues' /\ Topics' /\ Frames' /\ CallsOk' /\ RemoteOk' /\ Deliveries'
<1>1. ~Connected /\ UNCHANGED <<given, wire, topicVars, callVars>>
  BY DEF Start, Connected
<1>2. UNCHANGED <<given, published, ready, sent, delivered, wire, toPublish, threaded, toHandle, call, remote>>
  BY <1>1 DEF topicVars, callVars
<1>3. /\ published = 0 /\ ready = {} /\ delivered = {}
      /\ \A k \in Host : /\ wire[k] = <<>> /\ toPublish[k] = <<>>
                         /\ threaded[k] = <<>> /\ toHandle[k] = <<>>
      /\ \A i \in Calls : call[i].stage = "none" /\ remote[i].stage = "none"
  BY <1>1 DEF HostsInv, Quiet
<1>4. Queues'
  BY <1>2 DEF HostsInv, Queues, Queued
<1>5. Topics'
  BY <1>2, <1>3, EmptyQueue DEF HostsInv, Topics
<1>6. Frames'
  BY <1>2, <1>3, EmptyQueue DEF Frames
<1>7. CallsOk'
  <2>1. (\A k \in Host : config[k].threads \in Nat)'
    <3>1. Started' => (\A k \in Host : config[k].threads \in Nat)'
      BY Threads, PTL
    <3> QED
      BY <3>1
  <2>2. \A k \in Host : Holding(k)' = {}
    BY <1>2, <1>3 DEF Holding
  <2>3. \A k \in Host : Cardinality(Holding(k)') \in 0 .. config'[k].threads
    BY <2>1, <2>2, FS_EmptySet
  <2>4. call \in [Calls -> CallRecord]
    BY DEF HostsInv, CallsOk
  <2> QED
    BY <1>2, <1>3, <2>3, <2>4 DEF CallsOk
<1>8. RemoteOk'
  BY <1>2, <1>3 DEF HostsInv, RemoteOk, CallMeetsCounterpart
<1>9. Deliveries'
  BY <1>2, <1>3 DEF Deliveries
<1> QED
  BY <1>4, <1>5, <1>6, <1>7, <1>8, <1>9

\* The two hosts.
LEMMA Peers == \A h \in Host : Peer(h) \in Host /\ Peer(Peer(h)) = h /\ Host = {h, Peer(h)} /\ Peer(h) # h
BY DEF Host, Peer

\* What the executor of h has to run after a message was published on a topic there.
LEMMA NewCallbacks ==
  ASSUME Started, NEW h \in Host, Up(h), NEW name, NEW n \in Ids, NEW hops \in 0 .. MaxHops - 1,
         hops >= 1 => \E p \in config[h].publisher : FullName(h, p.topic) = name,
         hops >= 2 => BothDirections(Peer(h)) # {},
         NEW c \in CallbacksOf(h, name, Payload(n), n, hops)
  PROVE  ReadyOk(c)
<1>1. PICK s \in config[h].subscriber :
        /\ FullName(h, s.topic) = name
        /\ c = Under(Hop(h, s.channel, n, hops), fromSerializedMessage(s.channel, Payload(n)))
  BY DEF CallbacksOf
<1> DEFINE x == Hop(h, s.channel, n, hops)
<1>2. c.hop = x /\ c.message = fromSerializedMessage(s.channel, Payload(n))
  BY <1>1 DEF Under
<1>3. x.at = h /\ x.channel = s.channel /\ x.id = n /\ x.hops = hops
  BY DEF Hop
<1> HIDE DEF x
<1>4. s.channel \in Byte /\ s.channel # SERVICE_ACTION
  BY ConfigFacts DEF Started
<1>5. ASSUME hops >= 1 PROVE BothDirections(h) # {} /\ SentBack(h, s.channel)
  <2>1. PICK p \in config[h].publisher : FullName(h, p.topic) = FullName(h, s.topic)
    BY <1>1, <1>5
  <2>2. BothDirections(h) # {}
    BY <2>1 DEF BothDirections, NamesOf
  <2>3. ASSUME s.channel \in Reserved PROVE Ordinary(h, s.topic) # {}
    <3>1. s.topic \in PredefinedTopics /\ FullName(h, s.topic) = s.topic
      BY <2>3, ConfigFacts, NameAssumption DEF Started
    <3>2. ASSUME p.channel \in Reserved PROVE FALSE
      <4>1. p.topic \in PredefinedTopics /\ FullName(h, p.topic) = p.topic
        BY <3>2, ConfigFacts, NameAssumption DEF Started
      <4> QED
        BY <2>1, <2>3, <3>1, <4>1, ConfigFacts DEF Started
    <3> QED
      BY <2>1, <3>1, <3>2 DEF Ordinary
  <2> QED
    BY <2>2, <2>3 DEF SentBack
<1>6. Carried(x)
  <2>1. x = Hop(x.at, x.channel, x.id, x.hops)
    BY <1>3 DEF x
  <2> QED
    BY <1>1, <1>3, <1>4, <1>5, <2>1 DEF Carried
<1> QED
  BY <1>2, <1>3, <1>6 DEF ReadyOk

\* What a publisher does with a message that has been sent to it.
LEMMA Published ==
  ASSUME Started, Connected, NEW h \in Host, NEW p \in config[h].publisher,
         NEW hop \in sent, hop.at = Peer(h), Carried(hop), p.channel = hop.channel,
         NEW m, m.data = Payload(hop.id), rosPublish(h, p, hop, m)
  PROVE  /\ \A c \in ready' : c \in ready \/ ReadyOk(c)
         /\ \A d \in delivered' : d \in delivered \/ Delivery(d)
<1> DEFINE hops == hop.hops + 1
           new == [at |-> h, topic |-> p.topic, channel |-> p.channel, id |-> hop.id,
                   hops |-> hops, data |-> m.data]
<1>1. /\ Up(h) /\ hop = Hop(Peer(h), p.channel, hop.id, hop.hops) /\ hop.id \in Ids
      /\ hop.hops \in 0 .. MaxHops - 1 /\ hops - 1 = hop.hops /\ MaxHops \in Nat
      /\ hop.hops >= 1 => BothDirections(Peer(h)) # {} /\ SentBack(Peer(h), p.channel)
      /\ hop.hops >= 2 => BothDirections(h) # {}
  BY Peers, BoundAssumption DEF Carried, Connected, Up
<1>2. Delivery(new)
  <2>1. /\ new.at = h /\ new.topic = p.topic /\ new.channel = p.channel /\ new.id = hop.id
        /\ new.hops = hops /\ new.data = Payload(hop.id)
    OBVIOUS
  <2> HIDE DEF new
  <2>2. hops \in 1 .. MaxHops /\ (hops >= 3 => hop.hops >= 2) /\ (hops >= 2 => hop.hops >= 1)
    BY <1>1
  <2>3. ASSUME p.topic \in PredefinedTopics, hops >= 2 PROVE Ordinary(Peer(h), p.topic) # {}
    <3>1. SentBack(Peer(h), p.channel)
      BY <1>1, <2>2, <2>3
    <3>2. p.channel \in Reserved /\ Standard(p)
      BY <1>1, <2>3, ConfigFacts DEF Started
    <3>3. PICK s \in config[Peer(h)].subscriber : s.channel = p.channel /\ Ordinary(Peer(h), s.topic) # {}
      BY <3>1, <3>2 DEF SentBack
    <3>4. Standard(s)
      BY <3>2, <3>3, Peers, ConfigFacts DEF Started, Connected, Up
    <3> QED
      BY <3>2, <3>3, <3>4, StandardTopic
  <2>4. hops >= 3 => \A k \in Host : BothDirections(k) # {}
    BY <1>1, <2>2, Peers
  <2>5. Hop(Peer(h), p.channel, hop.id, hops - 1) \in sent
    BY <1>1
  <2>6. \/ \E s \in config[Peer(h)].subscriber : s.channel = p.channel
        \/ p.channel = CLOCK /\ config[Peer(h)].subscribeClock
    BY DEF Carried
  <2> HIDE DEF hops
  <2> QED
    BY <1>1, <2>1, <2>2, <2>3, <2>4, <2>5, <2>6, Zenon DEF Delivery
<1>3. \A d \in delivered' : d \in delivered \/ d = new
  BY DEF rosPublish
<1>4. ASSUME NEW c \in ready', c \notin ready PROVE ReadyOk(c)
  <2>1. hops < MaxHops /\ c \in CallbacksOf(h, FullName(h, p.topic), Payload(hop.id), hop.id, hops)
    <3>1. CASE hops < MaxHops
      BY <1>4, <3>1 DEF rosPublish
    <3>2. CASE ~(hops < MaxHops)
      BY <1>4, <3>2 DEF rosPublish
    <3> QED
      BY <3>1, <3>2
  <2>2. hops \in 0 .. MaxHops - 1 /\ (hops >= 2 => BothDirections(Peer(h)) # {})
    BY <1>1, <2>1
  <2>3. \E q \in config[h].publisher : FullName(h, q.topic) = FullName(h, p.topic)
    OBVIOUS
  <2> HIDE DEF hops
  <2> QED
    BY <1>1, <2>1, <2>2, <2>3, NewCallbacks
<1> QED
  BY <1>2, <1>3, <1>4

\* The frames hosts send are in order.
TopicFramesOk ==
  \A h \in Host : \A x, k, works :
    x \in sent /\ x.at = h /\ Carried(x) =>
      FrameOk(Peer(h), Frame(getCompressedCombinedVector(
                         fromSerializedMessage(x.channel, Payload(x.id)), k, works), x))

\* They are, since they are read as they were written.
LEMMA TopicFrame == TopicFramesOk
<1> SUFFICES ASSUME NEW h \in Host, NEW x \in sent, NEW k, NEW works, x.at = h, Carried(x)
             PROVE  FrameOk(Peer(h), Frame(getCompressedCombinedVector(
                              fromSerializedMessage(x.channel, Payload(x.id)), k, works), x))
  BY DEF TopicFramesOk
<1> DEFINE bytes == getCompressedCombinedVector(fromSerializedMessage(x.channel, Payload(x.id)), k, works)
           read == fromFlatBuffer(bytes)
<1>1. x.channel \in Byte /\ x.id \in Nat
  BY BoundAssumption DEF Carried, Ids
<1>2. read.channel = x.channel /\ Readable(read) = {fromSerializedMessage(x.channel, Payload(x.id))}
  BY <1>1, TopicFrameRead
<1> HIDE DEF bytes
<1>3. Frame(bytes, x).bytes = bytes /\ Frame(bytes, x).hop = x
  BY DEF Frame
<1>4. x.at = Peer(Peer(h))
  BY Peers
<1>5. TopicOk(Peer(h), x, read)
  BY <1>2, <1>4, Zenon DEF TopicOk
<1>6. FrameOk(Peer(h), Frame(bytes, x))
  BY <1>3, <1>5, Zenon DEF FrameOk
<1> QED
  BY <1>6 DEF bytes

\* A clock's message is not compressed, nor is that of a shared subscriber.
LEMMA Uncompressed ==
  \A m, works : getCombinedVector(m) = getCompressedCombinedVector(m, NONE, works)
BY DEF getCompressedCombinedVector, Compress, LZ4_DEFAULT, LZ4_HC, ZLIB, NONE

\* The frames of requests and cancellations are in order.
RequestFramesOk ==
  \A h \in Host, i \in Calls, channel \in Nat, op \in ToClient : \A data \in {<<i>>, <<>>} :
    \A k, works, hop :
      /\ call[i].at = h /\ call[i].stage # "none"
      /\ call[i].kind = ClientKind(op) /\ call[i].channel = channel
      => FrameOk(Peer(h), Frame(serviceActionCompressedVector(
                   forServiceAction(channel, op, data, <<i>>), k, works), hop))

\* They are: the call they are about is found in their extended header.
LEMMA RequestFrame == RequestFramesOk
<1> SUFFICES ASSUME NEW h \in Host, NEW i \in Calls, NEW channel \in Nat, NEW op \in ToClient,
                    NEW data \in {<<i>>, <<>>}, NEW k, NEW works, NEW hop,
                    call[i].at = h, call[i].stage # "none",
                    call[i].kind = ClientKind(op), call[i].channel = channel
             PROVE  FrameOk(Peer(h), Frame(serviceActionCompressedVector(
                              forServiceAction(channel, op, data, <<i>>), k, works), hop))
  BY DEF RequestFramesOk
<1> DEFINE bytes == serviceActionCompressedVector(forServiceAction(channel, op, data, <<i>>), k, works)
           read == fromFlatBuffer(bytes)
<1>1. op \in ServiceActionOpCode /\ i \in Nat
  BY BoundAssumption DEF ToClient, ServiceActionOpCode, SERVICE_TO_CLIENT, SERVICE_TO_CLIENT_CANCEL,
         ACTION_TO_CLIENT_GOAL, ACTION_TO_CLIENT_CANCEL, Calls
<1>2. /\ read.channel = SERVICE_ACTION
      /\ \A r \in fromMessage(read) : r.serviceActionChannel = channel /\ r.opCode = op /\ r.gid[1] = i
  BY <1>1, CallFrameRead
<1> HIDE DEF bytes
<1>3. Frame(bytes, hop).bytes = bytes
  BY DEF Frame
<1>4. call[i].at = Peer(Peer(h))
  BY Peers
<1>5. RequestOk(Peer(h), read)
  BY <1>2, <1>4, Zenon DEF RequestOk
<1>6. FrameOk(Peer(h), Frame(bytes, hop))
  BY <1>2, <1>3, <1>5, Zenon DEF FrameOk
<1> QED
  BY <1>6 DEF bytes

\* The frames of answers are in order.
AnswerFramesOk ==
  \A h \in Host, i \in Calls, channel \in Nat, op \in ServiceActionOpCode \ ToClient : \A k, works, hop :
    FrameOk(h, Frame(serviceActionCompressedVector(
                 forServiceAction(channel, op, <<i>>, <<i>>), k, works), hop))

\* They are: no client plug-in takes them for a request.
LEMMA AnswerFrame == AnswerFramesOk
<1> SUFFICES ASSUME NEW h \in Host, NEW i \in Calls, NEW channel \in Nat,
                    NEW op \in ServiceActionOpCode \ ToClient, NEW k, NEW works, NEW hop
             PROVE  FrameOk(h, Frame(serviceActionCompressedVector(
                              forServiceAction(channel, op, <<i>>, <<i>>), k, works), hop))
  BY DEF AnswerFramesOk
<1> DEFINE bytes == serviceActionCompressedVector(forServiceAction(channel, op, <<i>>, <<i>>), k, works)
           read == fromFlatBuffer(bytes)
<1>1. i \in Nat /\ <<i>> \in {<<i>>, <<>>}
  BY BoundAssumption DEF Calls
<1>2. read.channel = SERVICE_ACTION /\ \A r \in fromMessage(read) : r.opCode = op
  BY <1>1, CallFrameRead
<1> HIDE DEF bytes
<1>3. Frame(bytes, hop).bytes = bytes
  BY DEF Frame
<1>4. FrameOk(h, Frame(bytes, hop))
  BY <1>2, <1>3, Zenon DEF FrameOk, RequestOk
<1> QED
  BY <1>4 DEF bytes

----------------------------------------------------------------------------
(* The steps, for each part of the invariant.                              *)

\* What is sent about a call.
LEMMA Requested ==
  ASSUME HostsInv, Connected, UNCHANGED config, NEW i \in Calls, call[i].stage # "none",
         NEW h, call[i].at = h, NEW kind, call[i].kind = kind, NEW channel, call[i].channel = channel,
         NEW data \in {<<i>>, <<>>}, NEW op \in {RequestOp(kind), CancelOp(kind)}, NEW works,
         Send(h, ServerOf(i), op, i, data, works),
         call'[i].stage # "none", call'[i].at = h, call'[i].kind = kind, call'[i].channel = channel
  PROVE  \E frame : SendFrame(h, frame) /\ FrameOk(Peer(h), frame)'
<1>1. /\ h \in Host /\ kind \in Kind /\ channel \in Nat
      /\ \E s \in config[h].server[kind] : s.channel = channel
  BY DEF HostsInv, CallsOk, CallRecord
<1>2. ServerOf(i).channel = channel
  BY <1>1, Zenon DEF ServerOf
<1>3. op \in ToClient /\ ClientKind(op) = kind
  <2>1. CASE kind = "service"
    BY <2>1 DEF RequestOp, CancelOp, ToClient, ClientKind
  <2>2. CASE kind = "action"
    <3>1. op \in {ACTION_TO_CLIENT_GOAL, ACTION_TO_CLIENT_CANCEL}
      BY <2>2 DEF RequestOp, CancelOp
    <3> QED
      BY <2>2, <3>1 DEF ToClient, ClientKind, SERVICE_TO_CLIENT, SERVICE_TO_CLIENT_CANCEL,
                        ACTION_TO_CLIENT_GOAL, ACTION_TO_CLIENT_CANCEL
  <2> QED
    BY <1>1, <2>1, <2>2 DEF Kind
<1>4. PICK k : k = ServerOf(i).compressor
  OBVIOUS
<1> DEFINE frame == Frame(serviceActionCompressedVector(
                      forServiceAction(channel, op, data, <<i>>), k, works), Hop(h, SERVICE_ACTION, 0, 0))
<1>5. SendFrame(h, frame)
  BY <1>2, <1>4, Zenon DEF Send
<1>6. RequestFramesOk'
  BY RequestFrame, PTL
<1>7. FrameOk(Peer(h), frame)'
  BY <1>1, <1>3, <1>6 DEF RequestFramesOk
<1> HIDE DEF frame
<1> QED
  BY <1>5, <1>7

\* The frames on their way after a step.
LEMMA WireStep ==
  ASSUME HostsInv, Connected, Growth, [Next]_vars, \A h \in Host : ~Start(h)
  PROVE  /\ Queued(wire)'
         /\ \A h \in Host : \A f \in Entries(wire'[h]) : f \in Entries(wire[h]) \/ FrameOk(h, f)'
<1> DEFINE Kept == /\ Queued(wire)'
                   /\ \A h \in Host : \A f \in Entries(wire'[h]) :
                        f \in Entries(wire[h]) \/ FrameOk(h, f)'
<1> SUFFICES Kept
  OBVIOUS
<1>0. Queued(wire)
  BY DEF HostsInv, Queues
<1>1. ASSUME UNCHANGED wire PROVE Kept
  BY <1>0, <1>1 DEF Queued
<1>2. ASSUME NEW h \in Host, \E frame : SendFrame(h, frame) /\ FrameOk(Peer(h), frame)' PROVE Kept
  <2>1. PICK frame : SendFrame(h, frame) /\ FrameOk(Peer(h), frame)'
    BY <1>2
  <2>2. /\ Queued(wire)'
        /\ \A k \in Host : \A f \in Entries(wire'[k]) : f \in Entries(wire[k]) \/ (k = Peer(h) /\ f = frame)
    BY <1>0, <2>1, FrameSent
  <2> QED
    BY <2>1, <2>2, Zenon
<1>3. ASSUME NEW h \in Host, NEW x, x \in sent', x.at = h, Carried(x)', NEW k, NEW works,
             SendFrame(h, Frame(getCompressedCombinedVector(
                            fromSerializedMessage(x.channel, Payload(x.id)), k, works), x))
      PROVE  Kept
  <2>1. TopicFramesOk'
    BY TopicFrame, PTL
  <2> QED
    BY <1>2, <1>3, <2>1 DEF TopicFramesOk
<1>4. ASSUME NEW h \in Host, ClockTick(h) PROVE Kept
  <2>0. PICK x : x = Hop(h, CLOCK, published', 0)
    OBVIOUS
  <2>1. x \in sent' /\ x.at = h /\ x.channel = CLOCK /\ x.id = published' /\ x.hops = 0
    BY <1>4, <2>0 DEF ClockTick, Hop
  <2>2. published' \in Ids /\ config'[h].subscribeClock
    <3>1. /\ published \in 0 .. given.messages /\ published < given.messages /\ published' = published + 1
          /\ given.messages \in 0 .. MaxMessages
      BY <1>4, BoundAssumption DEF ClockTick, HostsInv, Topics, Started, AcceptedInv
    <3> QED
      BY <1>4, <3>1, BoundAssumption DEF ClockTick, Ids
  <2>3. SendFrame(h, Frame(getCompressedCombinedVector(
                       fromSerializedMessage(CLOCK, Payload(published')), NONE, TRUE), x))
    BY <1>4, <2>0, Uncompressed, Zenon DEF ClockTick
  <2>4. x = Hop(x.at, x.channel, x.id, x.hops)
    BY <2>0, <2>1, Zenon
  <2>6. SendFrame(h, Frame(getCompressedCombinedVector(
                       fromSerializedMessage(x.channel, Payload(x.id)), NONE, TRUE), x))
    BY <2>1, <2>3, Zenon
  <2>5. Carried(x)'
    <3>1. 0 \in 0 .. MaxHops - 1 /\ CLOCK \in Byte /\ CLOCK # SERVICE_ACTION
      BY BoundAssumption DEF CLOCK, Byte, SERVICE_ACTION
    <3> QED
      <4>1. ~(x.hops >= 1) /\ ~(x.hops >= 2) /\ x.hops \in 0 .. MaxHops - 1
        BY <2>1, <3>1
      <4> QED
        BY <2>1, <2>2, <2>4, <3>1, <4>1, Zenon DEF Carried
  <2> QED
    BY <1>3, <2>1, <2>5, <2>6, Zenon
<1>5. ASSUME NEW h \in Host, NEW s \in config[h].subscriber, NEW c \in ready, NEW works,
             SubscriberCallback(h, s, c, works)
      PROVE  Kept
  <2>1. Carried(c.hop) /\ c.message = fromSerializedMessage(c.hop.channel, Payload(c.hop.id))
    BY DEF HostsInv, Topics, ReadyOk
  <2>2. Carried(c.hop)'
    BY <2>1, GrowthKeeps
  <2>3. c.hop \in sent' /\ c.hop.at = h
    BY <1>5 DEF SubscriberCallback
  <2>4. \E k : SendFrame(h, Frame(getCompressedCombinedVector(c.message, k, works), c.hop))
    <3>1. CASE s.useOwnThread
      BY <1>5, <3>1, Zenon DEF SubscriberCallback
    <3>2. CASE ~s.useOwnThread
      BY <1>5, <3>2, Uncompressed, Zenon DEF SubscriberCallback
    <3> QED
      BY <3>1, <3>2
  <2>5. PICK k : SendFrame(h, Frame(getCompressedCombinedVector(c.message, k, works), c.hop))
    BY <2>4
  <2> QED
    BY <1>3, <2>1, <2>2, <2>3, <2>5, Zenon
<1>6. ASSUME NEW i \in Calls, call[i].stage # "none", NEW data \in {<<i>>, <<>>},
             NEW op \in {RequestOp(call[i].kind), CancelOp(call[i].kind)}, NEW works,
             Send(call[i].at, ServerOf(i), op, i, data, works)
      PROVE  Kept
  <2>1. /\ call[i].at \in Host /\ call'[i].stage # "none" /\ call'[i].at = call[i].at
        /\ call'[i].kind = call[i].kind /\ call'[i].channel = call[i].channel
    BY <1>6 DEF Growth, HostsInv, CallsOk, CallRecord
  <2>2. UNCHANGED config
    BY DEF Growth
  <2>3. PICK h \in Host : \E kind, channel :
          call[i].at = h /\ call[i].kind = kind /\ call[i].channel = channel
    BY <2>1
  <2>6. PICK kind, channel : call[i].at = h /\ call[i].kind = kind /\ call[i].channel = channel
    BY <2>3
  <2>4. op \in {RequestOp(kind), CancelOp(kind)} /\ Send(h, ServerOf(i), op, i, data, works)
    BY <1>6, <2>6
  <2>5. \E frame : SendFrame(h, frame) /\ FrameOk(Peer(h), frame)'
    BY <1>6, <2>1, <2>2, <2>4, <2>6, Requested
  <2> QED
    BY <1>2, <2>5
<1>7. ASSUME NEW i \in Calls, NEW h \in Host, NEW c, NEW works, AnswerCallback(i, h, c, works) PROVE Kept
  <2>1. c.channel \in Nat
    BY <1>7 DEF AnswerCallback, HostsInv, RemoteOk, RemoteRecord
  <2>2. AnswerOp(remote[i].kind) \in ServiceActionOpCode \ ToClient
    BY DEF AnswerOp, ServiceActionOpCode, ToClient, SERVICE_TO_CLIENT, SERVICE_TO_CLIENT_CANCEL,
           ACTION_TO_CLIENT_GOAL, ACTION_TO_CLIENT_CANCEL, SERVICE_TO_SERVER, ACTION_TO_SERVER_GOAL_ACCEPT
  <2>3. AnswerFramesOk'
    BY AnswerFrame, PTL
  <2>4. \E k, hop : SendFrame(h, Frame(serviceActionCompressedVector(
          forServiceAction(c.channel, AnswerOp(remote[i].kind), <<i>>, <<i>>), k, works), hop))
    BY <1>7, Zenon DEF AnswerCallback, Send
  <2> QED
    BY <1>2, <2>1, <2>2, <2>3, <2>4, Peers DEF AnswerFramesOk
<1>8. ASSUME NEW h \in Host, processMessage(h) PROVE Kept
  <2>1. /\ wire[h] # <<>> /\ wire' = [k \in Host |-> wire'[k]]
        /\ \A k \in Host : wire'[k] = IF k = h THEN Tail(wire[k]) ELSE wire[k]
    BY <1>0, <1>8, Zenon DEF processMessage, Queued
  <2> DEFINE w == wire
             n == wire'
  <2>2. /\ Queued(w) /\ w[h] # <<>> /\ n = [k \in Host |-> n[k]]
        /\ \A k \in Host : n[k] = IF k = h THEN Tail(w[k]) ELSE w[k]
    BY <1>0, <2>1
  <2> HIDE DEF w, n
  <2>3. Queued(n) /\ \A k \in Host : Entries(n[k]) \subseteq Entries(w[k])
    BY <2>2, TakenOff, Zenon
  <2> QED
    BY <2>3 DEF w, n, Queued
<1>9. ASSUME NEW h \in Host, Nodes(h) PROVE Kept
  BY <1>1, <1>4, <1>9 DEF Nodes, NodePublishes, NodeCalls
<1>10. ASSUME NEW h \in Host, RunExecutor(h) PROVE Kept
  <2>1. CASE \E s \in config[h].subscriber, c \in ready : \E works : SubscriberCallback(h, s, c, works)
    BY <1>5, <2>1
  <2>2. CASE \E i \in Calls : Return(i)
    BY <1>1, <2>2 DEF Return
  <2>3. CASE \E i \in Calls : \E works : Execute(i, works)
    <3>1. PICK i \in Calls : \E works : Execute(i, works)
      BY <2>3
    <3>2. PICK works : Execute(i, works)
      BY <3>1
    <3>3. call[i].stage # "none" /\ Send(call[i].at, ServerOf(i), RequestOp(call[i].kind), i, <<i>>, works)
      BY <3>2 DEF Execute
    <3> QED
      BY <1>6, <3>3
  <2>4. CASE \E i \in Calls : \E c, works : AnswerCallback(i, h, c, works)
    BY <1>7, <2>4
  <2> QED
    BY <1>10, <2>1, <2>2, <2>3, <2>4 DEF RunExecutor
<1>11. ASSUME NEW h \in Host, RunManagers(h) PROVE Kept
  BY <1>1, <1>11 DEF RunManagers, RunPublisherManager, RunServiceActionManager
<1>12. ASSUME NEW h \in Host, NEW k \in DOMAIN threaded[h], RunThreadedPublisher(h, k) PROVE Kept
  BY <1>1, <1>12 DEF RunThreadedPublisher
<1>13. ASSUME NEW i \in Calls, Timeout(i) \/ RealAnswers(i) PROVE Kept
  <2>1. CASE Timeout(i)
    <3>1. /\ call[i].stage # "none"
          /\ Send(call[i].at, ServerOf(i), CancelOp(call[i].kind), i, <<>>, FALSE)
      BY <2>1 DEF Timeout
    <3> QED
      BY <1>6, <3>1
  <2>2. CASE RealAnswers(i)
    BY <1>1, <2>2 DEF RealAnswers
  <2> QED
    BY <1>13, <2>1, <2>2
<1>14. ASSUME Done \/ UNCHANGED vars PROVE Kept
  BY <1>1, <1>14 DEF Done, vars
<1> HIDE DEF Kept
<1> QED
  BY <1>8, <1>9, <1>10, <1>11, <1>12, <1>13, <1>14 DEF Next

\* What a host reads, and which manager it is given to.
LEMMA Read ==
  ASSUME Frames, Queues, NEW h \in Host, processMessage(h)
  PROVE  LET frame == Head(wire[h])
             m == fromFlatBuffer(frame.bytes)
         IN  /\ \/ /\ m.channel = SERVICE_ACTION /\ RequestOk(h, m)
                   /\ toHandle'[h] = Append(toHandle[h], m) /\ \A k \in Host : k # h => toHandle'[k] = toHandle[k]
                   /\ UNCHANGED toPublish
                \/ /\ TopicOk(h, frame.hop, m)
                   /\ toPublish'[h] = Append(toPublish[h], Under(frame.hop, m))
                   /\ \A k \in Host : k # h => toPublish'[k] = toPublish[k]
                   /\ UNCHANGED toHandle
             /\ toHandle' = [k \in Host |-> toHandle'[k]] /\ toPublish' = [k \in Host |-> toPublish'[k]]
<1> DEFINE frame == Head(wire[h])
           m == fromFlatBuffer(frame.bytes)
<1>1. FrameOk(h, frame)
  <2>1. IsQueue(wire[h]) /\ wire[h] # <<>>
    BY DEF Queues, Queued, processMessage
  <2>2. Head(wire[h]) \in Entries(wire[h])
    BY <2>1, QueueShrinks
  <2> QED
    BY <2>2 DEF Frames
<1>2. \/ m.channel = SERVICE_ACTION /\ toHandle' = [toHandle EXCEPT ![h] = Append(@, m)] /\ UNCHANGED toPublish
      \/ m.channel # SERVICE_ACTION /\ toPublish' = [toPublish EXCEPT ![h] = Append(@, Under(frame.hop, m))]
         /\ UNCHANGED toHandle
  BY Zenon DEF processMessage
<1>3. TopicOk(h, frame.hop, m) \/ (m.channel = SERVICE_ACTION /\ RequestOk(h, m))
  BY <1>1, Zenon DEF FrameOk
<1>4. TopicOk(h, frame.hop, m) => m.channel # SERVICE_ACTION
  BY DEF TopicOk, Carried
<1> HIDE DEF frame, m
<1>5. toHandle = [k \in Host |-> toHandle[k]] /\ toPublish = [k \in Host |-> toPublish[k]]
  BY Zenon DEF Queues, Queued
<1>6. CASE m.channel = SERVICE_ACTION
  <2>1. toHandle' = [toHandle EXCEPT ![h] = Append(@, m)] /\ UNCHANGED toPublish /\ RequestOk(h, m)
    BY <1>2, <1>3, <1>4, <1>6, Zenon
  <2>2. /\ toHandle'[h] = Append(toHandle[h], m) /\ \A k \in Host : k # h => toHandle'[k] = toHandle[k]
        /\ toHandle' = [k \in Host |-> toHandle'[k]] /\ toPublish' = [k \in Host |-> toPublish'[k]]
    BY <1>5, <2>1, Zenon
  <2> QED
    BY <1>6, <2>1, <2>2, Zenon DEF m, frame
<1>7. CASE m.channel # SERVICE_ACTION
  <2>1. /\ toPublish' = [toPublish EXCEPT ![h] = Append(@, Under(frame.hop, m))] /\ UNCHANGED toHandle
        /\ TopicOk(h, frame.hop, m)
    BY <1>2, <1>3, <1>4, <1>7, Zenon
  <2>2. /\ toPublish'[h] = Append(toPublish[h], Under(frame.hop, m))
                   /\ \A k \in Host : k # h => toPublish'[k] = toPublish[k]
        /\ toHandle' = [k \in Host |-> toHandle'[k]] /\ toPublish' = [k \in Host |-> toPublish'[k]]
    BY <1>5, <2>1, Zenon
  <2> QED
    BY <2>1, <2>2, Zenon DEF m, frame
<1> QED
  BY <1>6, <1>7

\* The messages about calls after a step.
LEMMA ToHandleStep ==
  ASSUME HostsInv, Growth, [Next]_vars, \A h \in Host : ~Start(h)
  PROVE  /\ Queued(toHandle)'
         /\ \A h \in Host : \A m \in Entries(toHandle'[h]) : m \in Entries(toHandle[h]) \/ RequestOk(h, m)'
<1> DEFINE Kept == /\ Queued(toHandle)'
                   /\ \A h \in Host : \A m \in Entries(toHandle'[h]) :
                        m \in Entries(toHandle[h]) \/ RequestOk(h, m)'
           w == toHandle
           n == toHandle'
<1> SUFFICES Kept
  OBVIOUS
<1>0. Queued(w)
  BY DEF HostsInv, Queues
<1>1. ASSUME UNCHANGED toHandle PROVE Kept
  BY <1>0, <1>1 DEF Queued
<1>2. ASSUME NEW h \in Host, processMessage(h) PROVE Kept
  <2>0. PICK m : m = fromFlatBuffer(Head(wire[h]).bytes)
    OBVIOUS
  <2>1. \/ /\ RequestOk(h, m)
           /\ n[h] = Append(w[h], m) /\ (\A k \in Host : k # h => n[k] = w[k])
           /\ n = [k \in Host |-> n[k]]
        \/ UNCHANGED toHandle
    BY <1>2, <2>0, Read, Zenon DEF HostsInv
  <2>2. ASSUME RequestOk(h, m), n = [k \in Host |-> n[k]],
               n[h] = Append(w[h], m), \A k \in Host : k # h => n[k] = w[k]
        PROVE  Kept
    <3>1. RequestOk(h, m)'
      BY <2>2, GrowthKeeps
    <3> HIDE DEF w, n
    <3>2. \A k \in Host : /\ IsQueue(n[k])
                          /\ \A y \in Entries(n[k]) : y \in Entries(w[k]) \/ (k = h /\ y = m)
      <4> DEFINE q == w[h]
                 r == n[h]
      <4>1. IsQueue(q) /\ r = Append(q, m)
        BY <1>0, <2>2 DEF Queued
      <4> HIDE DEF q, r
      <4>2. IsQueue(r) /\ Entries(r) = Entries(q) \cup {m}
        BY <4>1, QueueGrows
      <4>3. \A k \in Host : k # h => n[k] = w[k]
        BY <2>2, Zenon
      <4> QED
        BY <1>0, <4>2, <4>3, PutIn DEF q, r
    <3> QED
      BY <2>2, <3>1, <3>2, Zenon DEF w, n, Queued
  <2> QED
    BY <1>1, <2>1, <2>2, Zenon
<1>3. ASSUME NEW h \in Host, RunServiceActionManager(h) PROVE Kept
  <2>1. /\ w[h] # <<>> /\ n = [k \in Host |-> n[k]]
        /\ \A k \in Host : n[k] = IF k = h THEN Tail(w[k]) ELSE w[k]
    BY <1>0, <1>3, Zenon DEF RunServiceActionManager, Queued
  <2> HIDE DEF w, n
  <2>2. Queued(n) /\ \A k \in Host : Entries(n[k]) \subseteq Entries(w[k])
    BY <1>0, <2>1, TakenOff, Zenon
  <2> QED
    BY <2>2 DEF w, n, Queued
<1>4. ASSUME NEW h \in Host, Nodes(h) PROVE Kept
  BY <1>1, <1>4 DEF Nodes, NodePublishes, ClockTick, NodeCalls, callVars
<1>5. ASSUME NEW h \in Host, RunExecutor(h) PROVE Kept
  BY <1>1, <1>5 DEF RunExecutor, SubscriberCallback, Return, Execute, AnswerCallback, callVars
<1>6. ASSUME NEW h \in Host, RunManagers(h) PROVE Kept
  BY <1>1, <1>3, <1>6 DEF RunManagers, RunPublisherManager, callVars
<1>7. ASSUME NEW h \in Host, NEW k \in DOMAIN threaded[h], RunThreadedPublisher(h, k) PROVE Kept
  BY <1>1, <1>7 DEF RunThreadedPublisher, callVars
<1>8. ASSUME NEW i \in Calls, Timeout(i) \/ RealAnswers(i) PROVE Kept
  BY <1>1, <1>8 DEF Timeout, RealAnswers
<1>9. ASSUME Done \/ UNCHANGED vars PROVE Kept
  BY <1>1, <1>9 DEF Done, vars, callVars
<1> HIDE DEF Kept
<1> QED
  BY <1>2, <1>4, <1>5, <1>6, <1>7, <1>8, <1>9 DEF Next

\* The publisher managers' messages after a step.
LEMMA ToPublishStep ==
  ASSUME HostsInv, Growth, [Next]_vars, \A h \in Host : ~Start(h)
  PROVE  /\ Queued(toPublish)'
         /\ \A h \in Host : \A x \in Entries(toPublish'[h]) :
              x \in Entries(toPublish[h]) \/ TopicOk(h, x.hop, x.message)'
<1> DEFINE Kept == /\ Queued(toPublish)'
                   /\ \A h \in Host : \A x \in Entries(toPublish'[h]) :
                        x \in Entries(toPublish[h]) \/ TopicOk(h, x.hop, x.message)'
           w == toPublish
           n == toPublish'
<1> SUFFICES Kept
  OBVIOUS
<1>0. Queued(w)
  BY DEF HostsInv, Queues
<1>1. ASSUME UNCHANGED toPublish PROVE Kept
  BY <1>0, <1>1 DEF Queued
<1>2. ASSUME NEW h \in Host, processMessage(h) PROVE Kept
  <2>0. PICK hop, m : hop = Head(wire[h]).hop /\ m = fromFlatBuffer(Head(wire[h]).bytes)
    OBVIOUS
  <2> DEFINE x == Under(hop, m)
  <2>1. \/ /\ TopicOk(h, hop, m)
           /\ n[h] = Append(w[h], x) /\ (\A k \in Host : k # h => n[k] = w[k])
           /\ n = [k \in Host |-> n[k]]
        \/ UNCHANGED toPublish
    BY <1>2, <2>0, Read, Zenon DEF HostsInv
  <2>2. x.hop = hop /\ x.message = m
    BY DEF Under
  <2> HIDE DEF x
  <2>3. ASSUME TopicOk(h, hop, m), n = [k \in Host |-> n[k]],
               n[h] = Append(w[h], x), \A k \in Host : k # h => n[k] = w[k]
        PROVE  Kept
    <3>1. TopicOk(h, hop, m)'
      BY <2>3, GrowthKeeps
    <3> HIDE DEF w, n
    <3>2. \A k \in Host : /\ IsQueue(n[k])
                          /\ \A y \in Entries(n[k]) : y \in Entries(w[k]) \/ (k = h /\ y = x)
      <4> DEFINE q == w[h]
                 r == n[h]
      <4>1. IsQueue(q) /\ r = Append(q, x)
        BY <1>0, <2>3 DEF Queued
      <4> HIDE DEF q, r
      <4>2. IsQueue(r) /\ Entries(r) = Entries(q) \cup {x}
        BY <4>1, QueueGrows
      <4>3. \A k \in Host : k # h => n[k] = w[k]
        BY <2>3, Zenon
      <4> QED
        BY <1>0, <4>2, <4>3, PutIn DEF q, r
    <3>3. \A k \in Host : \A y \in Entries(n[k]) : y \in Entries(w[k]) \/ TopicOk(k, y.hop, y.message)'
      BY <2>2, <3>1, <3>2
    <3> QED
      BY <2>3, <3>2, <3>3, Zenon DEF w, n, Queued
  <2> QED
    BY <1>1, <2>1, <2>3, Zenon
<1>3. ASSUME NEW h \in Host, RunPublisherManager(h) PROVE Kept
  <2>1. /\ w[h] # <<>> /\ n = [k \in Host |-> n[k]]
        /\ \A k \in Host : n[k] = IF k = h THEN Tail(w[k]) ELSE w[k]
    BY <1>0, <1>3, Zenon DEF RunPublisherManager, Queued
  <2> HIDE DEF w, n
  <2>2. Queued(n) /\ \A k \in Host : Entries(n[k]) \subseteq Entries(w[k])
    BY <1>0, <2>1, TakenOff, Zenon
  <2> QED
    BY <2>2 DEF w, n, Queued
<1>4. ASSUME NEW h \in Host, Nodes(h) PROVE Kept
  BY <1>1, <1>4 DEF Nodes, NodePublishes, ClockTick, NodeCalls, topicVars
<1>5. ASSUME NEW h \in Host, RunExecutor(h) PROVE Kept
  BY <1>1, <1>5 DEF RunExecutor, SubscriberCallback, Return, Execute, AnswerCallback, topicVars
<1>6. ASSUME NEW h \in Host, RunManagers(h) PROVE Kept
  BY <1>1, <1>3, <1>6 DEF RunManagers, RunServiceActionManager, topicVars
<1>7. ASSUME NEW h \in Host, NEW k \in DOMAIN threaded[h], RunThreadedPublisher(h, k) PROVE Kept
  BY <1>1, <1>7 DEF RunThreadedPublisher
<1>8. ASSUME NEW i \in Calls, Timeout(i) \/ RealAnswers(i) PROVE Kept
  BY <1>1, <1>8 DEF Timeout, RealAnswers, topicVars
<1>9. ASSUME Done \/ UNCHANGED vars PROVE Kept
  BY <1>1, <1>9 DEF Done, vars, topicVars
<1> HIDE DEF Kept
<1> QED
  BY <1>2, <1>4, <1>5, <1>6, <1>7, <1>8, <1>9 DEF Next

\* The threaded publishers' messages after a step.
LEMMA ThreadedStep ==
  ASSUME HostsInv, Growth, [Next]_vars, \A h \in Host : ~Start(h)
  PROVE  /\ Queued(threaded)'
         /\ \A h \in Host : \A x \in Entries(threaded'[h]) :
              x \in Entries(threaded[h]) \/ TopicOk(h, x.hop, x.message)'
<1> DEFINE Kept == /\ Queued(threaded)'
                   /\ \A h \in Host : \A x \in Entries(threaded'[h]) :
                        x \in Entries(threaded[h]) \/ TopicOk(h, x.hop, x.message)'
           w == threaded
           n == threaded'
<1> SUFFICES Kept
  OBVIOUS
<1>0. Queued(w)
  BY DEF HostsInv, Queues
<1>1. ASSUME UNCHANGED threaded PROVE Kept
  BY <1>0, <1>1 DEF Queued
<1>2. ASSUME NEW h \in Host, RunPublisherManager(h) PROVE Kept
  <2>0. PICK x : x = Head(toPublish[h])
    OBVIOUS
  <2>1. x \in Entries(toPublish[h])
    <3>1. IsQueue(toPublish[h]) /\ toPublish[h] # <<>>
      BY <1>2 DEF HostsInv, Queues, Queued, RunPublisherManager
    <3> QED
      BY <2>0, <3>1, QueueShrinks
  <2>2. TopicOk(h, x.hop, x.message)
    BY <2>1 DEF HostsInv, Topics
  <2>3. TopicOk(h, x.hop, x.message)'
    BY <2>2, GrowthKeeps
  <2>4. \/ threaded' = [threaded EXCEPT ![h] = Append(@, x)]
        \/ UNCHANGED threaded
    BY <1>2, <2>0, Zenon DEF RunPublisherManager
  <2>5. ASSUME threaded' = [threaded EXCEPT ![h] = Append(@, x)] PROVE Kept
    <3>1. /\ n = [k \in Host |-> n[k]] /\ n[h] = Append(w[h], x)
          /\ \A k \in Host : k # h => n[k] = w[k]
      BY <1>0, <2>5, Zenon DEF Queued
    <3> HIDE DEF w, n
    <3>2. \A k \in Host : /\ IsQueue(n[k])
                          /\ \A y \in Entries(n[k]) : y \in Entries(w[k]) \/ (k = h /\ y = x)
      <4> DEFINE q == w[h]
                 r == n[h]
      <4>1. IsQueue(q) /\ r = Append(q, x)
        BY <1>0, <3>1 DEF Queued
      <4> HIDE DEF q, r
      <4>2. IsQueue(r) /\ Entries(r) = Entries(q) \cup {x}
        BY <4>1, QueueGrows
      <4>3. \A k \in Host : k # h => n[k] = w[k]
        BY <3>1, Zenon
      <4> QED
        BY <1>0, <4>2, <4>3, PutIn DEF q, r
    <3>3. \A k \in Host : \A y \in Entries(n[k]) : y \in Entries(w[k]) \/ TopicOk(k, y.hop, y.message)'
      BY <2>3, <3>2
    <3> QED
      BY <3>1, <3>2, <3>3, Zenon DEF w, n, Queued
  <2> QED
    BY <1>1, <2>4, <2>5
<1>3. ASSUME NEW h \in Host, NEW k \in DOMAIN threaded[h], RunThreadedPublisher(h, k) PROVE Kept
  <2>1. threaded' = [threaded EXCEPT ![h] =
          [j \in 1 .. Len(threaded[h]) - 1 |-> IF j < k THEN threaded[h][j] ELSE threaded[h][j + 1]]]
    BY <1>3, Zenon DEF RunThreadedPublisher
  <2> DEFINE q == w[h]
             r == n[h]
  <2>2. /\ n = [g \in Host |-> n[g]] /\ \A g \in Host : g # h => n[g] = w[g]
        /\ r = [j \in 1 .. Len(q) - 1 |-> IF j < k THEN q[j] ELSE q[j + 1]]
    BY <1>0, <2>1, Zenon DEF Queued
  <2>3. IsQueue(r) /\ Entries(r) \subseteq Entries(q)
    <3>1. IsQueue(q) /\ k \in DOMAIN q
      BY <1>0 DEF Queued
    <3> HIDE DEF q, r
    <3> QED
      BY <2>2, <3>1, QueueGives
  <2>4. \A g \in Host : IsQueue(n[g]) /\ Entries(n[g]) \subseteq Entries(w[g])
    <3>1. \A g \in Host : g # h => n[g] = w[g]
      BY <2>2, Zenon
    <3> HIDE DEF w, n
    <3> QED
      BY <1>0, <2>3, <3>1, GivenOut DEF q, r
  <2> QED
    BY <2>2, <2>4, Zenon DEF Queued
<1>4. ASSUME NEW h \in Host, Nodes(h) PROVE Kept
  BY <1>1, <1>4 DEF Nodes, NodePublishes, ClockTick, NodeCalls, topicVars
<1>5. ASSUME NEW h \in Host, RunExecutor(h) PROVE Kept
  BY <1>1, <1>5 DEF RunExecutor, SubscriberCallback, Return, Execute, AnswerCallback, topicVars
<1>6. ASSUME NEW h \in Host, processMessage(h) PROVE Kept
  BY <1>1, <1>6 DEF processMessage
<1>7. ASSUME NEW h \in Host, RunServiceActionManager(h) PROVE Kept
  BY <1>1, <1>7 DEF RunServiceActionManager, topicVars
<1>8. ASSUME NEW i \in Calls, Timeout(i) \/ RealAnswers(i) PROVE Kept
  BY <1>1, <1>8 DEF Timeout, RealAnswers, topicVars
<1>9. ASSUME Done \/ UNCHANGED vars PROVE Kept
  BY <1>1, <1>9 DEF Done, vars, topicVars
<1> HIDE DEF Kept
<1> QED
  BY <1>2, <1>3, <1>4, <1>5, <1>6, <1>7, <1>8, <1>9 DEF Next, RunManagers

\* What is published, there and here.
LEMMA TopicsKept ==
  ASSUME HostsInv, Connected, Growth, [Next]_vars, \A h \in Host : ~Start(h)
  PROVE  /\ published' \in 0 .. given.messages
         /\ \A c \in ready' : c \in ready \/ ReadyOk(c)
         /\ \A d \in delivered' : d \in delivered \/ Delivery(d)
<1> DEFINE Kept == /\ published' \in 0 .. given.messages
                   /\ \A c \in ready' : c \in ready \/ ReadyOk(c)
                   /\ \A d \in delivered' : d \in delivered \/ Delivery(d)
<1> SUFFICES Kept
  OBVIOUS
<1>0. /\ Started /\ published \in 0 .. given.messages
      /\ given.messages \in Nat /\ given.messages =< MaxMessages /\ MaxMessages \in Nat
      /\ \A h \in Host : Up(h)
  BY BoundAssumption DEF HostsInv, Topics, Started, AcceptedInv, Connected, Up
<1>1. ASSUME published' = published, ready' \subseteq ready, delivered' = delivered PROVE Kept
  BY <1>0, <1>1
<1>2. ASSUME NEW h \in Host, NEW name, NodePublishes(h, name) PROVE Kept
  <2>1. /\ published < given.messages /\ published' = published + 1 /\ delivered' = delivered
        /\ ready' = ready \cup CallbacksOf(h, name, Payload(published'), published', 0)
    BY <1>2 DEF NodePublishes
  <2>2. published' \in 0 .. given.messages /\ published' \in Ids
    BY <1>0, <2>1 DEF Ids
  <2>3. PICK n \in Ids : n = published'
    BY <2>2
  <2>4. 0 \in 0 .. MaxHops - 1 /\ ~(0 >= 1) /\ ~(0 >= 2)
    BY BoundAssumption
  <2>5. ASSUME NEW c \in CallbacksOf(h, name, Payload(n), n, 0) PROVE ReadyOk(c)
    BY <1>0, <2>4, <2>5, NewCallbacks
  <2> QED
    BY <2>1, <2>2, <2>3, <2>5
<1>3. ASSUME NEW h \in Host, ClockTick(h) PROVE Kept
  <2>1. published < given.messages /\ published' = published + 1 /\ delivered' = delivered /\ ready' = ready
    BY <1>3 DEF ClockTick
  <2> QED
    BY <1>0, <2>1
<1>4. ASSUME NEW h \in Host, NEW p \in config[h].publisher, NEW x, NEW m,
             TopicOk(h, x.hop, x.message), p.channel = x.message.channel, m \in Readable(x.message),
             published' = published, rosPublish(h, p, x.hop, m)
      PROVE  Kept
  <2>1. m = fromSerializedMessage(x.hop.channel, Payload(x.hop.id))
    BY <1>4 DEF TopicOk
  <2>2. m.data = Payload(x.hop.id)
    BY <2>1 DEF fromSerializedMessage, Message
  <2>3. x.hop \in sent /\ x.hop.at = Peer(h) /\ Carried(x.hop) /\ p.channel = x.hop.channel
    BY <1>4 DEF TopicOk
  <2>4. /\ \A c \in ready' : c \in ready \/ ReadyOk(c)
        /\ \A d \in delivered' : d \in delivered \/ Delivery(d)
    BY <1>0, <1>4, <2>2, <2>3, Published
  <2> QED
    BY <1>0, <1>4, <2>4
<1>5. ASSUME NEW h \in Host, RunPublisherManager(h) PROVE Kept
  <2>0. PICK x : x = Head(toPublish[h])
    OBVIOUS
  <2>1. TopicOk(h, x.hop, x.message)
    <3>1. IsQueue(toPublish[h]) /\ toPublish[h] # <<>>
      BY <1>5 DEF HostsInv, Queues, Queued, RunPublisherManager
    <3>2. x \in Entries(toPublish[h])
      BY <2>0, <3>1, QueueShrinks
    <3> QED
      BY <3>2 DEF HostsInv, Topics
  <2>2. \/ UNCHANGED <<delivered, ready>>
        \/ \E p \in config[h].publisher :
             /\ p.channel = x.message.channel /\ ~isCompressed(x.message)
             /\ rosPublish(h, p, x.hop, x.message)
    BY <1>5, <2>0, Zenon DEF RunPublisherManager
  <2>3. published' = published
    BY <1>5 DEF RunPublisherManager
  <2>4. ~isCompressed(x.message) => x.message \in Readable(x.message)
    BY DEF Readable
  <2> QED
    BY <1>1, <1>4, <2>1, <2>2, <2>3, <2>4
<1>6. ASSUME NEW h \in Host, NEW k \in DOMAIN threaded[h], RunThreadedPublisher(h, k) PROVE Kept
  <2>0. PICK x : x = threaded[h][k]
    OBVIOUS
  <2>1. TopicOk(h, x.hop, x.message)
    <3>1. x \in Entries(threaded[h])
      BY <2>0 DEF Entries
    <3> QED
      BY <3>1 DEF HostsInv, Topics
  <2>2. \/ UNCHANGED <<delivered, ready>>
        \/ \E p \in config[h].publisher, m \in Readable(x.message) :
             p.channel = x.message.channel /\ rosPublish(h, p, x.hop, m)
    BY <1>6, <2>0, Zenon DEF RunThreadedPublisher
  <2>3. published' = published
    BY <1>6 DEF RunThreadedPublisher
  <2> QED
    BY <1>1, <1>4, <2>1, <2>2, <2>3
<1>7. ASSUME NEW h \in Host, Nodes(h) PROVE Kept
  BY <1>1, <1>2, <1>3, <1>7 DEF Nodes, NodeCalls, topicVars
<1>8. ASSUME NEW h \in Host, RunExecutor(h) PROVE Kept
  BY <1>1, <1>8 DEF RunExecutor, SubscriberCallback, Return, Execute, AnswerCallback, topicVars
<1>9. ASSUME NEW h \in Host, processMessage(h) \/ RunServiceActionManager(h) PROVE Kept
  BY <1>1, <1>9 DEF processMessage, RunServiceActionManager, topicVars
<1>10. ASSUME NEW i \in Calls, Timeout(i) \/ RealAnswers(i) PROVE Kept
  BY <1>1, <1>10 DEF Timeout, RealAnswers, topicVars
<1>11. ASSUME Done \/ UNCHANGED vars PROVE Kept
  BY <1>1, <1>11 DEF Done, vars, topicVars
<1> HIDE DEF Kept
<1> QED
  BY <1>5, <1>6, <1>7, <1>8, <1>9, <1>10, <1>11 DEF Next, RunManagers

\* The calls that hold a thread are finitely many.
LEMMA HoldingFinite ==
  \A h : IsFiniteSet(Holding(h)) /\ Cardinality(Holding(h)) \in Nat
<1> SUFFICES ASSUME NEW h PROVE IsFiniteSet(Holding(h)) /\ Cardinality(Holding(h)) \in Nat
  OBVIOUS
<1>1. IsFiniteSet(Calls)
  BY BoundAssumption, FS_Interval DEF Calls
<1>2. Holding(h) \subseteq Calls
  BY DEF Holding
<1>3. IsFiniteSet(Holding(h))
  BY <1>1, <1>2, FS_Subset
<1> QED
  BY <1>3, FS_CardinalityType

\* Fewer calls hold fewer threads.
LEMMA FewerHold ==
  ASSUME NEW h, NEW T, T \subseteq Holding(h)
  PROVE  Cardinality(T) \in Nat /\ Cardinality(T) =< Cardinality(Holding(h))
<1>1. IsFiniteSet(Holding(h))
  BY HoldingFinite
<1>2. IsFiniteSet(T) /\ Cardinality(T) =< Cardinality(Holding(h))
  BY <1>1, FS_Subset
<1> QED
  BY <1>2, FS_CardinalityType

\* The calls after a step: only Execute takes a thread, and only a free one.
LEMMA CallsStep ==
  ASSUME HostsInv, Connected, Growth, [Next]_vars, \A h \in Host : ~Start(h)
  PROVE  CallsOk'
<1>0. /\ call \in [Calls -> CallRecord] /\ UNCHANGED config
      /\ \A h \in Host : Cardinality(Holding(h)) \in Nat /\ Cardinality(Holding(h)) =< config[h].threads
      /\ \A h \in Host : config[h].threads \in Nat
      /\ \A i \in Calls : call[i].stage # "none" =>
           \E s \in config'[call'[i].at].server[call'[i].kind] : s.channel = call'[i].channel
  <2>1. \A h \in Host : config[h].threads \in Nat
    BY Threads DEF HostsInv
  <2> QED
    BY <2>1 DEF HostsInv, CallsOk, Growth
<1>1. ASSUME call' \in [Calls -> CallRecord],
             \A i \in Calls : call[i].stage = "none" => call'[i].stage = "none",
             \A h \in Host : Holding(h)' \subseteq Holding(h)
      PROVE  CallsOk'
  <2>1. ASSUME NEW h \in Host PROVE Cardinality(Holding(h)') \in 0 .. config'[h].threads
    <3>1. Cardinality(Holding(h)') \in Nat /\ Cardinality(Holding(h)') =< Cardinality(Holding(h))
      BY <1>1, FewerHold
    <3> QED
      BY <1>0, <3>1
  <2> QED
    BY <1>0, <1>1, <2>1 DEF CallsOk
<1>2. ASSUME UNCHANGED call PROVE CallsOk'
  <2>1. \A h \in Host : Holding(h)' = Holding(h)
    BY <1>2 DEF Holding
  <2> QED
    BY <1>0, <1>1, <1>2, <2>1
<1>3. ASSUME NEW i \in Calls, NEW stage \in {"answered", "done"}, call[i].stage \in {"blocked", "answered"},
             call' = [call EXCEPT ![i].stage = stage]
      PROVE  CallsOk'
  <2>1. stage \in Stage /\ call[i].stage # "none"
    BY <1>3 DEF Stage
  <2>2. /\ call' \in [Calls -> CallRecord]
        /\ \A j \in Calls :
             /\ call'[j].at = call[j].at
             /\ call'[j].stage = IF j = i THEN stage ELSE call[j].stage
    BY <1>0, <1>3, <2>1, StageSet
  <2>3. \A h \in Host : Holding(h)' \subseteq Holding(h)
    BY <1>3, <2>2 DEF Holding
  <2> QED
    BY <1>1, <2>1, <2>2, <2>3
<1>4. ASSUME NEW i \in Calls, NEW works, Execute(i, works) PROVE CallsOk'
  <2>1. /\ call[i].stage = "ready" /\ call' = [call EXCEPT ![i].stage = "blocked"]
        /\ ThreadFree(call[i].at) /\ call[i].at \in Host
    BY <1>0, <1>4 DEF Execute, CallRecord
  <2>2. "blocked" \in Stage
    BY DEF Stage
  <2>3. /\ call' \in [Calls -> CallRecord]
        /\ \A j \in Calls :
             /\ call'[j].at = call[j].at
             /\ call'[j].stage = IF j = i THEN "blocked" ELSE call[j].stage
    BY <1>0, <2>1, <2>2, StageSet
  <2>4. ASSUME NEW h \in Host PROVE Cardinality(Holding(h)') \in 0 .. config'[h].threads
    <3>1. CASE h = call[i].at
      <4>1. Holding(h)' = Holding(h) \cup {i} /\ i \notin Holding(h)
        BY <2>1, <2>3, <3>1 DEF Holding
      <4>2. Cardinality(Holding(h) \cup {i}) = Cardinality(Holding(h)) + 1
        BY <4>1, HoldingFinite, FS_AddElement
      <4>3. Cardinality(Holding(h)) < config[h].threads
        BY <2>1, <3>1 DEF ThreadFree
      <4> QED
        BY <1>0, <4>1, <4>2, <4>3
    <3>2. CASE h # call[i].at
      <4>1. Holding(h)' = Holding(h)
        BY <2>1, <2>3, <3>2 DEF Holding
      <4> QED
        BY <1>0, <4>1
    <3> QED
      BY <3>1, <3>2
  <2>5. \A j \in Calls : call'[j].stage # "none" => call[j].stage # "none"
    BY <2>1, <2>3
  <2> QED
    BY <1>0, <2>3, <2>4, <2>5 DEF CallsOk
<1>5. ASSUME NEW i \in Calls, NEW h \in Host, NEW kind \in Kind, NEW s \in config[h].server[kind],
             NodeCalls(i, h, kind, s)
      PROVE  CallsOk'
  <2> DEFINE new == [stage |-> "ready", at |-> h, kind |-> kind, channel |-> s.channel]
  <2>1. call[i].stage = "none" /\ call' = [call EXCEPT ![i] = new]
    BY <1>5 DEF NodeCalls
  <2>2. s.channel \in Nat /\ "ready" \in Stage
    <3>1. Up(h) /\ AcceptedInv
      BY DEF Connected, Up, HostsInv, Started
    <3> QED
      BY <3>1, ConfigFacts DEF Stage
  <2>3. new \in CallRecord /\ new.at = h /\ new.kind = kind /\ new.channel = s.channel /\ new.stage = "ready"
    BY <2>2 DEF CallRecord
  <2> HIDE DEF new
  <2>4. call' \in [Calls -> CallRecord] /\ call'[i] = new /\ \A j \in Calls : j # i => call'[j] = call[j]
    BY <1>0, <2>1, <2>3
  <2>5. ASSUME NEW g \in Host PROVE Cardinality(Holding(g)') \in 0 .. config'[g].threads
    <3>1. Holding(g)' = Holding(g)
      BY <2>1, <2>3, <2>4 DEF Holding
    <3> QED
      BY <1>0, <3>1
  <2>6. ASSUME NEW j \in Calls, call'[j].stage # "none"
        PROVE  \E t \in config'[call'[j].at].server[call'[j].kind] : t.channel = call'[j].channel
    BY <1>0, <2>3, <2>4, <2>6
  <2> QED
    BY <2>4, <2>5, <2>6 DEF CallsOk
<1>6. ASSUME NEW h \in Host, Nodes(h) PROVE CallsOk'
  BY <1>2, <1>5, <1>6 DEF Nodes, NodePublishes, ClockTick, callVars
<1>7. ASSUME NEW h \in Host, RunExecutor(h) PROVE CallsOk'
  <2>1. CASE \E i \in Calls : Return(i)
    BY <1>3, <2>1 DEF Return
  <2>2. CASE \E i \in Calls : \E works : Execute(i, works)
    BY <1>4, <2>2
  <2>3. CASE UNCHANGED call
    BY <1>2, <2>3
  <2> QED
    BY <1>7, <2>1, <2>2, <2>3 DEF RunExecutor, SubscriberCallback, AnswerCallback, callVars
<1>8. ASSUME NEW h \in Host, processMessage(h) \/ RunPublisherManager(h) PROVE CallsOk'
  BY <1>2, <1>8 DEF processMessage, RunPublisherManager, callVars
<1>9. ASSUME NEW h \in Host, RunServiceActionManager(h) PROVE CallsOk'
  <2>1. \/ UNCHANGED call
        \/ \E m : HandleAtServer(h, m, m.gid[1])
    BY <1>9 DEF RunServiceActionManager
  <2>2. ASSUME NEW i, i \notin Calls, call' = [call EXCEPT ![i].stage = "answered"] PROVE UNCHANGED call
    BY <1>0, <2>2
  <2>3. ASSUME NEW m, HandleAtServer(h, m, m.gid[1]) PROVE CallsOk'
    BY <1>2, <1>3, <2>2, <2>3 DEF HandleAtServer
  <2> QED
    BY <1>2, <2>1, <2>3
<1>10. ASSUME NEW h \in Host, NEW k \in DOMAIN threaded[h], RunThreadedPublisher(h, k) PROVE CallsOk'
  BY <1>2, <1>10 DEF RunThreadedPublisher, callVars
<1>11. ASSUME NEW i \in Calls, Timeout(i) \/ RealAnswers(i) PROVE CallsOk'
  BY <1>2, <1>3, <1>11 DEF Timeout, RealAnswers
<1>12. ASSUME Done \/ UNCHANGED vars PROVE CallsOk'
  BY <1>2, <1>12 DEF Done, vars, callVars
<1> QED
  BY <1>6, <1>7, <1>8, <1>9, <1>10, <1>11, <1>12 DEF Next, RunManagers

\* What the other host does after a step: only a request begins something.
LEMMA RemoteStep ==
  ASSUME HostsInv, Connected, Growth, [Next]_vars, \A h \in Host : ~Start(h)
  PROVE  RemoteOk'
<1> DEFINE Good(j) == remote'[j].stage # "none" =>
             /\ call'[j].stage # "none"
             /\ remote'[j].kind = call'[j].kind /\ remote'[j].channel = call'[j].channel
             /\ \E c \in config'[Peer(call'[j].at)].client[call'[j].kind] : c.channel = call'[j].channel
<1>0. /\ call \in [Calls -> CallRecord] /\ remote \in [Calls -> RemoteRecord]
      /\ UNCHANGED config /\ (\A h \in Host : Up(h)) /\ AcceptedInv
  BY DEF HostsInv, CallsOk, RemoteOk, Growth, Connected, Up, Started
<1>1. ASSUME NEW j \in Calls, remote[j].stage # "none",
             remote'[j].kind = remote[j].kind, remote'[j].channel = remote[j].channel
      PROVE  Good(j)
  BY <1>1 DEF HostsInv, RemoteOk, CallMeetsCounterpart, Growth
<1>2. ASSUME remote' \in [Calls -> RemoteRecord], \A j \in Calls : Good(j) PROVE RemoteOk'
  BY <1>2 DEF RemoteOk, CallMeetsCounterpart
<1>3. ASSUME UNCHANGED remote PROVE RemoteOk'
  <2>1. ASSUME NEW j \in Calls PROVE Good(j)
    BY <1>1, <1>3
  <2> QED
    BY <1>0, <1>2, <1>3, <2>1
<1>4. ASSUME NEW i, NEW stage \in {"none", "asking", "reply", "done"},
             remote' = [remote EXCEPT ![i].stage = stage],
             i \in Calls /\ remote[i].stage = "none" => stage = "none"
      PROVE  RemoteOk'
  <2>1. /\ remote' \in [Calls -> RemoteRecord]
        /\ \A j \in Calls :
             /\ remote'[j].kind = remote[j].kind /\ remote'[j].channel = remote[j].channel
             /\ remote'[j].stage = IF j = i THEN stage ELSE remote[j].stage
    BY <1>0, <1>4 DEF RemoteRecord
  <2>2. ASSUME NEW j \in Calls PROVE Good(j)
    BY <1>1, <1>4, <2>1
  <2> QED
    BY <1>2, <2>1, <2>2
<1>5. ASSUME NEW h \in Host, NEW i \in Calls, call[i].stage # "none", call[i].at = Peer(h),
             NEW stage \in {"none", "asking", "reply", "done"},
             NEW c \in config[h].client[call[i].kind], c.channel = call[i].channel,
             remote' = [remote EXCEPT ![i] = [stage |-> stage, kind |-> call[i].kind, channel |-> call[i].channel]]
      PROVE  RemoteOk'
  <2> DEFINE new == [stage |-> stage, kind |-> call[i].kind, channel |-> call[i].channel]
  <2>1. new \in RemoteRecord /\ new.kind = call[i].kind /\ new.channel = call[i].channel
    BY <1>0 DEF CallRecord, RemoteRecord
  <2> HIDE DEF new
  <2>2. remote' = [remote EXCEPT ![i] = new]
    BY <1>5 DEF new
  <2>3. remote' \in [Calls -> RemoteRecord] /\ remote'[i] = new /\ \A j \in Calls : j # i => remote'[j] = remote[j]
    BY <1>0, <2>1, <2>2
  <2>4. Good(i)
    <3>1. /\ call'[i].stage # "none" /\ call'[i].at = call[i].at
          /\ call'[i].kind = call[i].kind /\ call'[i].channel = call[i].channel
      BY <1>5 DEF Growth
    <3>2. Peer(call'[i].at) = h
      BY <1>5, <3>1, Peers
    <3> QED
      BY <1>0, <1>5, <2>1, <2>3, <3>1, <3>2
  <2>5. ASSUME NEW j \in Calls, j # i PROVE Good(j)
    BY <1>1, <2>3, <2>5
  <2> QED
    BY <1>2, <2>3, <2>4, <2>5
<1>6. ASSUME NEW h \in Host, NEW m, RequestOk(h, m), NEW r \in fromMessage(m), r.opCode \in ToClient,
             HandleAtClient(h, r, r.gid[1])
      PROVE  RemoteOk'
  <2>0. PICK i : i = r.gid[1]
    OBVIOUS
  <2>1. /\ i \in Calls /\ call[i].stage # "none" /\ call[i].at = Peer(h)
        /\ call[i].kind = ClientKind(r.opCode) /\ call[i].channel = r.serviceActionChannel
    BY <1>6, <2>0 DEF RequestOk
  <2>2. CASE ~\E c \in config[h].client[ClientKind(r.opCode)] : c.channel = r.serviceActionChannel
    BY <1>3, <1>6, <2>2, Zenon DEF HandleAtClient
  <2>3. CASE /\ \E c \in config[h].client[ClientKind(r.opCode)] : c.channel = r.serviceActionChannel
             /\ r.opCode \in ToClientCancel
    <3>1. remote' = [remote EXCEPT ![i].stage = IF remote[i].stage = "none" THEN "none" ELSE "done"]
      BY <1>6, <2>0, <2>3, Zenon DEF HandleAtClient
    <3>2. CASE remote[i].stage = "none"
      BY <1>4, <3>1, <3>2
    <3>3. CASE remote[i].stage # "none"
      BY <1>4, <3>1, <3>3
    <3> QED
      BY <3>2, <3>3
  <2>4. CASE /\ \E c \in config[h].client[ClientKind(r.opCode)] : c.channel = r.serviceActionChannel
             /\ r.opCode \notin ToClientCancel
    <3>1. \E stage \in {"none", "asking", "reply", "done"} :
            remote' = [remote EXCEPT ![i] = [stage |-> stage, kind |-> ClientKind(r.opCode),
                                             channel |-> r.serviceActionChannel]]
      <4>1. remote' = [remote EXCEPT ![i] =
              [stage |-> IF Readable(r) = {} THEN "done" ELSE "asking", kind |-> ClientKind(r.opCode),
               channel |-> r.serviceActionChannel]]
        BY <1>6, <2>0, <2>4, Zenon DEF HandleAtClient
      <4>2. (IF Readable(r) = {} THEN "done" ELSE "asking") \in {"none", "asking", "reply", "done"}
        OBVIOUS
      <4> QED
        BY <4>1, <4>2
    <3>2. PICK stage \in {"none", "asking", "reply", "done"} :
            remote' = [remote EXCEPT ![i] = [stage |-> stage, kind |-> call[i].kind, channel |-> call[i].channel]]
      BY <2>1, <3>1
    <3>3. PICK c \in config[h].client[call[i].kind] : c.channel = call[i].channel
      BY <2>1, <2>4
    <3> QED
      BY <1>5, <2>1, <3>2, <3>3
  <2> QED
    BY <2>2, <2>3, <2>4
<1>7. ASSUME NEW h \in Host, RunServiceActionManager(h) PROVE RemoteOk'
  <2>0. PICK m : m = Head(toHandle[h])
    OBVIOUS
  <2>1. RequestOk(h, m)
    <3>1. IsQueue(toHandle[h]) /\ toHandle[h] # <<>>
      BY <1>7 DEF HostsInv, Queues, Queued, RunServiceActionManager
    <3>2. m \in Entries(toHandle[h])
      BY <2>0, <3>1, QueueShrinks
    <3> QED
      BY <3>2 DEF HostsInv, Frames
  <2>2. \/ UNCHANGED remote
        \/ \E r \in fromMessage(m) : r.opCode \in ToClient /\ HandleAtClient(h, r, r.gid[1])
    BY <1>7, <2>0, Zenon DEF RunServiceActionManager
  <2> QED
    BY <1>3, <1>6, <2>1, <2>2
<1>8. ASSUME NEW h \in Host, Nodes(h) PROVE RemoteOk'
  BY <1>3, <1>8 DEF Nodes, NodePublishes, ClockTick, NodeCalls, callVars
<1>9. ASSUME NEW h \in Host, RunExecutor(h) PROVE RemoteOk'
  <2>1. \/ UNCHANGED remote
        \/ \E i \in Calls : remote[i].stage = "reply" /\ remote' = [remote EXCEPT ![i].stage = "done"]
    BY <1>9 DEF RunExecutor, SubscriberCallback, Return, Execute, AnswerCallback, callVars
  <2> QED
    BY <1>3, <1>4, <2>1
<1>10. ASSUME NEW h \in Host, processMessage(h) \/ RunPublisherManager(h) PROVE RemoteOk'
  BY <1>3, <1>10 DEF processMessage, RunPublisherManager, callVars
<1>11. ASSUME NEW h \in Host, NEW k \in DOMAIN threaded[h], RunThreadedPublisher(h, k) PROVE RemoteOk'
  BY <1>3, <1>11 DEF RunThreadedPublisher, callVars
<1>12. ASSUME NEW i \in Calls, Timeout(i) \/ RealAnswers(i) PROVE RemoteOk'
  BY <1>3, <1>4, <1>12 DEF Timeout, RealAnswers
<1>13. ASSUME Done \/ UNCHANGED vars PROVE RemoteOk'
  BY <1>3, <1>13 DEF Done, vars, callVars
<1> QED
  BY <1>7, <1>8, <1>9, <1>10, <1>11, <1>12, <1>13 DEF Next, RunManagers

\* HostsInv is inductive.
LEMMA HostsInit == Init => HostsInv
<1> SUFFICES ASSUME Init PROVE HostsInv
  OBVIOUS
<1>1. \A h \in Host : ~Up(h) /\ config[h] = NoConfig
  BY DEF Init, Up
<1>2. Started
  <2>1. given \in Candidates /\ config = [h \in Host |-> config[h]] /\ state = [h \in Host |-> state[h]]
        /\ state \in [Host -> {"down", "up", "refused"}]
    BY DEF Init
  <2> QED
    BY <1>1, <2>1 DEF Started, AcceptedInv
<1>3. Quiet
  BY DEF Init, Quiet, Unasked, Idle
<1>4. Queues
  BY EmptyQueue DEF Init, Queues, Queued
<1>5. Topics
  <2>1. 0 \in 0 .. given.messages
    BY BoundAssumption DEF Init
  <2> QED
    BY <2>1, EmptyQueue DEF Init, Topics
<1>6. Frames
  BY EmptyQueue DEF Init, Frames
<1>7. CallsOk
  <2>1. Unasked \in CallRecord /\ Unasked.stage = "none"
    BY DEF Unasked, CallRecord, Stage, Host, Kind
  <2>2. call \in [Calls -> CallRecord] /\ \A i \in Calls : call[i].stage = "none"
    BY <2>1 DEF Init
  <2>3. \A h \in Host : Holding(h) = {} /\ config[h].threads = 0
    BY <1>1, <2>2 DEF Holding, NoConfig
  <2>4. \A h \in Host : Cardinality(Holding(h)) = 0 /\ 0 \in 0 .. config[h].threads
    BY <2>3, FS_EmptySet
  <2> QED
    BY <2>2, <2>4, Zenon DEF CallsOk
<1>8. RemoteOk
  <2>1. Idle \in RemoteRecord /\ Idle.stage = "none"
    BY DEF Idle, RemoteRecord, Kind
  <2> QED
    BY <2>1 DEF Init, RemoteOk, CallMeetsCounterpart
<1>9. Deliveries
  BY DEF Init, Deliveries
<1> QED
  BY <1>2, <1>3, <1>4, <1>5, <1>6, <1>7, <1>8, <1>9 DEF HostsInv

\* Every step keeps it: the start of a host because nothing has happened yet, every other
\* step because what has been said of a message stays true.
LEMMA HostsStep == HostsInv /\ [Next]_vars => HostsInv'
<1> SUFFICES ASSUME HostsInv, [Next]_vars PROVE HostsInv'
  OBVIOUS
<1>1. Started' /\ Quiet'
  BY StartedKept, QuietKept DEF HostsInv
<1>2. ASSUME NEW h \in Host, Start(h) PROVE HostsInv'
  BY <1>1, <1>2, StartKept DEF HostsInv
<1>3. ASSUME \A h \in Host : ~Start(h), ~Connected PROVE HostsInv'
  <2>1. UNCHANGED vars
    BY <1>3, NotBefore DEF HostsInv
  <2>2. UNCHANGED <<given, config, state, published, ready, sent, delivered, wire, toPublish, threaded,
                    toHandle, call, remote>>
    BY <2>1 DEF vars, topicVars, callVars
  <2>3. Growth
    BY <1>3, GrowthStep DEF HostsInv
  <2>4. Queues'
    BY <2>2 DEF HostsInv, Queues, Queued
  <2>5. Topics'
    BY <2>2, <2>3, TopicsStep DEF HostsInv, Topics
  <2>6. Frames'
    BY <2>2, <2>3, FramesStep DEF HostsInv
  <2>7. CallsOk'
    BY <2>2 DEF HostsInv, CallsOk, Holding
  <2>8. RemoteOk'
    BY <2>2 DEF HostsInv, RemoteOk, CallMeetsCounterpart
  <2>9. Deliveries'
    BY <2>2, <2>3, DeliveriesStep DEF HostsInv
  <2> QED
    BY <1>1, <2>4, <2>5, <2>6, <2>7, <2>8, <2>9 DEF HostsInv
<1>4. ASSUME \A h \in Host : ~Start(h), Connected PROVE HostsInv'
  <2>1. Growth
    BY <1>4, GrowthStep DEF HostsInv
  <2>2. /\ Queued(wire)'
        /\ \A h \in Host : \A f \in Entries(wire'[h]) : f \in Entries(wire[h]) \/ FrameOk(h, f)'
    BY <1>4, <2>1, WireStep
  <2>3. /\ Queued(toHandle)'
        /\ \A h \in Host : \A m \in Entries(toHandle'[h]) : m \in Entries(toHandle[h]) \/ RequestOk(h, m)'
    BY <1>4, <2>1, ToHandleStep
  <2>4. /\ Queued(toPublish)'
        /\ \A h \in Host : \A x \in Entries(toPublish'[h]) :
             x \in Entries(toPublish[h]) \/ TopicOk(h, x.hop, x.message)'
    BY <1>4, <2>1, ToPublishStep
  <2>5. /\ Queued(threaded)'
        /\ \A h \in Host : \A x \in Entries(threaded'[h]) :
             x \in Entries(threaded[h]) \/ TopicOk(h, x.hop, x.message)'
    BY <1>4, <2>1, ThreadedStep
  <2>6. /\ published' \in 0 .. given.messages
        /\ \A c \in ready' : c \in ready \/ ReadyOk(c)
        /\ \A d \in delivered' : d \in delivered \/ Delivery(d)
    BY <1>4, <2>1, TopicsKept
  <2>7. Queues'
    BY <2>2, <2>3, <2>4, <2>5 DEF Queues
  <2>8. Topics'
    <3>1. published' \in 0 .. given'.messages
      BY <2>1, <2>6 DEF Growth
    <3> QED
      BY <2>1, <2>4, <2>5, <2>6, <3>1, TopicsStep DEF HostsInv
  <2>9. Frames'
    BY <2>1, <2>2, <2>3, FramesStep DEF HostsInv
  <2>10. CallsOk' /\ RemoteOk'
    BY <1>4, <2>1, CallsStep, RemoteStep
  <2>11. Deliveries'
    BY <2>1, <2>6, DeliveriesStep DEF HostsInv
  <2> QED
    BY <1>1, <2>7, <2>8, <2>9, <2>10, <2>11 DEF HostsInv
<1> QED
  BY <1>2, <1>3, <1>4

\* For any parameters of the two hosts and any number of messages and calls, what is on its
\* way comes from where it claims to come from (MessageCodec, PublisherManager::run,
\* ServiceActionManager::run).
THEOREM HostsInvariant == Spec => []HostsInv
BY HostsInit, HostsStep, PTL DEF Spec

\* Everything has its type, and no more calls hold a thread than the executor of their host
\* has (ServiceServer::sendAndWait, ActionServer::handleGoal).
THEOREM HostsTyped == Spec => []TypeOK
<1>1. HostsInv => TypeOK
  <2> SUFFICES ASSUME HostsInv PROVE TypeOK
    OBVIOUS
  <2>1. given \in Candidates /\ state \in [Host -> {"down", "up", "refused"}]
    BY DEF HostsInv, Started, AcceptedInv
  <2>2. published \in 0 .. MaxMessages
    BY <2>1, BoundAssumption DEF HostsInv, Topics
  <2>3. \A d \in delivered : d.at \in Host /\ d.id \in Ids /\ d.hops \in 1 .. MaxHops
    BY DEF HostsInv, Deliveries, Delivery
  <2>4. /\ \A h \in Host : Cardinality(Holding(h)) \in 0 .. config[h].threads
        /\ \A i \in Calls : call[i].stage \in {"none", "ready", "blocked", "answered", "done"}
    BY DEF HostsInv, CallsOk, CallRecord, Stage
  <2>5. \A i \in Calls : remote[i].stage \in {"none", "asking", "reply", "done"}
    BY DEF HostsInv, RemoteOk, RemoteRecord
  <2> QED
    BY <2>1, <2>2, <2>3, <2>4, <2>5 DEF TypeOK
<1> QED
  BY <1>1, HostsInvariant, PTL

\* A publisher publishes, byte for byte, what was published on the topic of its channel, and
\* a request is handled by the counterpart of the plug-in that sent it, whatever the
\* compressors do (MessageCodec, PublisherManager::run, ServiceActionManager::run).
THEOREM NothingAlteredOrMisdirected == Spec => []Faithful
<1>1. HostsInv => Faithful
  BY DEF HostsInv, Deliveries, Delivery, Faithful, Intact, RemoteOk
<1> QED
  BY <1>1, HostsInvariant, PTL

\* A message is carried three times only if each host subscribes to a topic it publishes, by
\* whatever names, and what the flags of tf and clock carry comes back only from a host with an
\* entry that publishes such a topic by another name (ConnectBase, PublisherBase::rosPublish).
THEOREM LoopsNeedBothDirections == Spec => []LoopNeedsBoth
<1>1. HostsInv => LoopNeedsBoth
  BY DEF HostsInv, Deliveries, Delivery, LoopNeedsBoth
<1> QED
  BY <1>1, HostsInvariant, PTL

----------------------------------------------------------------------------
(* Threads and callback groups.                                            *)

\* The groups of a list's plug-ins that have a thread of their own.
OwnGroups(kind, list) ==
  {<<kind, ToByte(list[n].channel)>> : n \in {n \in DOMAIN list : list[n].useOwnThread}}

\* Each of them is counted as an additional thread.
LEMMA OwnGroupsCounted ==
  ASSUME NEW kind, NEW list, IsFiniteSet({n \in DOMAIN list : list[n].useOwnThread})
  PROVE  /\ IsFiniteSet(OwnGroups(kind, list)) /\ Cardinality(OwnGroups(kind, list)) \in Nat
         /\ Cardinality(OwnGroups(kind, list)) =< OwnThreads(list)
<1> DEFINE T == {n \in DOMAIN list : list[n].useOwnThread}
           G == OwnGroups(kind, list)
           f == [n \in T |-> <<kind, ToByte(list[n].channel)>>]
<1>1. f \in Surjection(T, G)
  <2>1. G = {<<kind, ToByte(list[n].channel)>> : n \in T}
    BY DEF OwnGroups
  <2> HIDE DEF T, G
  <2>2. f \in [T -> G] /\ \A g \in G : \E n \in T : f[n] = g
    BY <2>1
  <2> QED
    BY <2>2 DEF Surjection
<1> HIDE DEF f, G
<1>2. IsFiniteSet(G) /\ Cardinality(G) =< Cardinality(T)
  BY <1>1, FS_Surjection
<1>3. Cardinality(G) \in Nat
  BY <1>2, FS_CardinalityType
<1> QED
  BY <1>2, <1>3 DEF G, T, OwnThreads

\* All groups a host's waiting calls can belong to.
WaitingGroups(p) ==
  (OwnGroups("service", p.serviceServer) \cup OwnGroups("action", p.actionServer))
    \cup ({<<"service">>} \cup {<<"action">>})

\* They are fewer than its threads (ConnectBase::evalNrOfMultiThreadedExecutorThreads).
LEMMA FewerGroupsThanThreads ==
  ASSUME given \in Candidates, NEW h \in Host, NumberOfThreads(h) >= 1
  PROVE  /\ IsFiniteSet(WaitingGroups(given.param[h]))
         /\ Cardinality(WaitingGroups(given.param[h])) \in Nat
         /\ Cardinality(WaitingGroups(given.param[h])) < NumberOfThreads(h)
<1> DEFINE p == given.param[h]
           A == OwnGroups("service", p.serviceServer)
           B == OwnGroups("action", p.actionServer)
           C == {<<"service">>}
           D == {<<"action">>}
           a == OwnThreads(p.serviceServer)
           b == OwnThreads(p.actionServer)
<1>1. /\ NumberOfThreads(h) \in Nat /\ NumberOfThreads(h) >= 4 + a + b
      /\ a \in Nat /\ b \in Nat
      /\ IsFiniteSet({n \in DOMAIN p.serviceServer : p.serviceServer[n].useOwnThread})
      /\ IsFiniteSet({n \in DOMAIN p.actionServer : p.actionServer[n].useOwnThread})
  BY ThreadNumber DEF Threadable
<1>2. /\ IsFiniteSet(A) /\ Cardinality(A) \in Nat /\ Cardinality(A) =< a
      /\ IsFiniteSet(B) /\ Cardinality(B) \in Nat /\ Cardinality(B) =< b
  BY <1>1, OwnGroupsCounted
<1>3. IsFiniteSet(C) /\ Cardinality(C) = 1 /\ IsFiniteSet(D) /\ Cardinality(D) = 1
  BY FS_Singleton
<1> HIDE DEF A, B, C, D, a, b
<1>4. \A S, T : IsFiniteSet(S) /\ IsFiniteSet(T) =>
        /\ IsFiniteSet(S \cup T) /\ Cardinality(S \cup T) \in Nat
        /\ Cardinality(S \cup T) =< Cardinality(S) + Cardinality(T)
  <2> SUFFICES ASSUME NEW S, NEW T, IsFiniteSet(S), IsFiniteSet(T)
               PROVE  /\ IsFiniteSet(S \cup T) /\ Cardinality(S \cup T) \in Nat
                      /\ Cardinality(S \cup T) =< Cardinality(S) + Cardinality(T)
    OBVIOUS
  <2>1. /\ IsFiniteSet(S \cup T)
        /\ Cardinality(S \cup T) = Cardinality(S) + Cardinality(T) - Cardinality(S \cap T)
    BY FS_Union
  <2>2. IsFiniteSet(S \cap T)
    BY FS_Intersection
  <2>3. /\ Cardinality(S \cap T) \in Nat /\ Cardinality(S \cup T) \in Nat
        /\ Cardinality(S) \in Nat /\ Cardinality(T) \in Nat
    BY <2>1, <2>2, FS_CardinalityType
  <2> QED
    BY <2>1, <2>3
<1>5. /\ IsFiniteSet(A \cup B) /\ Cardinality(A \cup B) \in Nat
      /\ Cardinality(A \cup B) =< Cardinality(A) + Cardinality(B)
      /\ IsFiniteSet(C \cup D) /\ Cardinality(C \cup D) \in Nat
      /\ Cardinality(C \cup D) =< Cardinality(C) + Cardinality(D)
  BY <1>2, <1>3, <1>4
<1>6. /\ IsFiniteSet((A \cup B) \cup (C \cup D)) /\ Cardinality((A \cup B) \cup (C \cup D)) \in Nat
      /\ Cardinality((A \cup B) \cup (C \cup D)) =< Cardinality(A \cup B) + Cardinality(C \cup D)
  BY <1>4, <1>5
<1>7. WaitingGroups(p) = (A \cup B) \cup (C \cup D)
  BY DEF WaitingGroups, A, B, C, D
<1>8. Cardinality((A \cup B) \cup (C \cup D)) < NumberOfThreads(h)
  BY <1>1, <1>2, <1>3, <1>5, <1>6
<1> QED
  BY <1>6, <1>7, <1>8

\* A waiting call belongs to one of them.
LEMMA GroupKnown ==
  ASSUME HostsInv, NEW h \in Host, Up(h), NEW i \in Holding(h)
  PROVE  GroupOfCall(i) \in WaitingGroups(given.param[h])
<1> DEFINE p == given.param[h]
           kind == call[i].kind
           s == ServerOf(i)
           list == IF kind = "service" THEN p.serviceServer ELSE p.actionServer
<1>1. /\ i \in Calls /\ call[i].at = h /\ call[i].stage # "none"
  BY DEF Holding
<1>2. kind \in Kind /\ \E c \in config[h].server[kind] : c.channel = call[i].channel
  BY <1>1 DEF HostsInv, CallsOk, CallRecord
<1>3. s \in config[h].server[kind]
  BY <1>1, <1>2, Zenon DEF ServerOf
<1>4. config[h].server[kind] = Plugins(p, list)
  <2>1. config[h] = GlobalConfig(p, NumberOfThreads(h))
    BY DEF HostsInv, Started, AcceptedInv, Accepted
  <2> HIDE DEF p
  <2>2. /\ config[h].server["service"] = Plugins(p, p.serviceServer)
        /\ config[h].server["action"] = Plugins(p, p.actionServer)
    BY <2>1 DEF GlobalConfig, Kind
  <2> HIDE DEF kind
  <2> QED
    BY <1>2, <2>2 DEF Kind
<1> HIDE DEF p, list
<1>5. PICK n \in DOMAIN list : s = Plugin(p, list[n])
  BY <1>3, <1>4 DEF Plugins, Entries
<1> HIDE DEF kind, s
<1>6. s.useOwnThread = list[n].useOwnThread /\ s.channel = ToByte(list[n].channel)
  BY <1>5 DEF Plugin
<1>7. GroupOfCall(i) = IF s.useOwnThread THEN <<kind, s.channel>> ELSE <<kind>>
  BY Zenon DEF GroupOfCall, GroupOf, kind, s
<1>8. CASE s.useOwnThread
  <2>1. GroupOfCall(i) = <<kind, ToByte(list[n].channel)>>
    BY <1>6, <1>7, <1>8, Zenon
  <2>2. GroupOfCall(i) \in OwnGroups(kind, list)
    <3>1. n \in {m \in DOMAIN list : list[m].useOwnThread}
      BY <1>6, <1>8
    <3> QED
      BY <2>1, <3>1, Zenon DEF OwnGroups
  <2>3. CASE kind = "service"
    <3>1. list = p.serviceServer
      BY <2>3 DEF list
    <3> QED
      BY <2>2, <2>3, <3>1 DEF WaitingGroups, p
  <2>4. CASE kind = "action"
    <3>1. list = p.actionServer
      BY <2>4 DEF list
    <3> QED
      BY <2>2, <2>4, <3>1 DEF WaitingGroups, p
  <2> QED
    BY <1>2, <2>3, <2>4 DEF Kind
<1>9. CASE ~s.useOwnThread
  <2>1. GroupOfCall(i) = <<kind>>
    BY <1>7, <1>9, Zenon
  <2>2. GroupOfCall(i) \in {<<"service">>} \cup {<<"action">>}
    BY <1>2, <2>1 DEF Kind
  <2> QED
    BY <2>2 DEF WaitingGroups, p
<1> QED
  BY <1>8, <1>9

\* When every thread of an executor waits for an answer, one callback group holds two calls:
\* the threads ConnectBase::evalNrOfMultiThreadedExecutorThreads counts are more than the
\* groups, by the pigeonhole principle.
THEOREM StarvedOnlyByOverlap == Spec => []StarvationNeedsOverlap
<1>1. HostsInv => StarvationNeedsOverlap
  <2> SUFFICES ASSUME HostsInv, NEW h \in Host, Up(h), ~ThreadFree(h)
               PROVE  \E i, j \in Holding(h) : i # j /\ GroupOfCall(i) = GroupOfCall(j)
    BY DEF StarvationNeedsOverlap
  <2> DEFINE S == Holding(h)
             T == WaitingGroups(given.param[h])
             f == [i \in S |-> GroupOfCall(i)]
  <2>1. IsFiniteSet(S) /\ Cardinality(S) \in Nat
    BY HoldingFinite
  <2>2. /\ given \in Candidates /\ NumberOfThreads(h) >= 1
        /\ config[h].threads = NumberOfThreads(h) /\ config[h].threads \in Nat
    BY ConfigFacts DEF HostsInv, Started, AcceptedInv, Accepted
  <2>3. IsFiniteSet(T) /\ Cardinality(T) \in Nat /\ Cardinality(T) < NumberOfThreads(h)
    BY <2>2, FewerGroupsThanThreads
  <2>4. Cardinality(T) < Cardinality(S)
    BY <2>1, <2>2, <2>3 DEF ThreadFree
  <2>5. \A i \in S : GroupOfCall(i) \in T
    BY GroupKnown
  <2> HIDE DEF S, T
  <2>6. f \in [S -> T]
    BY <2>5
  <2>7. \E i, j \in S : i # j /\ f[i] = f[j]
    <3> HIDE DEF f
    <3> QED
      BY <2>1, <2>3, <2>4, <2>6, FS_PigeonHole
  <2> QED
    BY <2>7 DEF S
<1> QED
  BY <1>1, HostsInvariant, PTL

=============================================================================
