--------------------------- MODULE DataPathProofs ---------------------------
(***************************************************************************)
(* TLAPS proofs about DataPath, for any channels and any number of         *)
(* messages: that the types are kept, that a stream has one writer, that   *)
(* the path of a channel implements LossyFifo, and that therefore nothing  *)
(* is published twice or, from a shared subscriber, out of order.          *)
(***************************************************************************)
EXTENDS DataPath, SequenceTheorems, WellFoundedInduction, TLAPS

USE DEF callbackVars, subscriberVars, writerVars, managerVars, publisherVars, receiverVars

\* A connection starts with empty queues and an open stream.
LEMMA Starts == Init => TypeOK /\ OneWriter
BY ChannelAssumption DEF Init, TypeOK, OneWriter, AtMostOne

\* Its channel and its number.
LEMMA Fields == \A m \in Message : m.channel \in Channels /\ m.id \in Ids
BY DEF Message

\* What a thread holds is a message.
LEMMA Held == \A s \in AtMostOne : s # <<>> => Head(s) \in Message
BY DEF AtMostOne

\* A queue of messages, at its two ends.
LEMMA Pieces ==
  /\ <<>> \in Seq(Message)
  /\ \A s \in Seq(Message), m \in Message : Append(s, m) \in Seq(Message)
  /\ \A s \in Seq(Message) : s # <<>> => Head(s) \in Message /\ Tail(s) \in Seq(Message)
  /\ \A s \in Seq(Ids), i \in Ids : Append(s, i) \in Seq(Ids)
OBVIOUS

\* The flags of the two ends, and the type of everything else.
Flags == streamOpen \in BOOLEAN /\ senderUp \in BOOLEAN /\ receiverUp \in BOOLEAN

Queues ==
  /\ arrived \in 0 .. MaxMessages
  /\ callbacks \subseteq Message
  /\ accepted \in [Channels -> SUBSET Ids]
  /\ subscribed \subseteq Channels /\ cut \subseteq Channels
  /\ toSend \in [Channels -> Seq(Message)] /\ sending \in [Channels -> AtMostOne]
  /\ posted \in Seq(Message) /\ sendingQueue \in Seq(Message)
  /\ writing \in {"no", "begun", "done"}
  /\ wire \in Seq(Message)
  /\ toPublish \in Seq(Message) /\ routing \in AtMostOne
  /\ queue \in [Channels -> Seq(Message)] /\ publishing \in [Channels -> AtMostOne]
  /\ published \in [Channels -> Seq(Ids)]

\* Together they are the type invariant.
LEMMA TypesApart == TypeOK <=> Flags /\ Queues
BY Zenon DEF TypeOK, Flags, Queues

\* Nothing but an error, a close or a stop changes a flag, and only to FALSE.
LEMMA FlagsKept == Flags /\ [Next]_vars => Flags'
<1> SUFFICES ASSUME Flags, [Next]_vars PROVE Flags'
  OBVIOUS
<1>1. CASE UNCHANGED <<streamOpen, senderUp, receiverUp>>
  BY <1>1 DEF Flags
<1>2. CASE WriteFailed \/ StreamCloses \/ StopSender \/ StopReceiver
  BY <1>2 DEF Flags, WriteFailed, StreamCloses, StopSender, StopReceiver
<1>3. ASSUME Sender \/ Strand \/ Receiver PROVE UNCHANGED <<streamOpen, senderUp, receiverUp>>
  BY <1>3 DEF Sender, TakeToSend, SendThreaded, QueueToSend, SendShared, Strand, queueMessage, Transmit,
              Written, Receiver, publish, TakeToRoute, RouteUnknown, RouteThreaded, RouteShared,
              TakeToPublish, rosPublish
<1>4. ASSUME NEW c \in Channels, BeginCallback(c) \/ Subscribe(c) \/ Unsubscribe(c)
      PROVE  UNCHANGED <<streamOpen, senderUp, receiverUp>>
  BY <1>4 DEF BeginCallback, Subscribe, Unsubscribe
<1> QED
  BY <1>1, <1>2, <1>3, <1>4 DEF Next, vars

\* Every thread hands on messages, whole, to the next queue; a handler of a write finds its
\* message at the head of sendingQueue (OneWriter).
LEMMA QueuesKept == Queues /\ OneWriter /\ [Next]_vars => Queues'
<1> SUFFICES ASSUME Queues, OneWriter, [Next]_vars PROVE Queues'
  OBVIOUS
<1> USE ChannelAssumption DEF Queues
<1>1. ASSUME NEW c \in Channels, BeginCallback(c) PROVE Queues'
  <2>1. arrived' \in 0 .. MaxMessages
    BY <1>1 DEF BeginCallback
  <2>2. callbacks' \subseteq Message
    BY <1>1 DEF BeginCallback, Msg, Message, Ids
  <2> QED
    BY <1>1, <2>1, <2>2 DEF BeginCallback
<1>2. ASSUME NEW m \in Message, QueueToSend(m) PROVE Queues'
  <2>1. callbacks' \subseteq Message
    BY <1>2 DEF QueueToSend
  <2>2. accepted' \in [Channels -> SUBSET Ids]
    BY <1>2, Fields DEF QueueToSend
  <2>3. toSend' \in [Channels -> Seq(Message)]
    BY <1>2, Fields, Pieces DEF QueueToSend
  <2> QED
    BY <1>2, <2>1, <2>2, <2>3 DEF QueueToSend
<1>3. ASSUME NEW m \in Message, SendShared(m) PROVE Queues'
  <2>1. callbacks' \subseteq Message
    BY <1>3 DEF SendShared
  <2>2. accepted' \in [Channels -> SUBSET Ids]
    BY <1>3, Fields DEF SendShared
  <2>3. posted' \in Seq(Message)
    BY <1>3, Pieces DEF SendShared, Post
  <2> QED
    BY <1>3, <2>1, <2>2, <2>3 DEF SendShared, Post
<1>4. ASSUME NEW c \in Channels, TakeToSend(c) PROVE Queues'
  <2>1. toSend' \in [Channels -> Seq(Message)]
    BY <1>4, Pieces DEF TakeToSend
  <2>2. sending' \in [Channels -> AtMostOne]
    BY <1>4, Pieces DEF TakeToSend, AtMostOne
  <2> QED
    BY <1>4, <2>1, <2>2 DEF TakeToSend
<1>5. ASSUME NEW c \in Channels, SendThreaded(c) PROVE Queues'
  <2>1. posted' \in Seq(Message)
    BY <1>5, Pieces, Held DEF SendThreaded, Post
  <2>2. sending' \in [Channels -> AtMostOne]
    BY <1>5 DEF SendThreaded, AtMostOne
  <2> QED
    BY <1>5, <2>1, <2>2 DEF SendThreaded, Post
<1>6. ASSUME NEW c \in Channels, Subscribe(c) PROVE Queues'
  BY <1>6 DEF Subscribe
<1>7. ASSUME NEW c \in Channels, Unsubscribe(c) PROVE Queues'
  <2>1. subscribed' \subseteq Channels /\ cut' \subseteq Channels
    BY <1>7 DEF Unsubscribe
  <2>2. callbacks' \subseteq Message
    BY <1>7 DEF Unsubscribe
  <2>3. toSend' \in [Channels -> Seq(Message)]
    BY <1>7 DEF Unsubscribe
  <2>4. sending' \in [Channels -> AtMostOne]
    BY <1>7 DEF Unsubscribe, AtMostOne
  <2> QED
    BY <1>7, <2>1, <2>2, <2>3, <2>4 DEF Unsubscribe
<1>8. ASSUME queueMessage PROVE Queues'
  <2>1. posted' \in Seq(Message)
    BY <1>8, Pieces DEF queueMessage
  <2>2. sendingQueue' \in Seq(Message)
    <3>1. Head(posted) \in Message
      BY <1>8, Pieces DEF queueMessage
    <3>2. Append(sendingQueue, Head(posted)) \in Seq(Message)
      BY <3>1, Pieces
    <3>3. sendingQueue' = Append(sendingQueue, Head(posted)) \/ sendingQueue' = <<>>
      BY <1>8 DEF queueMessage, asyncWrite
    <3> QED
      BY <3>2, <3>3, Pieces
  <2>3. writing' \in {"no", "begun", "done"}
    BY <1>8 DEF queueMessage, asyncWrite
  <2> QED
    BY <1>8, <2>1, <2>2, <2>3 DEF queueMessage
<1>9. ASSUME Transmit PROVE Queues'
  <2>1. wire' \in Seq(Message)
    BY <1>9, Pieces DEF Transmit, OneWriter
  <2>2. writing' \in {"no", "begun", "done"}
    BY <1>9 DEF Transmit
  <2> QED
    BY <1>9, <2>1, <2>2 DEF Transmit
<1>10. ASSUME Written PROVE Queues'
  <2>1. sendingQueue' \in Seq(Message)
    <3>1. Tail(sendingQueue) \in Seq(Message)
      BY <1>10, Pieces DEF Written, OneWriter
    <3>2. sendingQueue' = Tail(sendingQueue) \/ sendingQueue' = <<>>
      BY <1>10 DEF Written, asyncWrite
    <3> QED
      BY <3>1, <3>2, Pieces
  <2>2. writing' \in {"no", "begun", "done"}
    BY <1>10 DEF Written, asyncWrite
  <2> QED
    BY <1>10, <2>1, <2>2 DEF Written
<1>11. ASSUME WriteFailed PROVE Queues'
  <2>1. sendingQueue' \in Seq(Message)
    BY <1>11, Pieces DEF WriteFailed, OneWriter
  <2>2. writing' \in {"no", "begun", "done"}
    BY <1>11 DEF WriteFailed
  <2> QED
    BY <1>11, <2>1, <2>2 DEF WriteFailed
<1>12. ASSUME StreamCloses PROVE Queues'
  BY <1>12 DEF StreamCloses
<1>13. ASSUME StopSender PROVE Queues'
  BY <1>13 DEF StopSender
<1>14. ASSUME publish PROVE Queues'
  <2>1. wire' \in Seq(Message)
    BY <1>14, Pieces DEF publish
  <2>2. toPublish' \in Seq(Message)
    BY <1>14, Pieces DEF publish
  <2> QED
    BY <1>14, <2>1, <2>2 DEF publish
<1>15. ASSUME TakeToRoute PROVE Queues'
  <2>1. toPublish' \in Seq(Message)
    BY <1>15, Pieces DEF TakeToRoute
  <2>2. routing' \in AtMostOne
    BY <1>15, Pieces DEF TakeToRoute, AtMostOne
  <2> QED
    BY <1>15, <2>1, <2>2 DEF TakeToRoute
<1>16. ASSUME NEW c \in Channels, RouteThreaded(c) PROVE Queues'
  <2>1. routing' \in AtMostOne
    BY <1>16 DEF RouteThreaded, AtMostOne
  <2>2. queue' \in [Channels -> Seq(Message)]
    BY <1>16, Pieces, Held DEF RouteThreaded
  <2> QED
    BY <1>16, <2>1, <2>2 DEF RouteThreaded
<1>17. ASSUME NEW c \in Channels, RouteShared(c) PROVE Queues'
  <2>1. routing' \in AtMostOne
    BY <1>17 DEF RouteShared, AtMostOne
  <2>2. published' \in [Channels -> Seq(Ids)]
    BY <1>17, Fields, Pieces, Held DEF RouteShared
  <2> QED
    BY <1>17, <2>1, <2>2 DEF RouteShared
<1>18. ASSUME RouteUnknown PROVE Queues'
  <2>1. routing' \in AtMostOne
    BY <1>18 DEF RouteUnknown, AtMostOne
  <2> QED
    BY <1>18, <2>1 DEF RouteUnknown
<1>19. ASSUME NEW c \in Channels, TakeToPublish(c) PROVE Queues'
  <2>1. queue' \in [Channels -> Seq(Message)]
    BY <1>19, Pieces DEF TakeToPublish
  <2>2. publishing' \in [Channels -> AtMostOne]
    BY <1>19, Pieces DEF TakeToPublish, AtMostOne
  <2> QED
    BY <1>19, <2>1, <2>2 DEF TakeToPublish
<1>20. ASSUME NEW c \in Channels, rosPublish(c) PROVE Queues'
  <2>1. published' \in [Channels -> Seq(Ids)]
    BY <1>20, Fields, Pieces, Held DEF rosPublish
  <2>2. publishing' \in [Channels -> AtMostOne]
    BY <1>20 DEF rosPublish, AtMostOne
  <2> QED
    BY <1>20, <2>1, <2>2 DEF rosPublish
<1>21. ASSUME StopReceiver PROVE Queues'
  BY <1>21 DEF StopReceiver
<1>22. CASE UNCHANGED vars
  BY <1>22 DEF vars
<1> QED
  BY <1>1, <1>2, <1>3, <1>4, <1>5, <1>6, <1>7, <1>8, <1>9, <1>10, <1>11, <1>12,
     <1>13, <1>14, <1>15, <1>16, <1>17, <1>18, <1>19, <1>20, <1>21, <1>22
     DEF Next, Sender, Strand, Receiver

\* The type invariant is inductive, beside OneWriter.
LEMMA TypesKept == TypeOK /\ OneWriter /\ [Next]_vars => TypeOK'
<1>1. TypeOK' <=> Flags' /\ Queues'
  BY Zenon DEF TypeOK, Flags, Queues
<1> QED
  BY <1>1, TypesApart, FlagsKept, QueuesKept

\* Only the strand and the stream touch the queue of the writer.
LEMMA WriterKept == TypeOK /\ OneWriter /\ [Next]_vars => OneWriter'
<1> SUFFICES ASSUME TypeOK, OneWriter, [Next]_vars PROVE OneWriter'
  OBVIOUS
<1> USE DEF OneWriter
<1>1. CASE UNCHANGED <<sendingQueue, writing, streamOpen>>
  BY <1>1
<1>2. CASE queueMessage
  BY <1>2 DEF TypeOK, queueMessage, asyncWrite
<1>3. CASE Transmit
  BY <1>3 DEF TypeOK, Transmit
<1>4. CASE Written
  BY <1>4 DEF TypeOK, Written, asyncWrite
<1>5. CASE WriteFailed
  BY <1>5 DEF TypeOK, WriteFailed
<1>6. CASE StreamCloses \/ StopSender
  BY <1>6 DEF TypeOK, StreamCloses, StopSender
<1>7. ASSUME Sender PROVE UNCHANGED <<sendingQueue, writing, streamOpen>>
  BY <1>7 DEF Sender, TakeToSend, SendThreaded, QueueToSend, SendShared
<1>8. ASSUME Receiver PROVE UNCHANGED <<sendingQueue, writing, streamOpen>>
  BY <1>8 DEF Receiver, publish, TakeToRoute, RouteUnknown, RouteThreaded, RouteShared, TakeToPublish,
              rosPublish
<1>9. ASSUME NEW c \in Channels, BeginCallback(c) \/ Subscribe(c) \/ Unsubscribe(c)
      PROVE  UNCHANGED <<sendingQueue, writing, streamOpen>>
  BY <1>9 DEF BeginCallback, Subscribe, Unsubscribe
<1>10. ASSUME StopReceiver \/ UNCHANGED vars PROVE UNCHANGED <<sendingQueue, writing, streamOpen>>
  BY <1>10 DEF StopReceiver, vars
<1> QED
  BY <1>1, <1>2, <1>3, <1>4, <1>5, <1>6, <1>7, <1>8, <1>9, <1>10 DEF Next, Strand

\* Everything keeps its type; a thread works on one message at a time.
THEOREM TypeCorrect == Spec => []TypeOK
<1>1. Init => TypeOK /\ OneWriter
  BY Starts
<1>2. TypeOK /\ OneWriter /\ [Next]_vars => TypeOK' /\ OneWriter'
  BY TypesKept, WriterKept
<1> QED
  BY <1>1, <1>2, PTL DEF Spec

\* On an open stream a message waits to be written exactly while a write is under way, for
\* any interleaving of posts, writes, errors and stops (ConnectionBase::queueMessage,
\* WebsocketConnectionBase::asyncWrite).
THEOREM WriterIsAlone == Spec => []OneWriter
<1>1. Init => TypeOK /\ OneWriter
  BY Starts
<1>2. TypeOK /\ OneWriter /\ [Next]_vars => TypeOK' /\ OneWriter'
  BY TypesKept, WriterKept
<1> QED
  BY <1>1, <1>2, PTL DEF Spec

-----------------------------------------------------------------------------
\* What a filter keeps of a queue: IdsOf, by induction over the length.

\* Induction over the natural numbers, as a fact about a set.
LEMMA NatSetInduction ==
  ASSUME NEW S, 0 \in S, \A n \in Nat : n \in S => n + 1 \in S
  PROVE  Nat \subseteq S
<1> DEFINE T == {n \in Nat : n \notin S}
<1> SUFFICES ASSUME T # {} PROVE FALSE
  OBVIOUS
<1>1. PICK x \in T : \A y \in T : ~ (<<y, x>> \in OpToRel(<, Nat))
  <2>1. T \subseteq Nat
    OBVIOUS
  <2> HIDE DEF T
  <2> QED
    BY <2>1, NatLessThanWellFounded, WFMin
<1>2. x \in Nat /\ x # 0 /\ x - 1 \in Nat
  OBVIOUS
<1>3. x - 1 \in T
  <2>1. x - 1 \in S => (x - 1) + 1 \in S
    BY <1>2
  <2> QED
    BY <1>2, <2>1
<1>4. <<x - 1, x>> \in OpToRel(<, Nat)
  <2>1. x - 1 < x
    BY <1>2
  <2> QED
    BY <1>2, <2>1 DEF OpToRel
<1> QED
  BY <1>1, <1>3, <1>4

\* Induction over the queues of messages, by the last message.
LEMMA QueueInduction ==
  ASSUME NEW S, <<>> \in S,
         \A q \in Seq(Message), m \in Message : q \in S => Append(q, m) \in S
  PROVE  Seq(Message) \subseteq S
<1> DEFINE T == {n \in Nat : \A q \in Seq(Message) : Len(q) = n => q \in S}
<1>1. 0 \in T
  <2>1. \A q \in Seq(Message) : Len(q) = 0 => q = <<>>
    OBVIOUS
  <2> QED
    BY <2>1
<1>2. ASSUME NEW n \in Nat, n \in T PROVE n + 1 \in T
  <2> SUFFICES ASSUME NEW q \in Seq(Message), Len(q) = n + 1 PROVE q \in S
    OBVIOUS
  <2>1. q # <<>>
    OBVIOUS
  <2>2. PICK f \in Seq(Message), m \in Message : q = Append(f, m)
    BY <2>1, SequenceEmptyOrAppend, Zenon
  <2>3. Len(f) = n
    BY <2>2
  <2>4. f \in S
    BY <1>2, <2>3
  <2> QED
    BY <2>2, <2>4
<1>3. Nat \subseteq T
  <2> HIDE DEF T
  <2> QED
    BY <1>1, <1>2, NatSetInduction
<1> QED
  <2> SUFFICES ASSUME NEW q \in Seq(Message) PROVE q \in S
    OBVIOUS
  <2>1. Len(q) \in T
    BY <1>3
  <2> QED
    BY <2>1

\* What the function in IdsOf computes for the first n messages of q.
Counted(f, n, q, c) ==
  f = [k \in 0 .. n |-> IF k = 0 THEN <<>>
                        ELSE IF q[k].channel = c THEN Append(f[k - 1], q[k].id) ELSE f[k - 1]]

\* There is such a function,
LEMMA CountedExists == ASSUME NEW q, NEW c, NEW n \in Nat PROVE \E f : Counted(f, n, q, c)
<1> DEFINE S == {k \in Nat : \E f : Counted(f, k, q, c)}
<1>1. 0 \in S
  <2> DEFINE g == [k \in 0 .. 0 |-> <<>>]
  <2>1. Counted(g, 0, q, c)
    BY DEF Counted
  <2> QED
    BY <2>1
<1>2. ASSUME NEW k \in Nat, k \in S PROVE k + 1 \in S
  <2>1. PICK f : Counted(f, k, q, c)
    BY <1>2
  <2> DEFINE g == [i \in 0 .. k + 1 |->
                     IF i = k + 1 THEN IF q[k + 1].channel = c THEN Append(f[k], q[k + 1].id) ELSE f[k]
                     ELSE f[i]]
  <2>2. \A i \in 0 .. k : g[i] = f[i]
    OBVIOUS
  <2>3. ASSUME NEW i \in 0 .. k + 1
        PROVE  g[i] = IF i = 0 THEN <<>>
                      ELSE IF q[i].channel = c THEN Append(g[i - 1], q[i].id) ELSE g[i - 1]
    <3>1. CASE i = k + 1
      <4>1. g[i - 1] = f[k] /\ i # 0
        BY <3>1, <2>2
      <4> QED
        BY <3>1, <4>1
    <3>2. CASE i \in 0 .. k
      <4>1. f[i] = IF i = 0 THEN <<>>
                   ELSE IF q[i].channel = c THEN Append(f[i - 1], q[i].id) ELSE f[i - 1]
        BY <2>1, <3>2 DEF Counted
      <4>2. i # 0 => g[i - 1] = f[i - 1]
        BY <2>2, <3>2
      <4>3. g[i] = f[i]
        BY <2>2, <3>2
      <4> HIDE DEF g
      <4> QED
        BY <4>1, <4>2, <4>3
    <3> QED
      BY <3>1, <3>2
  <2>4. Counted(g, k + 1, q, c)
    <3>1. g = [i \in 0 .. k + 1 |-> g[i]]
      OBVIOUS
    <3> HIDE DEF g
    <3> QED
      BY <2>3, <3>1 DEF Counted
  <2> QED
    BY <2>4
<1>3. Nat \subseteq S
  <2> HIDE DEF S
  <2> QED
    BY <1>1, <1>2, NatSetInduction
<1> QED
  BY <1>3

\* and two of them agree on what both are given, if the messages are the same.
LEMMA CountedAgree ==
  ASSUME NEW c, NEW p, NEW q, NEW n \in Nat, NEW m \in Nat, n <= m, NEW f, NEW g,
         Counted(f, n, p, c), Counted(g, m, q, c), \A i \in 1 .. n : p[i] = q[i]
  PROVE  f[n] = g[n]
<1> DEFINE S == {k \in Nat : k <= n => f[k] = g[k]}
<1>1. 0 \in S
  BY DEF Counted
<1>2. ASSUME NEW k \in Nat, k \in S PROVE k + 1 \in S
  <2> SUFFICES ASSUME k + 1 <= n PROVE f[k + 1] = g[k + 1]
    OBVIOUS
  <2>1. k + 1 \in 0 .. n /\ k + 1 \in 0 .. m /\ k + 1 # 0 /\ (k + 1) - 1 = k
    OBVIOUS
  <2>2. f[k + 1] = IF p[k + 1].channel = c THEN Append(f[k], p[k + 1].id) ELSE f[k]
    BY <2>1 DEF Counted
  <2>3. g[k + 1] = IF q[k + 1].channel = c THEN Append(g[k], q[k + 1].id) ELSE g[k]
    BY <2>1 DEF Counted
  <2>4. f[k] = g[k] /\ p[k + 1] = q[k + 1]
    BY <1>2
  <2> QED
    BY <2>2, <2>3, <2>4
<1>3. Nat \subseteq S
  <2> HIDE DEF S
  <2> QED
    BY <1>1, <1>2, NatSetInduction
<1> QED
  BY <1>3

\* IdsOf is what such a function ends with.
LEMMA IdsOfCounted ==
  ASSUME NEW q, NEW c, Len(q) \in Nat
  PROVE  \E f : Counted(f, Len(q), q, c) /\ IdsOf(q, c) = f[Len(q)]
<1> DEFINE f == CHOOSE f : Counted(f, Len(q), q, c)
<1>1. Counted(f, Len(q), q, c)
  BY CountedExists
<1>2. IdsOf(q, c) = f[Len(q)]
  BY DEF IdsOf, Counted
<1> QED
  BY <1>1, <1>2

\* An empty queue has no ids;
LEMMA IdsOfEmpty == ASSUME NEW c PROVE IdsOf(<<>>, c) = <<>>
<1>1. PICK f : Counted(f, Len(<<>>), <<>>, c) /\ IdsOf(<<>>, c) = f[Len(<<>>)]
  BY IdsOfCounted
<1> QED
  BY <1>1 DEF Counted

\* a message of the channel adds its id, another nothing.
LEMMA IdsOfAppend ==
  ASSUME NEW c, NEW q \in Seq(Message), NEW m \in Message
  PROVE  IdsOf(Append(q, m), c) = IF m.channel = c THEN Append(IdsOf(q, c), m.id) ELSE IdsOf(q, c)
<1> DEFINE n == Len(q)
           r == Append(q, m)
<1>1. n \in Nat /\ Len(r) = n + 1 /\ r[n + 1] = m /\ \A i \in 1 .. n : q[i] = r[i]
  OBVIOUS
<1>2. PICK f : Counted(f, n, q, c) /\ IdsOf(q, c) = f[n]
  BY <1>1, IdsOfCounted
<1> HIDE DEF n, r
<1>3. PICK g : Counted(g, n + 1, r, c) /\ IdsOf(r, c) = g[n + 1]
  <2>1. Len(r) \in Nat
    BY <1>1
  <2>2. \E g : Counted(g, Len(r), r, c) /\ IdsOf(r, c) = g[Len(r)]
    BY <2>1, IdsOfCounted
  <2> QED
    BY <1>1, <2>2
<1>4. f[n] = g[n]
  BY <1>1, <1>2, <1>3, CountedAgree
<1>5. g[n + 1] = IF r[n + 1].channel = c THEN Append(g[n], r[n + 1].id) ELSE g[n]
  <2>1. n + 1 \in 0 .. n + 1 /\ n + 1 # 0 /\ (n + 1) - 1 = n
    BY <1>1
  <2> QED
    BY <1>3, <2>1 DEF Counted
<1> QED
  BY <1>1, <1>2, <1>3, <1>4, <1>5 DEF r

\* They are ids,
LEMMA IdsOfType == ASSUME NEW c, NEW q \in Seq(Message) PROVE IdsOf(q, c) \in Seq(Ids)
<1> DEFINE S == {p \in Seq(Message) : IdsOf(p, c) \in Seq(Ids)}
<1>1. <<>> \in S
  <2>1. <<>> \in Seq(Message) /\ <<>> \in Seq(Ids)
    OBVIOUS
  <2>2. IdsOf(<<>>, c) = <<>>
    BY IdsOfEmpty
  <2> QED
    BY <2>1, <2>2, Zenon
<1>2. ASSUME NEW p \in Seq(Message), NEW m \in Message, p \in S PROVE Append(p, m) \in S
  <2>1. Append(p, m) \in Seq(Message)
    OBVIOUS
  <2>2. IdsOf(Append(p, m), c) \in Seq(Ids)
    BY <1>2, IdsOfAppend, Fields
  <2> QED
    BY <2>1, <2>2
<1>3. Seq(Message) \subseteq S
  <2> HIDE DEF S
  <2> QED
    BY <1>1, <1>2, QueueInduction
<1> QED
  BY <1>3

\* and one queue after the other has the ids of the one after those of the other.
LEMMA IdsOfConcat ==
  ASSUME NEW c, NEW p \in Seq(Message), NEW q \in Seq(Message)
  PROVE  IdsOf(p \o q, c) = IdsOf(p, c) \o IdsOf(q, c)
<1> DEFINE S == {r \in Seq(Message) : IdsOf(p \o r, c) = IdsOf(p, c) \o IdsOf(r, c)}
<1>0. IdsOf(p, c) \in Seq(Ids)
  BY IdsOfType
<1>1. <<>> \in S
  <2>1. p \o <<>> = p /\ IdsOf(p, c) \o <<>> = IdsOf(p, c) /\ <<>> \in Seq(Message)
    BY <1>0
  <2>2. IdsOf(<<>>, c) = <<>>
    BY IdsOfEmpty
  <2> QED
    BY <2>1, <2>2, Zenon
<1>2. ASSUME NEW r \in Seq(Message), NEW m \in Message, r \in S PROVE Append(r, m) \in S
  <2>1. p \o Append(r, m) = Append(p \o r, m) /\ p \o r \in Seq(Message)
    OBVIOUS
  <2>2. IdsOf(r, c) \in Seq(Ids) /\ m.id \in Ids
    BY IdsOfType, Fields
  <2>3. IdsOf(p, c) \o Append(IdsOf(r, c), m.id) = Append(IdsOf(p, c) \o IdsOf(r, c), m.id)
    BY <1>0, <2>2
  <2>4. IdsOf(Append(p \o r, m), c)
          = IF m.channel = c THEN Append(IdsOf(p \o r, c), m.id) ELSE IdsOf(p \o r, c)
    BY <2>1, IdsOfAppend
  <2>5. IdsOf(Append(r, m), c) = IF m.channel = c THEN Append(IdsOf(r, c), m.id) ELSE IdsOf(r, c)
    BY IdsOfAppend
  <2>6. IdsOf(p \o r, c) = IdsOf(p, c) \o IdsOf(r, c)
    BY <1>2
  <2>7. IdsOf(p \o Append(r, m), c) = IdsOf(p, c) \o IdsOf(Append(r, m), c)
    BY <2>1, <2>3, <2>4, <2>5, <2>6, Zenon
  <2> QED
    BY <2>7
<1>3. Seq(Message) \subseteq S
  <2> HIDE DEF S
  <2> QED
    BY <1>1, <1>2, QueueInduction
<1> QED
  BY <1>3

-----------------------------------------------------------------------------
\* The path of a channel, in pieces.

\* a, then b: the provers know of it what follows, and no more.
Cat(a, b) == a \o b

\* Sequences of ids, one after the other.
LEMMA Joined ==
  /\ \A a, b \in Seq(Ids) : Cat(a, b) \in Seq(Ids)
  /\ \A a, b, d \in Seq(Ids) : Cat(Cat(a, b), d) = Cat(a, Cat(b, d))
  /\ \A a \in Seq(Ids) : Cat(a, <<>>) = a /\ Cat(<<>>, a) = a
  /\ <<>> \in Seq(Ids)
<1>1. \A a, b \in Seq(Ids) : Cat(a, b) \in Seq(Ids)
  BY DEF Cat
<1>2. \A a, b, d \in Seq(Ids) : Cat(Cat(a, b), d) = Cat(a, Cat(b, d))
  BY ConcatAssociative DEF Cat
<1>3. \A a \in Seq(Ids) : Cat(a, <<>>) = a /\ Cat(<<>>, a) = a
  BY DEF Cat
<1> QED
  BY <1>1, <1>2, <1>3

\* A queue is its first message before the others, or its last behind the others.
LEMMA IdsOfEnds ==
  ASSUME NEW c
  PROVE  /\ \A q \in Seq(Message) :
              q # <<>> => IdsOf(q, c) = Cat(IdsOf(<<Head(q)>>, c), IdsOf(Tail(q), c))
         /\ \A q \in Seq(Message), m \in Message :
              IdsOf(Append(q, m), c) = Cat(IdsOf(q, c), IdsOf(<<m>>, c))
         /\ \A m \in Message : IdsOf(<<m>>, c) = IF m.channel = c THEN <<m.id>> ELSE <<>>
<1>1. ASSUME NEW q \in Seq(Message), q # <<>>
      PROVE  IdsOf(q, c) = Cat(IdsOf(<<Head(q)>>, c), IdsOf(Tail(q), c))
  <2>1. Head(q) \in Message /\ Tail(q) \in Seq(Message)
    BY <1>1
  <2>2. q = <<Head(q)>> \o Tail(q) /\ <<Head(q)>> \in Seq(Message)
    BY <1>1, <2>1
  <2> QED
    BY <2>1, <2>2, IdsOfConcat DEF Cat
<1>2. ASSUME NEW q \in Seq(Message), NEW m \in Message
      PROVE  IdsOf(Append(q, m), c) = Cat(IdsOf(q, c), IdsOf(<<m>>, c))
  <2>1. Append(q, m) = q \o <<m>> /\ <<m>> \in Seq(Message)
    OBVIOUS
  <2> QED
    BY <2>1, IdsOfConcat DEF Cat
<1>3. ASSUME NEW m \in Message PROVE IdsOf(<<m>>, c) = IF m.channel = c THEN <<m.id>> ELSE <<>>
  <2>1. <<m>> = Append(<<>>, m) /\ <<>> \in Seq(Message) /\ <<m.id>> = Append(<<>>, m.id)
    OBVIOUS
  <2> QED
    BY <2>1, IdsOfAppend, IdsOfEmpty
<1> QED
  BY <1>1, <1>2, <1>3

\* t is s, or s without some of it from one place.
Drops(s, t) == \E a, x, b \in Seq(Ids) : s = Cat(a, Cat(x, b)) /\ t = Cat(a, b)

\* What drops from a part drops from the whole.
LEMMA DropsParts ==
  /\ \A s \in Seq(Ids) : Drops(s, s)
  /\ \A x, b \in Seq(Ids) : Drops(Cat(x, b), b)
  /\ \A s \in Seq(Ids) : Drops(s, <<>>)
  /\ \A p, s, t \in Seq(Ids) : Drops(s, t) => Drops(Cat(p, s), Cat(p, t)) /\ Drops(Cat(s, p), Cat(t, p))
<1>1. ASSUME NEW x \in Seq(Ids), NEW b \in Seq(Ids) PROVE Drops(Cat(x, b), b)
  <2>1. Cat(x, b) = Cat(<<>>, Cat(x, b)) /\ b = Cat(<<>>, b)
    BY Joined
  <2> QED
    BY <2>1, Joined DEF Drops
<1>2. ASSUME NEW s \in Seq(Ids) PROVE Drops(s, s) /\ Drops(s, <<>>)
  <2>1. Drops(Cat(<<>>, s), s) /\ Drops(Cat(s, <<>>), <<>>)
    BY <1>1, Joined
  <2>2. Cat(<<>>, s) = s /\ Cat(s, <<>>) = s
    BY Joined
  <2> QED
    BY <2>1, <2>2
<1>3. ASSUME NEW p \in Seq(Ids), NEW s \in Seq(Ids), NEW t \in Seq(Ids), Drops(s, t)
      PROVE  Drops(Cat(p, s), Cat(p, t)) /\ Drops(Cat(s, p), Cat(t, p))
  <2>1. PICK a \in Seq(Ids), x \in Seq(Ids), b \in Seq(Ids) : s = Cat(a, Cat(x, b)) /\ t = Cat(a, b)
    BY <1>3 DEF Drops
  <2>2. Cat(x, b) \in Seq(Ids) /\ Cat(p, a) \in Seq(Ids) /\ Cat(b, p) \in Seq(Ids)
    BY Joined
  <2>3. Cat(p, s) = Cat(Cat(p, a), Cat(x, b)) /\ Cat(p, t) = Cat(Cat(p, a), b)
    BY <2>1, <2>2, Joined
  <2>4. Cat(s, p) = Cat(a, Cat(x, Cat(b, p))) /\ Cat(t, p) = Cat(a, Cat(b, p))
    <3>1. Cat(s, p) = Cat(a, Cat(Cat(x, b), p))
      BY <2>1, <2>2, Joined
    <3>2. Cat(Cat(x, b), p) = Cat(x, Cat(b, p))
      BY Joined
    <3>3. Cat(t, p) = Cat(a, Cat(b, p))
      BY <2>1, Joined
    <3> QED
      BY <3>1, <3>2, <3>3
  <2> QED
    BY <2>2, <2>3, <2>4 DEF Drops
<1> QED
  BY <1>1, <1>2, <1>3

\* The part of a path on the receiving host and on the wire.
Ahead(c) ==
  IF receiverUp
  THEN Cat(IdsOf(publishing[c], c),
         Cat(IdsOf(queue[c], c), Cat(IdsOf(routing, c), Cat(IdsOf(toPublish, c), IdsOf(wire, c)))))
  ELSE <<>>

\* What is still with the host that sends.
Behind(c) ==
  IF senderUp
  THEN Cat(IdsOf(Untransmitted, c),
         Cat(IdsOf(posted, c), Cat(IdsOf(sending[c], c), IdsOf(toSend[c], c))))
  ELSE <<>>

\* The queues of a path.
LEMMA PathTypes ==
  ASSUME TypeOK, OneWriter, NEW c \in Channels
  PROVE  /\ publishing[c] \in Seq(Message) /\ queue[c] \in Seq(Message) /\ routing \in Seq(Message)
         /\ toPublish \in Seq(Message) /\ wire \in Seq(Message) /\ Untransmitted \in Seq(Message)
         /\ posted \in Seq(Message) /\ sending[c] \in Seq(Message) /\ toSend[c] \in Seq(Message)
<1>1. AtMostOne \subseteq Seq(Message)
  <2>1. \A m \in Message : <<m>> \in Seq(Message)
    OBVIOUS
  <2>2. <<>> \in Seq(Message)
    OBVIOUS
  <2> QED
    BY <2>1, <2>2, Zenon DEF AtMostOne
<1>2. /\ publishing[c] \in AtMostOne /\ sending[c] \in AtMostOne /\ routing \in AtMostOne
      /\ queue[c] \in Seq(Message) /\ toSend[c] \in Seq(Message)
      /\ toPublish \in Seq(Message) /\ wire \in Seq(Message) /\ posted \in Seq(Message)
  BY DEF TypeOK
<1>3. Untransmitted \in Seq(Message)
  BY Pieces DEF TypeOK, OneWriter, Untransmitted
<1> QED
  BY <1>1, <1>2, <1>3

\* The ids of four or five queues, one after the other.
LEMMA IdsOfFive ==
  ASSUME NEW c, NEW p \in Seq(Message), NEW q \in Seq(Message), NEW r \in Seq(Message),
         NEW s \in Seq(Message), NEW t \in Seq(Message)
  PROVE  /\ IdsOf(p \o q \o r \o s, c)
              = Cat(IdsOf(p, c), Cat(IdsOf(q, c), Cat(IdsOf(r, c), IdsOf(s, c))))
         /\ IdsOf(p \o q \o r \o s \o t, c)
              = Cat(IdsOf(p, c), Cat(IdsOf(q, c), Cat(IdsOf(r, c), Cat(IdsOf(s, c), IdsOf(t, c)))))
<1>1. /\ IdsOf(p, c) \in Seq(Ids) /\ IdsOf(q, c) \in Seq(Ids) /\ IdsOf(r, c) \in Seq(Ids)
      /\ IdsOf(s, c) \in Seq(Ids) /\ IdsOf(t, c) \in Seq(Ids)
  BY IdsOfType
<1>2. p \o q \in Seq(Message) /\ p \o q \o r \in Seq(Message) /\ p \o q \o r \o s \in Seq(Message)
  OBVIOUS
<1>3. IdsOf(p \o q, c) = Cat(IdsOf(p, c), IdsOf(q, c))
  BY IdsOfConcat DEF Cat
<1>4. IdsOf(p \o q \o r, c) = Cat(IdsOf(p \o q, c), IdsOf(r, c))
  BY <1>2, IdsOfConcat DEF Cat
<1>5. IdsOf(p \o q \o r \o s, c) = Cat(IdsOf(p \o q \o r, c), IdsOf(s, c))
  BY <1>2, IdsOfConcat DEF Cat
<1>6. IdsOf(p \o q \o r \o s \o t, c) = Cat(IdsOf(p \o q \o r \o s, c), IdsOf(t, c))
  BY <1>2, IdsOfConcat DEF Cat
<1>7. ASSUME NEW i \in Seq(Ids), NEW j \in Seq(Ids), NEW k \in Seq(Ids), NEW l \in Seq(Ids)
      PROVE  Cat(Cat(Cat(i, j), k), l) = Cat(i, Cat(j, Cat(k, l)))
  <2>1. Cat(i, j) \in Seq(Ids) /\ Cat(k, l) \in Seq(Ids)
    BY Joined
  <2>2. Cat(Cat(Cat(i, j), k), l) = Cat(Cat(i, j), Cat(k, l))
    BY <2>1, Joined
  <2>3. Cat(Cat(i, j), Cat(k, l)) = Cat(i, Cat(j, Cat(k, l)))
    BY <2>1, Joined
  <2> QED
    BY <2>2, <2>3
<1>8. ASSUME NEW i \in Seq(Ids), NEW j \in Seq(Ids), NEW k \in Seq(Ids), NEW l \in Seq(Ids),
             NEW m \in Seq(Ids)
      PROVE  Cat(Cat(Cat(Cat(i, j), k), l), m) = Cat(i, Cat(j, Cat(k, Cat(l, m))))
  <2>1. Cat(Cat(i, j), k) \in Seq(Ids) /\ Cat(l, m) \in Seq(Ids)
    BY Joined
  <2>2. Cat(Cat(Cat(Cat(i, j), k), l), m) = Cat(Cat(Cat(i, j), k), Cat(l, m))
    BY <2>1, Joined
  <2>3. Cat(Cat(Cat(i, j), k), Cat(l, m)) = Cat(i, Cat(j, Cat(k, Cat(l, m))))
    BY <1>7, <2>1
  <2> QED
    BY <2>2, <2>3
<1>9. Cat(Cat(Cat(IdsOf(p, c), IdsOf(q, c)), IdsOf(r, c)), IdsOf(s, c))
        = Cat(IdsOf(p, c), Cat(IdsOf(q, c), Cat(IdsOf(r, c), IdsOf(s, c))))
  BY <1>1, <1>7
<1>10. Cat(Cat(Cat(Cat(IdsOf(p, c), IdsOf(q, c)), IdsOf(r, c)), IdsOf(s, c)), IdsOf(t, c))
         = Cat(IdsOf(p, c), Cat(IdsOf(q, c), Cat(IdsOf(r, c), Cat(IdsOf(s, c), IdsOf(t, c)))))
  BY <1>1, <1>8
<1> QED
  BY <1>3, <1>4, <1>5, <1>6, <1>9, <1>10

\* A path is its two parts.
LEMMA PathSplit ==
  ASSUME TypeOK, OneWriter, NEW c \in Channels
  PROVE  PathIds(c) = Cat(Ahead(c), Behind(c)) /\ Ahead(c) \in Seq(Ids) /\ Behind(c) \in Seq(Ids)
<1> DEFINE p == publishing[c]
           q == queue[c]
           u == Untransmitted
           s == sending[c]
           t == toSend[c]
           front == IF receiverUp THEN p \o q \o routing \o toPublish \o wire ELSE <<>>
           back == IF senderUp THEN u \o posted \o s \o t ELSE <<>>
<1>1. /\ p \in Seq(Message) /\ q \in Seq(Message) /\ routing \in Seq(Message)
      /\ toPublish \in Seq(Message) /\ wire \in Seq(Message) /\ u \in Seq(Message)
      /\ posted \in Seq(Message) /\ s \in Seq(Message) /\ t \in Seq(Message)
  BY PathTypes
<1>2. PathIds(c) = IdsOf(front \o back, c)
  BY DEF PathIds, Path
<1>3. Ahead(c) = IF receiverUp
                 THEN Cat(IdsOf(p, c),
                        Cat(IdsOf(q, c), Cat(IdsOf(routing, c), Cat(IdsOf(toPublish, c), IdsOf(wire, c)))))
                 ELSE <<>>
  BY DEF Ahead
<1>4. Behind(c) = IF senderUp
                  THEN Cat(IdsOf(u, c), Cat(IdsOf(posted, c), Cat(IdsOf(s, c), IdsOf(t, c))))
                  ELSE <<>>
  BY DEF Behind
<1> HIDE DEF p, q, u, s, t
<1>5. front \in Seq(Message) /\ back \in Seq(Message)
  BY <1>1
<1>6. IdsOf(front, c) = Ahead(c)
  <2>1. CASE receiverUp
    BY <1>1, <1>3, <2>1, IdsOfFive
  <2>2. CASE ~receiverUp
    BY <1>3, <2>2, IdsOfEmpty
  <2> QED
    BY <2>1, <2>2
<1>7. IdsOf(back, c) = Behind(c)
  <2>1. CASE senderUp
    BY <1>1, <1>4, <2>1, IdsOfFive
  <2>2. CASE ~senderUp
    BY <1>4, <2>2, IdsOfEmpty
  <2> QED
    BY <2>1, <2>2
<1> HIDE DEF front, back
<1> QED
  BY <1>2, <1>5, <1>6, <1>7, IdsOfConcat, IdsOfType DEF Cat

\* In one formula, for every channel,
LEMMA PathSplits ==
  TypeOK /\ OneWriter =>
    \A c \in Channels :
      PathIds(c) = Cat(Ahead(c), Behind(c)) /\ Ahead(c) \in Seq(Ids) /\ Behind(c) \in Seq(Ids)
BY PathSplit

\* and of the state after a step.
LEMMA PathSplitsNext ==
  TypeOK' /\ OneWriter' =>
    \A c \in Channels :
      PathIds(c)' = Cat(Ahead(c)', Behind(c)') /\ Ahead(c)' \in Seq(Ids) /\ Behind(c)' \in Seq(Ids)
<1>1. TypeOK' /\ OneWriter' =>
        (\A c \in Channels :
           PathIds(c) = Cat(Ahead(c), Behind(c)) /\ Ahead(c) \in Seq(Ids) /\ Behind(c) \in Seq(Ids))'
  BY PathSplits, PTL
<1> QED
  BY <1>1

-----------------------------------------------------------------------------
\* The steps of LossyFifo, on sequences.

\* t is s without some of it from one place, as LossyFifo!Lose has it.
Loses(s, t) ==
  \E i, j \in 1 .. Len(s) : i <= j /\ t = SubSeq(s, 1, i - 1) \o SubSeq(s, j + 1, Len(s))

\* What is dropped, if anything, is such a piece.
LEMMA DroppedPiece ==
  ASSUME NEW a \in Seq(Ids), NEW x \in Seq(Ids), NEW b \in Seq(Ids), x # <<>>,
         NEW s, s = Cat(a, Cat(x, b))
  PROVE  Loses(s, Cat(a, b))
<1> DEFINE i == Len(a) + 1
           j == Len(a) + Len(x)
<1>1. s \in Seq(Ids) /\ Cat(x, b) \in Seq(Ids)
  BY Joined
<1>2. Len(a) \in Nat /\ Len(b) \in Nat /\ Len(x) \in Nat /\ Len(x) > 0
  OBVIOUS
<1>3. Len(Cat(x, b)) = Len(x) + Len(b) /\ \A k \in 1 .. Len(b) : Cat(x, b)[Len(x) + k] = b[k]
  <2> DEFINE y == x \o b
  <2>1. Len(y) = Len(x) + Len(b) /\ \A k \in 1 .. Len(b) : y[Len(x) + k] = b[k]
    BY <1>2
  <2> QED
    BY <2>1 DEF Cat
<1>4. /\ Len(s) = Len(a) + Len(Cat(x, b))
      /\ \A k \in 1 .. Len(a) : s[k] = a[k]
      /\ \A k \in 1 .. Len(Cat(x, b)) : s[Len(a) + k] = Cat(x, b)[k]
  <2> DEFINE y == Cat(x, b)
  <2>1. y \in Seq(Ids)
    BY <1>1
  <2> HIDE DEF y
  <2>2. /\ Len(a \o y) = Len(a) + Len(y)
        /\ \A k \in 1 .. Len(a) : (a \o y)[k] = a[k]
        /\ \A k \in 1 .. Len(y) : (a \o y)[Len(a) + k] = y[k]
    BY <2>1
  <2>3. s = a \o y
    BY DEF y, Cat
  <2> QED
    BY <2>2, <2>3 DEF y
<1>5. SubSeq(s, 1, i - 1) = a
  <2>1. \A k \in 1 .. Len(a) : s[k] \in Ids
    BY <1>1, <1>2, <1>4
  <2>2. /\ SubSeq(s, 1, Len(a)) \in Seq(Ids) /\ Len(SubSeq(s, 1, Len(a))) = Len(a)
        /\ \A k \in 1 .. Len(a) : SubSeq(s, 1, Len(a))[k] = s[k]
    BY <1>1, <1>2, <1>3, <1>4, <2>1
  <2>3. SubSeq(s, 1, Len(a)) = a
    BY <1>4, <2>2, SeqEqual
  <2> QED
    BY <1>2, <2>3
<1>6. SubSeq(s, j + 1, Len(s)) = b
  <2>1. Len(s) = j + Len(b) /\ j \in Nat
    BY <1>2, <1>3, <1>4
  <2>2. \A k \in 1 .. Len(b) : s[j + k] = b[k]
    <3> SUFFICES ASSUME NEW k \in 1 .. Len(b) PROVE s[j + k] = b[k]
      OBVIOUS
    <3>1. Len(x) + k \in 1 .. Len(Cat(x, b)) /\ j + k = Len(a) + (Len(x) + k)
      BY <1>2, <1>3
    <3> QED
      BY <1>3, <1>4, <3>1
  <2> HIDE DEF j
  <2>3. /\ SubSeq(s, j + 1, Len(s)) \in Seq(Ids) /\ Len(SubSeq(s, j + 1, Len(s))) = Len(b)
        /\ \A k \in 1 .. Len(b) : SubSeq(s, j + 1, Len(s))[k] = s[j + k]
    BY <1>1, <1>2, <2>1
  <2> QED
    BY <2>2, <2>3, SeqEqual
<1>7. i \in 1 .. Len(s) /\ j \in 1 .. Len(s) /\ i <= j
  BY <1>2, <1>3, <1>4
<1> HIDE DEF i, j
<1> QED
  BY <1>5, <1>6, <1>7 DEF Cat, Loses

\* A step that only drops ids from a path is a step of LossyFifo that loses them, or none.
LEMMA LossStep ==
  ASSUME NEW c \in Channels, PathIds(c) \in Seq(Ids), Drops(PathIds(c), PathIds(c)'),
         accepted[c]' = accepted[c], published[c]' = published[c]
  PROVE  [Fifo(c)!Next]_(Fifo(c)!vars)
<1>1. PICK a \in Seq(Ids), x \in Seq(Ids), b \in Seq(Ids) :
        PathIds(c) = Cat(a, Cat(x, b)) /\ PathIds(c)' = Cat(a, b)
  BY DEF Drops
<1>2. CASE x = <<>>
  <2>1. PathIds(c)' = PathIds(c)
    BY <1>1, <1>2, Joined
  <2>2. UNCHANGED Fifo(c)!vars
    BY <2>1 DEF Fifo!vars
  <2> QED
    BY <2>2
<1>3. CASE x # <<>>
  <2>1. Loses(PathIds(c), PathIds(c)')
    BY <1>1, <1>3, DroppedPiece
  <2>2. Fifo(c)!Lose
    BY <2>1 DEF Fifo!Lose, Loses
  <2> QED
    BY <2>2 DEF Fifo!Next
<1> QED
  BY <1>2, <1>3

\* A message that joins the end of a path is accepted,
LEMMA AcceptStep ==
  ASSUME NEW c \in Channels, NEW id \in Ids, id \notin accepted[c],
         c \notin OwnSubscriber => \A i \in accepted[c] : i < id,
         accepted[c]' = accepted[c] \cup {id}, published[c]' = published[c],
         PathIds(c) \in Seq(Ids), PathIds(c)' = Cat(PathIds(c), <<id>>)
  PROVE  [Fifo(c)!Next]_(Fifo(c)!vars)
<1>1. PathIds(c)' = Append(PathIds(c), id)
  BY AppendIsConcat DEF Cat
<1>2. Fifo(c)!Accept(id)
  BY <1>1 DEF Fifo!Accept
<1> QED
  BY <1>2 DEF Fifo!Next

\* and the one that leaves its head published.
LEMMA DeliverStep ==
  ASSUME NEW c \in Channels, NEW id \in Ids, published[c]' = Append(published[c], id),
         accepted[c]' = accepted[c], PathIds(c)' \in Seq(Ids), PathIds(c) = Cat(<<id>>, PathIds(c)')
  PROVE  [Fifo(c)!Next]_(Fifo(c)!vars)
<1>1. PathIds(c) # <<>> /\ Head(PathIds(c)) = id /\ Tail(PathIds(c)) = PathIds(c)'
  <2> DEFINE p == PathIds(c)'
             q == PathIds(c)
  <2>1. q = <<id>> \o p /\ p \in Seq(Ids)
    BY DEF Cat
  <2> HIDE DEF p, q
  <2>2. q # <<>> /\ Head(q) = id
    BY <2>1
  <2>3. Tail(q) = p
    BY <2>1
  <2> QED
    BY <2>2, <2>3 DEF p, q
<1>2. Fifo(c)!Deliver
  BY <1>1 DEF Fifo!Deliver
<1> QED
  BY <1>2 DEF Fifo!Next

-----------------------------------------------------------------------------
\* What a path needs besides the types: the inductive invariant PathInv.

\* The messages of a channel.
MessageOf(c) == {m \in Message : m.channel = c}

\* The queue of a subscriber holds messages of its channel, and without useOwnThread none;
SortedOut ==
  \A c \in Channels :
    /\ toSend[c] \in Seq(MessageOf(c))
    /\ sending[c] # <<>> => Head(sending[c]) \in MessageOf(c)
    /\ c \notin OwnSubscriber => toSend[c] = <<>> /\ sending[c] = <<>>

\* so does the queue of a publisher, which has a useOwnThread of its own.
SortedIn ==
  \A c \in Channels :
    /\ queue[c] \in Seq(MessageOf(c))
    /\ publishing[c] # <<>> => Head(publishing[c]) \in MessageOf(c)
    /\ c \notin OwnPublisher => queue[c] = <<>> /\ publishing[c] = <<>>

\* A message has a number of its own, and is accepted once; a callback of a shared subscriber
\* runs alone (the callback group), so that the number is greater than the accepted ones.
Numbered ==
  /\ \A m \in callbacks : m.id <= arrived /\ m.id \notin accepted[m.channel]
  /\ \A c \in Channels : \A i \in accepted[c] : i <= arrived
  /\ \A m, n \in callbacks : m.id = n.id => m = n
  /\ \A m, n \in callbacks : m.channel \notin OwnSubscriber /\ n.channel \notin OwnSubscriber => m = n
  /\ \A m \in callbacks : m.channel \notin OwnSubscriber => \A i \in accepted[m.channel] : i < m.id

\* A host that has stopped a connection has closed its stream.
StoppedIsClosed == streamOpen => senderUp

\* A queue of a channel, at its two ends.
LEMMA SortedPieces ==
  ASSUME NEW c
  PROVE  /\ <<>> \in Seq(MessageOf(c))
         /\ \A q \in Seq(MessageOf(c)), m \in MessageOf(c) : Append(q, m) \in Seq(MessageOf(c))
         /\ \A q \in Seq(MessageOf(c)) :
              q # <<>> => Head(q) \in MessageOf(c) /\ Tail(q) \in Seq(MessageOf(c))
OBVIOUS

\* The subscribers queue what belongs to them.
LEMMA SortedOutKept == TypeOK /\ SortedOut /\ [Next]_vars => SortedOut'
<1> SUFFICES ASSUME TypeOK, SortedOut, [Next]_vars PROVE SortedOut'
  OBVIOUS
<1>0. toSend \in [Channels -> Seq(Message)] /\ sending \in [Channels -> AtMostOne]
  BY DEF TypeOK
<1>1. CASE UNCHANGED <<toSend, sending>>
  BY <1>1 DEF SortedOut
<1>2. ASSUME NEW m \in Message, QueueToSend(m) PROVE SortedOut'
  <2>1. m \in MessageOf(m.channel) /\ m.channel \in OwnSubscriber
    BY <1>2 DEF QueueToSend, MessageOf
  <2>2. ASSUME NEW c \in Channels
        PROVE  toSend'[c] = IF c = m.channel THEN Append(toSend[c], m) ELSE toSend[c]
    BY <1>0, <1>2 DEF QueueToSend
  <2>3. sending' = sending
    BY <1>2 DEF QueueToSend
  <2>4. ASSUME NEW c \in Channels
        PROVE  toSend'[c] \in Seq(MessageOf(c)) /\ (c \notin OwnSubscriber => toSend'[c] = <<>>)
    <3>1. toSend[c] \in Seq(MessageOf(c)) /\ (c \notin OwnSubscriber => toSend[c] = <<>>)
      BY DEF SortedOut
    <3> QED
      BY <2>1, <2>2, <3>1, SortedPieces
  <2> QED
    BY <2>3, <2>4 DEF SortedOut
<1>3. ASSUME NEW d \in Channels, TakeToSend(d) PROVE SortedOut'
  <2>1. ASSUME NEW c \in Channels
        PROVE  /\ toSend'[c] = IF c = d THEN Tail(toSend[c]) ELSE toSend[c]
               /\ sending'[c] = IF c = d THEN <<Head(toSend[c])>> ELSE sending[c]
    BY <1>0, <1>3 DEF TakeToSend
  <2>2. toSend[d] # <<>> /\ d \in OwnSubscriber
    BY <1>3 DEF TakeToSend, SortedOut
  <2>3. Head(toSend[d]) \in MessageOf(d) /\ Tail(toSend[d]) \in Seq(MessageOf(d))
    BY <2>2, SortedPieces DEF SortedOut
  <2>4. Head(<<Head(toSend[d])>>) = Head(toSend[d])
    OBVIOUS
  <2> QED
    BY <2>1, <2>2, <2>3, <2>4 DEF SortedOut
<1>4. ASSUME NEW d \in Channels, SendThreaded(d) PROVE SortedOut'
  <2>1. toSend' = toSend /\ \A c \in Channels : sending'[c] = IF c = d THEN <<>> ELSE sending[c]
    BY <1>0, <1>4 DEF SendThreaded
  <2> QED
    BY <2>1 DEF SortedOut
<1>5. ASSUME NEW d \in Channels, Unsubscribe(d) PROVE SortedOut'
  <2>1. \A c \in Channels : /\ toSend'[c] = IF c = d THEN <<>> ELSE toSend[c]
                            /\ sending'[c] = IF c = d THEN <<>> ELSE sending[c]
    BY <1>0, <1>5 DEF Unsubscribe
  <2>2. <<>> \in Seq(MessageOf(d))
    BY SortedPieces
  <2> QED
    BY <2>1, <2>2 DEF SortedOut
<1>6. ASSUME NEW m \in Message, SendShared(m) PROVE UNCHANGED <<toSend, sending>>
  BY <1>6 DEF SendShared
<1>7. ASSUME NEW c \in Channels, BeginCallback(c) \/ Subscribe(c) PROVE UNCHANGED <<toSend, sending>>
  BY <1>7 DEF BeginCallback, Subscribe
<1>8. ASSUME Strand \/ Receiver PROVE UNCHANGED <<toSend, sending>>
  BY <1>8 DEF Strand, queueMessage, Transmit, Written, Receiver, publish, TakeToRoute, RouteUnknown,
              RouteThreaded, RouteShared, TakeToPublish, rosPublish
<1>9. ASSUME WriteFailed \/ StreamCloses \/ StopSender \/ StopReceiver \/ UNCHANGED vars
      PROVE  UNCHANGED <<toSend, sending>>
  BY <1>9 DEF WriteFailed, StreamCloses, StopSender, StopReceiver, vars
<1> QED
  BY <1>1, <1>2, <1>3, <1>4, <1>5, <1>6, <1>7, <1>8, <1>9 DEF Next, Sender

\* The manager routes a message to the publisher of its channel.
LEMMA SortedInKept == TypeOK /\ SortedIn /\ [Next]_vars => SortedIn'
<1> SUFFICES ASSUME TypeOK, SortedIn, [Next]_vars PROVE SortedIn'
  OBVIOUS
<1>0. /\ queue \in [Channels -> Seq(Message)] /\ publishing \in [Channels -> AtMostOne]
      /\ routing \in AtMostOne
  BY DEF TypeOK
<1>1. CASE UNCHANGED <<queue, publishing>>
  BY <1>1 DEF SortedIn
<1>2. ASSUME NEW d \in Channels, RouteThreaded(d) PROVE SortedIn'
  <2>1. Head(routing) \in MessageOf(d) /\ d \in OwnPublisher
    BY <1>0, <1>2, Held DEF RouteThreaded, MessageOf
  <2>2. publishing' = publishing
    BY <1>2 DEF RouteThreaded
  <2>3. ASSUME NEW c \in Channels
        PROVE  queue'[c] = IF c = d THEN Append(queue[c], Head(routing)) ELSE queue[c]
    BY <1>0, <1>2 DEF RouteThreaded
  <2>4. ASSUME NEW c \in Channels
        PROVE  queue'[c] \in Seq(MessageOf(c)) /\ (c \notin OwnPublisher => queue'[c] = <<>>)
    <3>1. queue[c] \in Seq(MessageOf(c)) /\ (c \notin OwnPublisher => queue[c] = <<>>)
      BY DEF SortedIn
    <3> QED
      BY <2>1, <2>3, <3>1, SortedPieces
  <2> QED
    BY <2>2, <2>4 DEF SortedIn
<1>3. ASSUME NEW d \in Channels, TakeToPublish(d) PROVE SortedIn'
  <2>1. ASSUME NEW c \in Channels
        PROVE  /\ queue'[c] = IF c = d THEN Tail(queue[c]) ELSE queue[c]
               /\ publishing'[c] = IF c = d THEN <<Head(queue[c])>> ELSE publishing[c]
    BY <1>0, <1>3 DEF TakeToPublish
  <2>2. queue[d] # <<>> /\ d \in OwnPublisher
    BY <1>3 DEF TakeToPublish, SortedIn
  <2>3. Head(queue[d]) \in MessageOf(d) /\ Tail(queue[d]) \in Seq(MessageOf(d))
    BY <2>2, SortedPieces DEF SortedIn
  <2>4. Head(<<Head(queue[d])>>) = Head(queue[d])
    OBVIOUS
  <2> QED
    BY <2>1, <2>2, <2>3, <2>4 DEF SortedIn
<1>4. ASSUME NEW d \in Channels, rosPublish(d) PROVE SortedIn'
  <2>1. queue' = queue /\ \A c \in Channels : publishing'[c] = IF c = d THEN <<>> ELSE publishing[c]
    BY <1>0, <1>4 DEF rosPublish
  <2> QED
    BY <2>1 DEF SortedIn
<1>5. ASSUME NEW c \in Channels, RouteShared(c) PROVE UNCHANGED <<queue, publishing>>
  BY <1>5 DEF RouteShared
<1>6. ASSUME publish \/ TakeToRoute \/ RouteUnknown PROVE UNCHANGED <<queue, publishing>>
  BY <1>6 DEF publish, TakeToRoute, RouteUnknown
<1>7. ASSUME Sender \/ Strand PROVE UNCHANGED <<queue, publishing>>
  BY <1>7 DEF Sender, TakeToSend, SendThreaded, QueueToSend, SendShared, Strand, queueMessage, Transmit,
              Written
<1>8. ASSUME NEW c \in Channels, BeginCallback(c) \/ Subscribe(c) \/ Unsubscribe(c)
      PROVE  UNCHANGED <<queue, publishing>>
  BY <1>8 DEF BeginCallback, Subscribe, Unsubscribe
<1>9. ASSUME WriteFailed \/ StreamCloses \/ StopSender \/ StopReceiver \/ UNCHANGED vars
      PROVE  UNCHANGED <<queue, publishing>>
  BY <1>9 DEF WriteFailed, StreamCloses, StopSender, StopReceiver, vars
<1> QED
  BY <1>1, <1>2, <1>3, <1>4, <1>5, <1>6, <1>7, <1>8, <1>9 DEF Next, Receiver

\* A callback takes the next number, and leaves with it.
LEMMA NumberedKept == TypeOK /\ Numbered /\ [Next]_vars => Numbered'
<1> SUFFICES ASSUME TypeOK, Numbered, [Next]_vars PROVE Numbered'
  OBVIOUS
<1>0. /\ arrived \in Nat /\ callbacks \subseteq Message /\ accepted \in [Channels -> SUBSET Ids]
      /\ \A m \in Message : m.id \in Nat /\ m.channel \in Channels
      /\ \A c \in Channels : \A i \in accepted[c] : i \in Nat
  BY ChannelAssumption DEF TypeOK, Ids, Message
<1>1. CASE UNCHANGED <<arrived, callbacks, accepted>>
  BY <1>1 DEF Numbered
<1>2. ASSUME NEW d \in Channels, BeginCallback(d) PROVE Numbered'
  <2> DEFINE n == Msg(d, arrived + 1)
  <2>1. /\ n.id = arrived + 1 /\ n.channel = d
        /\ arrived' = arrived + 1 /\ callbacks' = callbacks \cup {n} /\ accepted' = accepted
        /\ d \notin OwnSubscriber => \A m \in callbacks : m.channel \in OwnSubscriber
    BY <1>2 DEF BeginCallback, Msg
  <2> HIDE DEF n
  <2>2. \A m \in callbacks : m.id < n.id /\ m.id <= arrived'
    BY <1>0, <2>1 DEF Numbered
  <2>3. \A i \in accepted[d] : i < n.id
    BY <1>0, <2>1 DEF Numbered
  <2>4. n.id \notin accepted[d]
    BY <1>0, <2>1, <2>3
  <2>5. \A c \in Channels : \A i \in accepted[c] : i <= arrived'
    BY <1>0, <2>1 DEF Numbered
  <2>6. \A m \in callbacks' : m.id <= arrived' /\ m.id \notin accepted'[m.channel]
    BY <1>0, <2>1, <2>2, <2>4 DEF Numbered
  <2>7. \A m, p \in callbacks' : m.id = p.id => m = p
    BY <1>0, <2>1, <2>2 DEF Numbered
  <2>8. \A m, p \in callbacks' : m.channel \notin OwnSubscriber /\ p.channel \notin OwnSubscriber => m = p
    BY <2>1 DEF Numbered
  <2>9. \A m \in callbacks' : m.channel \notin OwnSubscriber => \A i \in accepted'[m.channel] : i < m.id
    BY <2>1, <2>3 DEF Numbered
  <2> QED
    BY <2>1, <2>5, <2>6, <2>7, <2>8, <2>9 DEF Numbered
<1>3. ASSUME NEW m \in Message, QueueToSend(m) \/ SendShared(m) PROVE Numbered'
  <2>1. /\ m \in callbacks /\ arrived' = arrived /\ callbacks' = callbacks \ {m}
        /\ accepted' = [accepted EXCEPT ![m.channel] = @ \cup {m.id}]
    BY <1>3 DEF QueueToSend, SendShared
  <2>2. \A c \in Channels : accepted'[c] = IF c = m.channel THEN accepted[c] \cup {m.id} ELSE accepted[c]
    BY <1>0, <2>1
  <2>3. \A p \in callbacks' : p \in callbacks /\ p.id # m.id /\ p.channel \in Channels
    BY <1>0, <2>1 DEF Numbered
  <2>4. \A p \in callbacks' : p.id <= arrived' /\ p.id \notin accepted'[p.channel]
    BY <2>1, <2>2, <2>3 DEF Numbered
  <2>5. \A c \in Channels : \A i \in accepted'[c] : i <= arrived'
    BY <2>1, <2>2 DEF Numbered
  <2>6. \A p \in callbacks' : p.channel \notin OwnSubscriber => \A i \in accepted'[p.channel] : i < p.id
    <3> SUFFICES ASSUME NEW p \in callbacks', p.channel \notin OwnSubscriber
                 PROVE  \A i \in accepted'[p.channel] : i < p.id
      OBVIOUS
    <3>1. p.channel # m.channel
      BY <2>1, <2>3 DEF Numbered
    <3> QED
      BY <2>2, <2>3, <3>1 DEF Numbered
  <2> QED
    BY <2>1, <2>3, <2>4, <2>5, <2>6 DEF Numbered
<1>4. ASSUME NEW c \in Channels, Unsubscribe(c) PROVE Numbered'
  <2>1. callbacks' \subseteq callbacks /\ UNCHANGED <<arrived, accepted>>
    BY <1>4 DEF Unsubscribe
  <2> QED
    BY <2>1 DEF Numbered
<1>5. ASSUME NEW c \in Channels, Subscribe(c) \/ TakeToSend(c) \/ SendThreaded(c)
      PROVE  UNCHANGED <<arrived, callbacks, accepted>>
  BY <1>5 DEF Subscribe, TakeToSend, SendThreaded
<1>6. ASSUME Strand \/ Receiver PROVE UNCHANGED <<arrived, callbacks, accepted>>
  BY <1>6 DEF Strand, queueMessage, Transmit, Written, Receiver, publish, TakeToRoute, RouteUnknown,
              RouteThreaded, RouteShared, TakeToPublish, rosPublish
<1>7. ASSUME WriteFailed \/ StreamCloses \/ StopSender \/ StopReceiver \/ UNCHANGED vars
      PROVE  UNCHANGED <<arrived, callbacks, accepted>>
  BY <1>7 DEF WriteFailed, StreamCloses, StopSender, StopReceiver, vars
<1> QED
  BY <1>1, <1>2, <1>3, <1>4, <1>5, <1>6, <1>7 DEF Next, Sender

\* A stream stays closed.
LEMMA StoppedIsClosedKept == StoppedIsClosed /\ [Next]_vars => StoppedIsClosed'
<1> SUFFICES ASSUME StoppedIsClosed, [Next]_vars PROVE StoppedIsClosed'
  OBVIOUS
<1> USE DEF StoppedIsClosed
<1>1. CASE UNCHANGED <<streamOpen, senderUp>>
  BY <1>1
<1>2. CASE WriteFailed \/ StreamCloses \/ StopSender
  BY <1>2 DEF WriteFailed, StreamCloses, StopSender
<1>3. ASSUME Sender \/ Strand PROVE UNCHANGED <<streamOpen, senderUp>>
  BY <1>3 DEF Sender, TakeToSend, SendThreaded, QueueToSend, SendShared, Strand, queueMessage, Transmit,
              Written
<1>4. ASSUME Receiver PROVE UNCHANGED <<streamOpen, senderUp>>
  BY <1>4 DEF Receiver, publish, TakeToRoute, RouteUnknown, RouteThreaded, RouteShared, TakeToPublish,
              rosPublish
<1>5. ASSUME NEW c \in Channels, BeginCallback(c) \/ Subscribe(c) \/ Unsubscribe(c)
      PROVE  UNCHANGED <<streamOpen, senderUp>>
  BY <1>5 DEF BeginCallback, Subscribe, Unsubscribe
<1>6. ASSUME StopReceiver \/ UNCHANGED vars PROVE UNCHANGED <<streamOpen, senderUp>>
  BY <1>6 DEF StopReceiver, vars
<1> QED
  BY <1>1, <1>2, <1>3, <1>4, <1>5, <1>6 DEF Next

\* What the refinement rests on.
PathInv == TypeOK /\ OneWriter /\ SortedOut /\ SortedIn /\ Numbered /\ StoppedIsClosed

\* It holds of two hosts that start,
LEMMA PathInvStarts == Init => PathInv
<1> SUFFICES ASSUME Init PROVE PathInv
  OBVIOUS
<1>1. SortedOut /\ SortedIn
  BY SortedPieces DEF Init, SortedOut, SortedIn
<1>2. Numbered /\ StoppedIsClosed
  BY DEF Init, Numbered, StoppedIsClosed
<1> QED
  BY <1>1, <1>2, Starts DEF PathInv

\* and every step keeps it.
LEMMA PathInvKept == PathInv /\ [Next]_vars => PathInv'
<1> SUFFICES ASSUME PathInv, [Next]_vars PROVE PathInv'
  OBVIOUS
<1>1. TypeOK' /\ OneWriter' /\ SortedOut' /\ SortedIn' /\ Numbered' /\ StoppedIsClosed'
  BY Zenon, TypesKept, WriterKept, SortedOutKept, SortedInKept, NumberedKept, StoppedIsClosedKept DEF PathInv
<1> QED
  BY Zenon, <1>1 DEF PathInv

-----------------------------------------------------------------------------
\* The steps of the sending host.

\* What a thread holds is one message.
LEMMA HeldAlone == \A s \in AtMostOne : s # <<>> => s = <<Head(s)>> /\ Head(s) \in Message
BY DEF AtMostOne

\* The pieces of a path are sequences of ids.
LEMMA PathPieces ==
  TypeOK /\ OneWriter =>
    \A c \in Channels :
      /\ IdsOf(publishing[c], c) \in Seq(Ids) /\ IdsOf(queue[c], c) \in Seq(Ids)
      /\ IdsOf(routing, c) \in Seq(Ids) /\ IdsOf(toPublish, c) \in Seq(Ids)
      /\ IdsOf(wire, c) \in Seq(Ids) /\ IdsOf(Untransmitted, c) \in Seq(Ids)
      /\ IdsOf(posted, c) \in Seq(Ids) /\ IdsOf(sending[c], c) \in Seq(Ids)
      /\ IdsOf(toSend[c], c) \in Seq(Ids)
BY PathTypes, IdsOfType

\* So they are after a step.
LEMMA PathPiecesNext ==
  TypeOK' /\ OneWriter' =>
    \A c \in Channels :
      /\ IdsOf(publishing'[c], c) \in Seq(Ids) /\ IdsOf(queue'[c], c) \in Seq(Ids)
      /\ IdsOf(routing', c) \in Seq(Ids) /\ IdsOf(toPublish', c) \in Seq(Ids)
      /\ IdsOf(wire', c) \in Seq(Ids) /\ IdsOf(Untransmitted', c) \in Seq(Ids)
      /\ IdsOf(posted', c) \in Seq(Ids) /\ IdsOf(sending'[c], c) \in Seq(Ids)
      /\ IdsOf(toSend'[c], c) \in Seq(Ids)
<1>1. TypeOK' /\ OneWriter' =>
        (\A c \in Channels :
          /\ IdsOf(publishing[c], c) \in Seq(Ids) /\ IdsOf(queue[c], c) \in Seq(Ids)
          /\ IdsOf(routing, c) \in Seq(Ids) /\ IdsOf(toPublish, c) \in Seq(Ids)
          /\ IdsOf(wire, c) \in Seq(Ids) /\ IdsOf(Untransmitted, c) \in Seq(Ids)
          /\ IdsOf(posted, c) \in Seq(Ids) /\ IdsOf(sending[c], c) \in Seq(Ids)
          /\ IdsOf(toSend[c], c) \in Seq(Ids))'
  BY PathPieces, PTL
<1> QED
  BY <1>1

\* The two parts of a path in the next state, spelled out.
LEMMA AheadNext ==
  ASSUME NEW c
  PROVE  Ahead(c)' =
           IF receiverUp'
           THEN Cat(IdsOf(publishing'[c], c),
                  Cat(IdsOf(queue'[c], c),
                    Cat(IdsOf(routing', c), Cat(IdsOf(toPublish', c), IdsOf(wire', c)))))
           ELSE <<>>
BY DEF Ahead

\* The same of the messages that are not yet on the wire.
LEMMA BehindNext ==
  ASSUME NEW c
  PROVE  Behind(c)' =
           IF senderUp'
           THEN Cat(IdsOf(Untransmitted', c),
                  Cat(IdsOf(posted', c), Cat(IdsOf(sending'[c], c), IdsOf(toSend'[c], c))))
           ELSE <<>>
BY DEF Behind

\* The receiving part stays what it is as long as nobody touches its queues,
LEMMA AheadSame ==
  ASSUME NEW c, UNCHANGED <<receiverUp, publishing, queue, routing, toPublish, wire>>
  PROVE  Ahead(c)' = Ahead(c)
BY DEF Ahead

\* and so does the sending one;
LEMMA BehindSame ==
  ASSUME NEW c, UNCHANGED <<senderUp, sendingQueue, writing, posted, sending, toSend>>
  PROVE  Behind(c)' = Behind(c)
BY DEF Behind, Untransmitted

\* A step that takes ids from one part, or none, takes them from the path.
LEMMA PartStep ==
  ASSUME PathInv, PathInv', NEW c \in Channels,
         accepted[c]' = accepted[c], published[c]' = published[c],
         \/ Drops(Ahead(c), Ahead(c)') /\ Behind(c)' = Behind(c)
         \/ Ahead(c)' = Ahead(c) /\ Drops(Behind(c), Behind(c)')
         \/ Ahead(c)' = Ahead(c) /\ Behind(c)' = Behind(c)
  PROVE  [Fifo(c)!Next]_(Fifo(c)!vars)
<1>1. /\ PathIds(c) = Cat(Ahead(c), Behind(c)) /\ Ahead(c) \in Seq(Ids) /\ Behind(c) \in Seq(Ids)
      /\ PathIds(c)' = Cat(Ahead(c)', Behind(c)') /\ Ahead(c)' \in Seq(Ids) /\ Behind(c)' \in Seq(Ids)
  BY PathSplits, PathSplitsNext DEF PathInv
<1>2. Drops(PathIds(c), PathIds(c)')
  <2>1. CASE Drops(Ahead(c), Ahead(c)') /\ Behind(c)' = Behind(c)
    BY <1>1, <2>1, DropsParts
  <2>2. CASE Ahead(c)' = Ahead(c) /\ Drops(Behind(c), Behind(c)')
    BY <1>1, <2>2, DropsParts
  <2>3. CASE Ahead(c)' = Ahead(c) /\ Behind(c)' = Behind(c)
    BY <1>1, <2>3, DropsParts, Joined
  <2> QED
    BY <2>1, <2>2, <2>3
<1>3. PathIds(c) \in Seq(Ids)
  BY <1>1, Joined
<1> QED
  BY <1>2, <1>3, LossStep

----------------------------------------------------------------------------
\* ThreadedSubscriber::run takes the message that is first in its queue.
LEMMA TakeToSendStep ==
  ASSUME PathInv, PathInv', NEW d \in Channels, TakeToSend(d), NEW c \in Channels
  PROVE  [Fifo(c)!Next]_(Fifo(c)!vars)
<1>1. Ahead(c)' = Ahead(c)
  BY AheadSame DEF TakeToSend
<1>2. UNCHANGED <<senderUp, posted, sendingQueue, writing>> /\ Untransmitted' = Untransmitted
  BY DEF TakeToSend, Untransmitted
<1>3. Cat(IdsOf(sending'[c], c), IdsOf(toSend'[c], c)) = Cat(IdsOf(sending[c], c), IdsOf(toSend[c], c))
  <2>0. /\ toSend[c] \in Seq(Message) /\ toSend \in [Channels -> Seq(Message)]
        /\ sending \in [Channels -> AtMostOne]
    BY DEF PathInv, TypeOK
  <2>1. CASE c = d
    <3>1. /\ sending[c] = <<>> /\ toSend[c] # <<>>
          /\ sending'[c] = <<Head(toSend[c])>> /\ toSend'[c] = Tail(toSend[c])
      BY <2>0, <2>1 DEF TakeToSend
    <3>2. IdsOf(toSend[c], c) = Cat(IdsOf(<<Head(toSend[c])>>, c), IdsOf(Tail(toSend[c]), c))
      BY <2>0, <3>1, IdsOfEnds
    <3>3. IdsOf(sending[c], c) = <<>> /\ IdsOf(toSend[c], c) \in Seq(Ids)
      BY <2>0, <3>1, IdsOfEmpty, IdsOfType
    <3> QED
      BY <3>1, <3>2, <3>3, Joined
  <2>2. CASE c # d
    BY <2>0, <2>2 DEF TakeToSend
  <2> QED
    BY <2>1, <2>2
<1>4. Behind(c)' = Behind(c)
  BY <1>2, <1>3, BehindNext DEF Behind
<1>5. accepted[c]' = accepted[c] /\ published[c]' = published[c]
  BY DEF TakeToSend
<1> QED
  BY <1>1, <1>4, <1>5, PartStep

\* It posts the message behind those that are posted already.
LEMMA SendThreadedStep ==
  ASSUME PathInv, PathInv', NEW d \in Channels, SendThreaded(d), NEW c \in Channels
  PROVE  [Fifo(c)!Next]_(Fifo(c)!vars)
<1>1. Ahead(c)' = Ahead(c)
  BY AheadSame DEF SendThreaded
<1>2. UNCHANGED <<senderUp, sendingQueue, writing, toSend>> /\ Untransmitted' = Untransmitted
  BY DEF SendThreaded, Untransmitted
<1>3. Cat(IdsOf(posted', c), Cat(IdsOf(sending'[c], c), IdsOf(toSend[c], c)))
        = Cat(IdsOf(posted, c), Cat(IdsOf(sending[c], c), IdsOf(toSend[c], c)))
  <2> DEFINE m == Head(sending[d])
             t == IdsOf(toSend[c], c)
  <2>0. /\ posted \in Seq(Message) /\ sending \in [Channels -> AtMostOne] /\ sending[d] # <<>>
        /\ sending[d] \in AtMostOne
    BY DEF PathInv, TypeOK, SendThreaded
  <2>1. sending[d] = <<m>> /\ m \in Message /\ m.channel = d
    BY <2>0, HeldAlone DEF PathInv, SortedOut, SendThreaded, MessageOf
  <2>2. posted' = Append(posted, m) /\ sending' = [sending EXCEPT ![d] = <<>>]
    BY DEF SendThreaded, Post
  <2>3. t \in Seq(Ids) /\ IdsOf(posted, c) \in Seq(Ids) /\ IdsOf(sending[c], c) \in Seq(Ids)
    BY PathPieces DEF PathInv
  <2>4. IdsOf(<<>>, c) = <<>>
    BY IdsOfEmpty
  <2> HIDE DEF m, t
  <2>5. /\ IdsOf(posted', c) = Cat(IdsOf(posted, c), IdsOf(<<m>>, c))
        /\ IdsOf(<<m>>, c) = IF m.channel = c THEN <<m.id>> ELSE <<>>
    BY <2>0, <2>1, <2>2, IdsOfEnds
  <2>6. CASE c = d
    <3>1. sending'[c] = <<>> /\ IdsOf(sending[c], c) = IdsOf(<<m>>, c)
      BY <2>0, <2>1, <2>2, <2>6
    <3>2. Cat(IdsOf(sending'[c], c), t) = t
      BY <2>3, <2>4, <3>1, Joined
    <3>3. Cat(Cat(IdsOf(posted, c), IdsOf(sending[c], c)), t) = Cat(IdsOf(posted, c), Cat(IdsOf(sending[c], c), t))
      BY <2>3, Joined
    <3> QED
      BY <2>5, <3>1, <3>2, <3>3 DEF t
  <2>7. CASE c # d
    <3>1. IdsOf(<<m>>, c) = <<>> /\ sending'[c] = sending[c]
      BY <2>0, <2>1, <2>2, <2>5, <2>7
    <3> QED
      BY <2>3, <2>5, <3>1, Joined DEF t
  <2> QED
    BY <2>6, <2>7
<1>4. Behind(c)' = Behind(c)
  BY <1>2, <1>3, BehindNext DEF Behind
<1>5. accepted[c]' = accepted[c] /\ published[c]' = published[c]
  BY DEF SendThreaded
<1> QED
  BY <1>1, <1>4, <1>5, PartStep

\* The end of a path drops with the subscriber.
LEMMA UnsubscribeStep ==
  ASSUME PathInv, PathInv', NEW d \in Channels, Unsubscribe(d), NEW c \in Channels
  PROVE  [Fifo(c)!Next]_(Fifo(c)!vars)
<1>1. Ahead(c)' = Ahead(c)
  BY AheadSame DEF Unsubscribe
<1>2. UNCHANGED <<senderUp, sendingQueue, writing, posted>> /\ Untransmitted' = Untransmitted
  BY DEF Unsubscribe, Untransmitted
<1> DEFINE st == Cat(IdsOf(sending[c], c), IdsOf(toSend[c], c))
           sn == Cat(IdsOf(sending'[c], c), IdsOf(toSend'[c], c))
<1>3. /\ st \in Seq(Ids) /\ IdsOf(posted, c) \in Seq(Ids) /\ IdsOf(Untransmitted, c) \in Seq(Ids)
      /\ sn \in Seq(Ids)
  BY PathPieces, PathPiecesNext, Joined DEF PathInv
<1>4. Drops(st, sn)
  <2>0. toSend \in [Channels -> Seq(Message)] /\ sending \in [Channels -> AtMostOne]
    BY DEF PathInv, TypeOK
  <2>1. CASE c = d
    <3>1. sending'[c] = <<>> /\ toSend'[c] = <<>>
      BY <2>0, <2>1 DEF Unsubscribe
    <3>2. sn = <<>>
      <4>1. IdsOf(<<>>, c) = <<>> /\ Cat(<<>>, <<>>) = <<>>
        BY IdsOfEmpty, Joined
      <4> QED
        BY <3>1, <4>1
    <3> HIDE DEF st, sn
    <3> QED
      BY <1>3, <3>2, DropsParts
  <2>2. CASE c # d
    <3>1. sending'[c] = sending[c] /\ toSend'[c] = toSend[c]
      BY <2>0, <2>2 DEF Unsubscribe
    <3>2. sn = st
      BY <3>1
    <3> HIDE DEF st, sn
    <3> QED
      BY <1>3, <3>2, DropsParts
  <2> QED
    BY <2>1, <2>2
<1>5. Drops(Behind(c), Behind(c)')
  <2>1. CASE senderUp
    <3>1. /\ Behind(c) = Cat(IdsOf(Untransmitted, c), Cat(IdsOf(posted, c), st))
          /\ Behind(c)' = Cat(IdsOf(Untransmitted, c), Cat(IdsOf(posted, c), sn))
      BY <1>2, <2>1, BehindNext DEF Behind
    <3> HIDE DEF st, sn
    <3>2. Drops(Cat(IdsOf(posted, c), st), Cat(IdsOf(posted, c), sn))
      BY <1>3, <1>4, DropsParts
    <3>3. Cat(IdsOf(posted, c), st) \in Seq(Ids) /\ Cat(IdsOf(posted, c), sn) \in Seq(Ids)
      BY <1>3, Joined
    <3> QED
      BY <1>3, <3>1, <3>2, <3>3, DropsParts
  <2>2. CASE ~senderUp
    BY <1>2, <2>2, BehindNext, DropsParts, Joined DEF Behind
  <2> QED
    BY <2>1, <2>2
<1>6. accepted[c]' = accepted[c] /\ published[c]' = published[c]
  BY DEF Unsubscribe
<1> QED
  BY <1>1, <1>5, <1>6, PartStep

-----------------------------------------------------------------------------
\* The strand of the stream, and the stops.

\* The strand moves the message that is first among the posted ones to the end of its queue; on
\* a closed stream the message is lost if it is the only one.
LEMMA queueMessageStep ==
  ASSUME PathInv, PathInv', queueMessage, NEW c \in Channels
  PROVE  [Fifo(c)!Next]_(Fifo(c)!vars)
<1>1. Ahead(c)' = Ahead(c)
  BY AheadSame DEF queueMessage
<1>2. UNCHANGED <<sending, toSend, senderUp>> /\ senderUp
  BY DEF queueMessage
<1> DEFINE m == Head(posted)
           h == IdsOf(<<m>>, c)
           u == IdsOf(Untransmitted, c)
           un == IdsOf(Untransmitted', c)
           pn == IdsOf(posted', c)
           st == Cat(IdsOf(sending[c], c), IdsOf(toSend[c], c))
<1>3. u \in Seq(Ids) /\ un \in Seq(Ids) /\ pn \in Seq(Ids) /\ st \in Seq(Ids)
  BY PathPieces, PathPiecesNext, Joined DEF PathInv
<1>4. posted \in Seq(Message) /\ posted # <<>> /\ posted' = Tail(posted) /\ m \in Message
  BY Pieces DEF PathInv, TypeOK, queueMessage
<1>5. h \in Seq(Ids) /\ IdsOf(posted, c) = Cat(h, pn)
  <2>1. IdsOf(posted, c) = Cat(h, pn)
    BY <1>4, IdsOfEnds
  <2>2. <<m>> \in Seq(Message)
    BY <1>4
  <2> QED
    BY <2>1, <2>2, IdsOfType
<1>6. un = Cat(u, h) \/ (u = <<>> /\ un = <<>>)
  <2>0. /\ sendingQueue \in Seq(Message) /\ writing \in {"no", "begun", "done"}
        /\ writing # "no" => sendingQueue # <<>>
        /\ streamOpen /\ sendingQueue # <<>> => writing # "no"
    BY DEF PathInv, TypeOK, OneWriter
  <2>1. Len(Append(sendingQueue, m)) = 1 <=> sendingQueue = <<>>
    BY <1>4, <2>0
  <2>2. CASE sendingQueue = <<>> /\ streamOpen
    <3>1. sendingQueue' = Append(sendingQueue, m) /\ writing' = "begun" /\ writing = "no"
      BY <2>0, <2>1, <2>2 DEF queueMessage, asyncWrite
    <3>2. Untransmitted' = Append(Untransmitted, m) /\ Untransmitted \in Seq(Message)
      BY <2>0, <3>1 DEF Untransmitted
    <3> QED
      BY <1>4, <3>2, IdsOfEnds
  <2>3. CASE sendingQueue = <<>> /\ ~streamOpen
    <3>1. sendingQueue' = <<>> /\ writing' = "no" /\ writing = "no"
      BY <2>0, <2>1, <2>3 DEF queueMessage, asyncWrite
    <3>2. Untransmitted' = <<>> /\ Untransmitted = <<>>
      BY <2>3, <3>1 DEF Untransmitted
    <3> QED
      BY <3>2, IdsOfEmpty
  <2>4. CASE sendingQueue # <<>>
    <3>1. sendingQueue' = Append(sendingQueue, m) /\ writing' = writing
      BY <2>0, <2>1, <2>4 DEF queueMessage
    <3>2. Tail(Append(sendingQueue, m)) = Append(Tail(sendingQueue), m)
      BY <1>4, <2>0, <2>4
    <3>3. Untransmitted' = Append(Untransmitted, m)
      BY <3>1, <3>2 DEF Untransmitted
    <3>4. Untransmitted \in Seq(Message)
      BY <2>0, <2>4 DEF Untransmitted
    <3> QED
      BY <1>4, <3>3, <3>4, IdsOfEnds
  <2> QED
    BY <2>2, <2>3, <2>4
<1>7. Behind(c) = Cat(u, Cat(Cat(h, pn), st)) /\ Behind(c)' = Cat(un, Cat(pn, st))
  BY <1>2, <1>5, BehindNext DEF Behind
<1> HIDE DEF m, h, u, un, pn, st
<1>8. Cat(Cat(h, pn), st) = Cat(h, Cat(pn, st)) /\ Cat(pn, st) \in Seq(Ids)
  BY <1>3, <1>5, Joined
<1>9. Drops(Behind(c), Behind(c)') \/ Behind(c)' = Behind(c)
  <2>1. CASE un = Cat(u, h)
    BY <1>3, <1>5, <1>7, <1>8, <2>1, Joined
  <2>2. CASE u = <<>> /\ un = <<>>
    <3>1. Behind(c) = Cat(h, Cat(pn, st)) /\ Behind(c)' = Cat(pn, st)
      <4>1. Cat(h, Cat(pn, st)) \in Seq(Ids)
        BY <1>5, <1>8, Joined
      <4> QED
        BY <1>7, <1>8, <2>2, <4>1, Joined
    <3> QED
      BY <1>5, <1>8, <3>1, DropsParts
  <2> QED
    BY <1>6, <2>1, <2>2
<1>10. accepted[c]' = accepted[c] /\ published[c]' = published[c]
  BY DEF queueMessage
<1> QED
  BY <1>1, <1>9, <1>10, PartStep

\* The handler of a write leaves the queue as it is for the next write, or empties it.
LEMMA WrittenStep ==
  ASSUME PathInv, PathInv', Written \/ WriteFailed, NEW c \in Channels
  PROVE  [Fifo(c)!Next]_(Fifo(c)!vars)
<1>1. Ahead(c)' = Ahead(c)
  BY AheadSame DEF Written, WriteFailed
<1>2. UNCHANGED <<posted, sending, toSend, senderUp>> /\ senderUp
  BY DEF Written, WriteFailed
<1> DEFINE u == IdsOf(Untransmitted, c)
           un == IdsOf(Untransmitted', c)
           rest == Cat(IdsOf(posted, c), Cat(IdsOf(sending[c], c), IdsOf(toSend[c], c)))
<1>3. u \in Seq(Ids) /\ un \in Seq(Ids) /\ rest \in Seq(Ids)
  BY PathPieces, PathPiecesNext, Joined DEF PathInv
<1>4. Drops(u, un)
  <2>0. /\ sendingQueue \in Seq(Message) /\ sendingQueue # <<>>
        /\ Head(sendingQueue) \in Message /\ Tail(sendingQueue) \in Seq(Message)
    BY Pieces DEF PathInv, TypeOK, OneWriter, Written, WriteFailed
  <2>1. CASE Written
    <3>1. Untransmitted = Tail(sendingQueue)
      BY <2>1 DEF Written, Untransmitted
    <3>2. Untransmitted' = Tail(sendingQueue) \/ Untransmitted' = <<>>
      BY <2>1 DEF Written, asyncWrite, Untransmitted
    <3>3. un = u \/ un = <<>>
      BY <3>1, <3>2, IdsOfEmpty
    <3> HIDE DEF u, un
    <3> QED
      BY <1>3, <3>3, DropsParts
  <2>2. CASE WriteFailed
    <3>1. Untransmitted = sendingQueue /\ Untransmitted' = Tail(sendingQueue)
      BY <2>2 DEF WriteFailed, Untransmitted
    <3> DEFINE h == IdsOf(<<Head(sendingQueue)>>, c)
    <3>2. u = Cat(h, un)
      BY <2>0, <3>1, IdsOfEnds
    <3>3. h \in Seq(Ids)
      <4>1. <<Head(sendingQueue)>> \in Seq(Message)
        BY <2>0
      <4> QED
        BY <4>1, IdsOfType
    <3> HIDE DEF u, un, h
    <3> QED
      BY <1>3, <3>2, <3>3, DropsParts
  <2> QED
    BY <2>1, <2>2
<1>5. Behind(c) = Cat(u, rest) /\ Behind(c)' = Cat(un, rest)
  BY <1>2, BehindNext DEF Behind
<1>6. Drops(Behind(c), Behind(c)')
  <2> HIDE DEF u, un, rest
  <2> QED
    BY <1>3, <1>4, <1>5, DropsParts
<1>7. accepted[c]' = accepted[c] /\ published[c]' = published[c]
  BY DEF Written, WriteFailed
<1> QED
  BY <1>1, <1>6, <1>7, PartStep

\* A host that stops loses its part of the path.
LEMMA StopStep ==
  ASSUME PathInv, PathInv', StopSender \/ StopReceiver, NEW c \in Channels
  PROVE  [Fifo(c)!Next]_(Fifo(c)!vars)
<1>1. Ahead(c) \in Seq(Ids) /\ Behind(c) \in Seq(Ids)
  BY PathSplits DEF PathInv
<1>2. CASE StopSender
  <2>1. Ahead(c)' = Ahead(c)
    BY <1>2, AheadSame DEF StopSender
  <2>2. Behind(c)' = <<>>
    BY <1>2, BehindNext DEF StopSender
  <2>3. accepted[c]' = accepted[c] /\ published[c]' = published[c]
    BY <1>2 DEF StopSender
  <2>4. Drops(Behind(c), Behind(c)')
    BY <1>1, <2>2, DropsParts
  <2> QED
    BY <2>1, <2>3, <2>4, PartStep
<1>3. CASE StopReceiver
  <2>1. Behind(c)' = Behind(c)
    BY <1>3, BehindSame DEF StopReceiver
  <2>2. Ahead(c)' = <<>>
    BY <1>3, AheadNext DEF StopReceiver
  <2>3. accepted[c]' = accepted[c] /\ published[c]' = published[c]
    BY <1>3 DEF StopReceiver
  <2>4. Drops(Ahead(c), Ahead(c)')
    BY <1>1, <2>2, DropsParts
  <2> QED
    BY <2>1, <2>3, <2>4, PartStep
<1> QED
  BY <1>2, <1>3

\* What leaves the other queues as they are leaves the path.
LEMMA QuietStep ==
  ASSUME PathInv, PathInv', NEW c \in Channels,
         \/ StreamCloses
         \/ UNCHANGED vars
         \/ \E d \in Channels : BeginCallback(d) \/ Subscribe(d)
  PROVE  [Fifo(c)!Next]_(Fifo(c)!vars)
<1>1. /\ UNCHANGED <<receiverUp, publishing, queue, routing, toPublish, wire>>
      /\ UNCHANGED <<senderUp, sendingQueue, writing, posted, sending, toSend>>
      /\ accepted' = accepted /\ published' = published
  BY DEF StreamCloses, BeginCallback, Subscribe, vars
<1>2. Ahead(c)' = Ahead(c) /\ Behind(c)' = Behind(c)
  BY <1>1, AheadSame, BehindSame
<1> QED
  BY <1>1, <1>2, PartStep

-----------------------------------------------------------------------------
\* The wire and the receiving host; the refinement.

\* A message is on the wire as soon as it is written; a host that has stopped does not read it.
LEMMA TransmitStep ==
  ASSUME PathInv, PathInv', Transmit, NEW c \in Channels
  PROVE  [Fifo(c)!Next]_(Fifo(c)!vars)
<1>1. /\ UNCHANGED <<senderUp, posted, sending, toSend, receiverUp, publishing, queue, routing, toPublish>>
      /\ senderUp /\ accepted[c]' = accepted[c] /\ published[c]' = published[c]
  BY DEF Transmit, PathInv, StoppedIsClosed
<1> DEFINE h == IdsOf(<<Head(sendingQueue)>>, c)
           w == IdsOf(wire, c)
           un == IdsOf(Untransmitted', c)
           rest == Cat(IdsOf(posted, c), Cat(IdsOf(sending[c], c), IdsOf(toSend[c], c)))
           b == Cat(un, rest)
<1>2. un \in Seq(Ids) /\ w \in Seq(Ids) /\ rest \in Seq(Ids) /\ b \in Seq(Ids)
  BY PathPieces, PathPiecesNext, Joined DEF PathInv
<1>3. /\ sendingQueue \in Seq(Message) /\ sendingQueue # <<>> /\ wire \in Seq(Message)
      /\ Head(sendingQueue) \in Message
  BY Pieces DEF PathInv, TypeOK, OneWriter, Transmit
<1>4. h \in Seq(Ids)
  <2>1. <<Head(sendingQueue)>> \in Seq(Message)
    BY <1>3
  <2> QED
    BY <2>1, IdsOfType
<1>5. IdsOf(Untransmitted, c) = Cat(h, un)
  <2>1. Untransmitted = sendingQueue /\ Untransmitted' = Tail(sendingQueue)
    BY DEF Transmit, Untransmitted
  <2> QED
    BY <1>3, <2>1, IdsOfEnds
<1>6. IdsOf(wire', c) = Cat(w, h)
  BY <1>3, IdsOfEnds DEF Transmit
<1>7. Behind(c) = Cat(Cat(h, un), rest) /\ Behind(c)' = b
  BY <1>1, <1>5, BehindNext DEF Behind
<1>8. Behind(c) = Cat(h, b)
  <2>1. Cat(Cat(h, un), rest) = Cat(h, Cat(un, rest))
    <3> HIDE DEF h, un, rest
    <3> QED
      BY <1>2, <1>4, Joined
  <2> QED
    BY <1>7, <2>1
<1>9. CASE receiverUp
  <2> DEFINE p == IdsOf(publishing[c], c)
             q == IdsOf(queue[c], c)
             r == IdsOf(routing, c)
             o == IdsOf(toPublish, c)
  <2>1. p \in Seq(Ids) /\ q \in Seq(Ids) /\ r \in Seq(Ids) /\ o \in Seq(Ids)
    BY PathPieces DEF PathInv
  <2>2. /\ Ahead(c) = Cat(p, Cat(q, Cat(r, Cat(o, w))))
        /\ Ahead(c)' = Cat(p, Cat(q, Cat(r, Cat(o, Cat(w, h)))))
    BY <1>1, <1>6, <1>9, AheadNext DEF Ahead
  <2> HIDE DEF p, q, r, o, w, h, b
  <2>3. Cat(o, w) \in Seq(Ids) /\ Cat(r, Cat(o, w)) \in Seq(Ids) /\ Cat(q, Cat(r, Cat(o, w))) \in Seq(Ids)
    BY <1>2, <2>1, Joined
  <2>4. Cat(o, Cat(w, h)) = Cat(Cat(o, w), h)
    BY <1>2, <1>4, <2>1, Joined
  <2>5. Cat(r, Cat(Cat(o, w), h)) = Cat(Cat(r, Cat(o, w)), h)
    BY <1>4, <2>1, <2>3, Joined
  <2>6. Cat(q, Cat(Cat(r, Cat(o, w)), h)) = Cat(Cat(q, Cat(r, Cat(o, w))), h)
    BY <1>4, <2>1, <2>3, Joined
  <2>7. Cat(p, Cat(Cat(q, Cat(r, Cat(o, w))), h)) = Cat(Ahead(c), h)
    BY <1>4, <2>1, <2>2, <2>3, Joined
  <2>8. Ahead(c)' = Cat(Ahead(c), h)
    BY <2>2, <2>4, <2>5, <2>6, <2>7
  <2>9. /\ PathIds(c) = Cat(Ahead(c), Behind(c)) /\ Ahead(c) \in Seq(Ids)
        /\ PathIds(c)' = Cat(Ahead(c)', Behind(c)')
    BY PathSplits, PathSplitsNext DEF PathInv
  <2>10. Cat(Cat(Ahead(c), h), b) = Cat(Ahead(c), Cat(h, b))
    BY <1>2, <1>4, <2>9, Joined
  <2>11. PathIds(c)' = PathIds(c)
    BY <1>7, <1>8, <2>8, <2>9, <2>10
  <2>12. UNCHANGED Fifo(c)!vars
    BY <1>1, <2>11 DEF Fifo!vars
  <2> QED
    BY <2>12
<1>10. CASE ~receiverUp
  <2>1. Ahead(c)' = Ahead(c)
    BY <1>1, <1>10, AheadNext DEF Ahead
  <2>2. Drops(Behind(c), Behind(c)')
    <3> HIDE DEF h, b
    <3> QED
      BY <1>2, <1>4, <1>7, <1>8, DropsParts
  <2> QED
    BY <1>1, <2>1, <2>2, PartStep
<1> QED
  BY <1>9, <1>10

\* The read handler and PublisherManager::run hand on the first message of their queue.
LEMMA HandOnStep ==
  ASSUME PathInv, PathInv', publish \/ TakeToRoute, NEW c \in Channels
  PROVE  [Fifo(c)!Next]_(Fifo(c)!vars)
<1>1. /\ UNCHANGED <<receiverUp, publishing, queue>> /\ receiverUp
      /\ accepted[c]' = accepted[c] /\ published[c]' = published[c]
  BY DEF publish, TakeToRoute
<1>2. Behind(c)' = Behind(c)
  BY BehindSame DEF publish, TakeToRoute
<1>3. Cat(IdsOf(routing', c), Cat(IdsOf(toPublish', c), IdsOf(wire', c)))
        = Cat(IdsOf(routing, c), Cat(IdsOf(toPublish, c), IdsOf(wire, c)))
  <2>0. /\ IdsOf(routing, c) \in Seq(Ids) /\ IdsOf(toPublish, c) \in Seq(Ids) /\ IdsOf(wire, c) \in Seq(Ids)
        /\ IdsOf(toPublish', c) \in Seq(Ids) /\ IdsOf(wire', c) \in Seq(Ids)
        /\ IdsOf(routing', c) \in Seq(Ids)
        /\ toPublish \in Seq(Message) /\ wire \in Seq(Message)
    BY PathPieces, PathPiecesNext DEF PathInv, TypeOK
  <2>1. CASE publish
    <3> DEFINE h == IdsOf(<<Head(wire)>>, c)
    <3>1. wire # <<>> /\ Head(wire) \in Message /\ routing' = routing
      BY <2>0, <2>1, Pieces DEF publish
    <3>2. IdsOf(wire, c) = Cat(h, IdsOf(wire', c)) /\ IdsOf(toPublish', c) = Cat(IdsOf(toPublish, c), h)
      BY <2>0, <2>1, <3>1, IdsOfEnds DEF publish
    <3>3. h \in Seq(Ids)
      <4>1. <<Head(wire)>> \in Seq(Message)
        BY <3>1
      <4> QED
        BY <4>1, IdsOfType
    <3> HIDE DEF h
    <3>4. Cat(IdsOf(toPublish', c), IdsOf(wire', c)) = Cat(IdsOf(toPublish, c), IdsOf(wire, c))
      BY <2>0, <3>2, <3>3, Joined
    <3> QED
      BY <3>1, <3>4
  <2>2. CASE TakeToRoute
    <3>1. /\ toPublish # <<>> /\ routing = <<>> /\ wire' = wire
          /\ routing' = <<Head(toPublish)>> /\ toPublish' = Tail(toPublish)
      BY <2>2 DEF TakeToRoute
    <3>2. IdsOf(toPublish, c) = Cat(IdsOf(routing', c), IdsOf(toPublish', c)) /\ IdsOf(routing, c) = <<>>
      BY <2>0, <3>1, IdsOfEnds, IdsOfEmpty
    <3>3. Cat(IdsOf(toPublish, c), IdsOf(wire, c)) \in Seq(Ids)
      BY <2>0, Joined
    <3>4. Cat(<<>>, Cat(IdsOf(toPublish, c), IdsOf(wire, c))) = Cat(IdsOf(toPublish, c), IdsOf(wire, c))
      BY <3>3, Joined
    <3>5. Cat(Cat(IdsOf(routing', c), IdsOf(toPublish', c)), IdsOf(wire, c))
            = Cat(IdsOf(routing', c), Cat(IdsOf(toPublish', c), IdsOf(wire, c)))
      BY <2>0, Joined
    <3> QED
      BY <3>1, <3>2, <3>4, <3>5
  <2> QED
    BY <2>1, <2>2
<1>4. Ahead(c)' = Ahead(c)
  BY <1>1, <1>3, AheadNext DEF Ahead
<1> QED
  BY <1>1, <1>2, <1>4, PartStep

\* A message that is routed goes to the end of the queue of its publisher, or to nobody.
LEMMA RouteStep ==
  ASSUME PathInv, PathInv', RouteUnknown \/ \E d \in Channels : RouteThreaded(d), NEW c \in Channels
  PROVE  [Fifo(c)!Next]_(Fifo(c)!vars)
<1>1. /\ UNCHANGED <<receiverUp, publishing, toPublish, wire>> /\ receiverUp
      /\ accepted[c]' = accepted[c] /\ published[c]' = published[c]
  BY DEF RouteUnknown, RouteThreaded
<1>2. Behind(c)' = Behind(c)
  BY BehindSame DEF RouteUnknown, RouteThreaded
<1> DEFINE p == IdsOf(publishing[c], c)
           q == IdsOf(queue[c], c)
           qn == IdsOf(queue'[c], c)
           r == IdsOf(routing, c)
           rest == Cat(IdsOf(toPublish, c), IdsOf(wire, c))
<1>3. p \in Seq(Ids) /\ q \in Seq(Ids) /\ qn \in Seq(Ids) /\ r \in Seq(Ids) /\ rest \in Seq(Ids)
  BY PathPieces, PathPiecesNext, Joined DEF PathInv
<1>4. routing' = <<>> /\ routing # <<>> /\ IdsOf(routing', c) = <<>>
  BY IdsOfEmpty DEF RouteUnknown, RouteThreaded
<1>5. Ahead(c) = Cat(p, Cat(q, Cat(r, rest))) /\ Ahead(c)' = Cat(p, Cat(qn, Cat(<<>>, rest)))
  BY <1>1, <1>4, AheadNext DEF Ahead
<1>6. qn = q \/ qn = Cat(q, r)
  <2>1. CASE RouteUnknown
    BY <2>1 DEF RouteUnknown
  <2>2. ASSUME NEW d \in Channels, RouteThreaded(d) PROVE qn = q \/ qn = Cat(q, r)
    <3>1. /\ queue \in [Channels -> Seq(Message)] /\ queue[c] \in Seq(Message)
          /\ Head(routing) \in Message /\ routing = <<Head(routing)>>
      BY <1>4, HeldAlone DEF PathInv, TypeOK
    <3>2. queue'[c] = IF c = d THEN Append(queue[c], Head(routing)) ELSE queue[c]
      BY <2>2, <3>1 DEF RouteThreaded
    <3>3. IdsOf(Append(queue[c], Head(routing)), c) = Cat(q, IdsOf(<<Head(routing)>>, c))
      BY <3>1, IdsOfEnds
    <3> QED
      BY <3>1, <3>2, <3>3
  <2> QED
    BY <2>1, <2>2
<1> HIDE DEF p, q, qn, r, rest
<1>7. Cat(<<>>, rest) = rest /\ Cat(r, rest) \in Seq(Ids)
  BY <1>3, Joined
<1>8. Drops(Ahead(c), Ahead(c)') \/ Ahead(c)' = Ahead(c)
  <2>1. CASE qn = q
    <3>1. Drops(Cat(r, rest), rest)
      BY <1>3, DropsParts
    <3>2. Drops(Cat(q, Cat(r, rest)), Cat(q, rest))
      BY <1>3, <1>7, <3>1, DropsParts
    <3>3. Cat(q, Cat(r, rest)) \in Seq(Ids) /\ Cat(q, rest) \in Seq(Ids)
      BY <1>3, <1>7, Joined
    <3>4. Drops(Cat(p, Cat(q, Cat(r, rest))), Cat(p, Cat(q, rest)))
      BY <1>3, <3>2, <3>3, DropsParts
    <3> QED
      BY <1>5, <1>7, <2>1, <3>4
  <2>2. CASE qn = Cat(q, r)
    <3>1. Cat(Cat(q, r), rest) = Cat(q, Cat(r, rest))
      BY <1>3, Joined
    <3> QED
      BY <1>5, <1>7, <2>2, <3>1
  <2> QED
    BY <1>6, <2>1, <2>2
<1> QED
  BY <1>1, <1>2, <1>8, PartStep

\* ThreadedPublisher::run takes the message that is first in its queue.
LEMMA TakeToPublishStep ==
  ASSUME PathInv, PathInv', NEW d \in Channels, TakeToPublish(d), NEW c \in Channels
  PROVE  [Fifo(c)!Next]_(Fifo(c)!vars)
<1>1. /\ UNCHANGED <<receiverUp, routing, toPublish, wire>> /\ receiverUp
      /\ accepted[c]' = accepted[c] /\ published[c]' = published[c]
  BY DEF TakeToPublish
<1>2. Behind(c)' = Behind(c)
  BY BehindSame DEF TakeToPublish
<1> DEFINE p == IdsOf(publishing[c], c)
           pn == IdsOf(publishing'[c], c)
           q == IdsOf(queue[c], c)
           qn == IdsOf(queue'[c], c)
           rest == Cat(IdsOf(routing, c), Cat(IdsOf(toPublish, c), IdsOf(wire, c)))
<1>3. p \in Seq(Ids) /\ pn \in Seq(Ids) /\ q \in Seq(Ids) /\ qn \in Seq(Ids) /\ rest \in Seq(Ids)
  BY PathPieces, PathPiecesNext, Joined DEF PathInv
<1>4. Ahead(c) = Cat(p, Cat(q, rest)) /\ Ahead(c)' = Cat(pn, Cat(qn, rest))
  BY <1>1, AheadNext DEF Ahead
<1>5. (p = <<>> /\ q = Cat(pn, qn)) \/ (pn = p /\ qn = q)
  <2>0. /\ queue \in [Channels -> Seq(Message)] /\ publishing \in [Channels -> AtMostOne]
        /\ queue[c] \in Seq(Message)
    BY DEF PathInv, TypeOK
  <2>1. CASE c = d
    <3>1. /\ publishing[c] = <<>> /\ queue[c] # <<>>
          /\ publishing'[c] = <<Head(queue[c])>> /\ queue'[c] = Tail(queue[c])
      BY <2>0, <2>1 DEF TakeToPublish
    <3>2. q = Cat(IdsOf(<<Head(queue[c])>>, c), IdsOf(Tail(queue[c]), c))
      BY <2>0, <3>1, IdsOfEnds
    <3> QED
      BY <3>1, <3>2, IdsOfEmpty
  <2>2. CASE c # d
    BY <2>0, <2>2 DEF TakeToPublish
  <2> QED
    BY <2>1, <2>2
<1> HIDE DEF p, pn, q, qn, rest
<1>6. Ahead(c)' = Ahead(c)
  <2>1. CASE p = <<>> /\ q = Cat(pn, qn)
    <3>1. Cat(Cat(pn, qn), rest) = Cat(pn, Cat(qn, rest)) /\ Cat(q, rest) \in Seq(Ids)
      BY <1>3, Joined
    <3>2. Cat(<<>>, Cat(q, rest)) = Cat(q, rest)
      BY <3>1, Joined
    <3> QED
      BY <1>4, <2>1, <3>1, <3>2
  <2> QED
    BY <1>4, <1>5, <2>1
<1> QED
  BY <1>1, <1>2, <1>6, PartStep

----------------------------------------------------------------------------
\* A subscriber takes a message to the end of the path of its topic.
LEMMA AcceptSteps ==
  ASSUME PathInv, PathInv', NEW m \in Message, QueueToSend(m) \/ SendShared(m), NEW c \in Channels
  PROVE  [Fifo(c)!Next]_(Fifo(c)!vars)
<1>1. Ahead(c)' = Ahead(c)
  BY AheadSame DEF QueueToSend, SendShared
<1>2. /\ m \in callbacks /\ m.channel \in Channels /\ m.id \in Ids
      /\ UNCHANGED <<senderUp, sendingQueue, writing, sending>> /\ senderUp
      /\ Untransmitted' = Untransmitted
      /\ published[c]' = published[c]
  BY Fields DEF QueueToSend, SendShared, Untransmitted
<1>3. accepted[c]' = IF c = m.channel THEN accepted[c] \cup {m.id} ELSE accepted[c]
  <2>1. /\ accepted \in [Channels -> SUBSET Ids]
        /\ accepted' = [accepted EXCEPT ![m.channel] = @ \cup {m.id}]
    BY DEF PathInv, TypeOK, QueueToSend, SendShared
  <2> QED
    BY <1>2, <2>1
<1> DEFINE u == IdsOf(Untransmitted, c)
           p == IdsOf(posted, c)
           pn == IdsOf(posted', c)
           s == IdsOf(sending[c], c)
           t == IdsOf(toSend[c], c)
           tn == IdsOf(toSend'[c], c)
           new == IdsOf(<<m>>, c)
<1>4. /\ u \in Seq(Ids) /\ p \in Seq(Ids) /\ pn \in Seq(Ids) /\ s \in Seq(Ids) /\ t \in Seq(Ids)
      /\ tn \in Seq(Ids)
  BY PathPieces, PathPiecesNext DEF PathInv
<1>5. new = IF m.channel = c THEN <<m.id>> ELSE <<>>
  BY IdsOfEnds
<1>0. new \in Seq(Ids)
  <2>1. <<m>> \in Seq(Message)
    OBVIOUS
  <2> QED
    BY <2>1, IdsOfType
<1>6. Behind(c) = Cat(u, Cat(p, Cat(s, t))) /\ Behind(c)' = Cat(u, Cat(pn, Cat(s, tn)))
  BY <1>2, BehindNext DEF Behind
<1>7. \/ pn = p /\ tn = Cat(t, new)
      \/ s = <<>> /\ t = <<>> /\ tn = <<>> /\ pn = Cat(p, new)
      \/ m.channel # c /\ tn = t /\ pn = Cat(p, new)
  <2>0. /\ toSend \in [Channels -> Seq(Message)] /\ toSend[c] \in Seq(Message) /\ posted \in Seq(Message)
        /\ Cat(t, <<>>) = t
    BY <1>4, Joined DEF PathInv, TypeOK
  <2>1. CASE QueueToSend(m)
    <3>1. /\ posted' = posted
          /\ toSend'[c] = IF c = m.channel THEN Append(toSend[c], m) ELSE toSend[c]
      BY <1>2, <2>0, <2>1 DEF QueueToSend
    <3>2. IdsOf(Append(toSend[c], m), c) = Cat(t, new)
      BY <2>0, IdsOfEnds
    <3> QED
      BY <1>5, <2>0, <3>1, <3>2
  <2>2. CASE SendShared(m)
    <3>1. posted' = Append(posted, m) /\ toSend' = toSend /\ m.channel \notin OwnSubscriber
      BY <2>2 DEF SendShared, Post
    <3>2. pn = Cat(p, new)
      BY <2>0, <3>1, IdsOfEnds
    <3>3. c = m.channel => sending[c] = <<>> /\ toSend[c] = <<>>
      BY <1>2, <3>1 DEF PathInv, SortedOut
    <3> QED
      BY <3>1, <3>2, <3>3, IdsOfEmpty
  <2> QED
    BY <2>1, <2>2
<1> HIDE DEF u, p, pn, s, t, tn, new
<1>8. Behind(c)' = Cat(Behind(c), new)
  <2>1. CASE pn = p /\ tn = Cat(t, new)
    <3>1. Cat(s, Cat(t, new)) = Cat(Cat(s, t), new) /\ Cat(s, t) \in Seq(Ids)
      BY <1>0, <1>4, Joined
    <3>2. Cat(p, Cat(Cat(s, t), new)) = Cat(Cat(p, Cat(s, t)), new) /\ Cat(p, Cat(s, t)) \in Seq(Ids)
      BY <1>0, <1>4, <3>1, Joined
    <3>3. Cat(u, Cat(Cat(p, Cat(s, t)), new)) = Cat(Cat(u, Cat(p, Cat(s, t))), new)
      BY <1>0, <1>4, <3>2, Joined
    <3> QED
      BY <1>6, <2>1, <3>1, <3>2, <3>3
  <2>2. CASE s = <<>> /\ t = <<>> /\ tn = <<>> /\ pn = Cat(p, new)
    <3>1. /\ Cat(<<>>, <<>>) = <<>> /\ Cat(p, <<>>) = p /\ Cat(Cat(p, new), <<>>) = Cat(p, new)
      BY <1>0, <1>4, Joined
    <3>2. Cat(u, Cat(p, new)) = Cat(Cat(u, p), new)
      BY <1>0, <1>4, Joined
    <3> QED
      BY <1>6, <2>2, <3>1, <3>2
  <2>3. CASE m.channel # c /\ tn = t /\ pn = Cat(p, new)
    <3>1. new = <<>> /\ Cat(p, <<>>) = p
      BY <1>4, <1>5, <2>3, Joined
    <3>2. Cat(u, Cat(p, Cat(s, t))) \in Seq(Ids)
      BY <1>4, Joined
    <3> QED
      BY <1>6, <2>3, <3>1, <3>2, Joined
  <2> QED
    BY <1>7, <2>1, <2>2, <2>3
<1>9. CASE c # m.channel
  <2>1. Behind(c)' = Behind(c)
    BY <1>5, <1>8, <1>9, PathSplits, Joined DEF PathInv
  <2> QED
    BY <1>1, <1>2, <1>3, <1>9, <2>1, PartStep
<1>10. CASE c = m.channel
  <2>1. /\ PathIds(c) = Cat(Ahead(c), Behind(c)) /\ Ahead(c) \in Seq(Ids) /\ Behind(c) \in Seq(Ids)
        /\ PathIds(c)' = Cat(Ahead(c)', Behind(c)')
    BY PathSplits, PathSplitsNext DEF PathInv
  <2>2. new = <<m.id>>
    BY <1>5, <1>10
  <2>3. PathIds(c)' = Cat(PathIds(c), new) /\ PathIds(c) \in Seq(Ids)
    BY <1>0, <1>1, <1>8, <2>1, Joined
  <2>4. m.id \notin accepted[c] /\ (c \notin OwnSubscriber => \A i \in accepted[c] : i < m.id)
    BY <1>2, <1>10 DEF PathInv, Numbered
  <2> QED
    BY <1>2, <1>3, <1>10, <2>2, <2>3, <2>4, AcceptStep
<1> QED
  BY <1>9, <1>10

\* A publisher publishes the message that is first on the path of its topic.
LEMMA DeliverSteps ==
  ASSUME PathInv, PathInv', NEW d \in Channels, RouteShared(d) \/ rosPublish(d), NEW c \in Channels
  PROVE  [Fifo(c)!Next]_(Fifo(c)!vars)
<1>1. /\ UNCHANGED <<receiverUp, queue, toPublish, wire>> /\ receiverUp
      /\ accepted[c]' = accepted[c]
  BY DEF RouteShared, rosPublish
<1>2. Behind(c)' = Behind(c)
  BY BehindSame DEF RouteShared, rosPublish
<1> DEFINE p == IdsOf(publishing[c], c)
           pn == IdsOf(publishing'[c], c)
           q == IdsOf(queue[c], c)
           r == IdsOf(routing, c)
           rn == IdsOf(routing', c)
           rest == Cat(IdsOf(toPublish, c), IdsOf(wire, c))
<1>3. /\ p \in Seq(Ids) /\ pn \in Seq(Ids) /\ q \in Seq(Ids) /\ r \in Seq(Ids) /\ rn \in Seq(Ids)
      /\ rest \in Seq(Ids)
  BY PathPieces, PathPiecesNext, Joined DEF PathInv
<1>4. Ahead(c) = Cat(p, Cat(q, Cat(r, rest))) /\ Ahead(c)' = Cat(pn, Cat(q, Cat(rn, rest)))
  BY <1>1, AheadNext DEF Ahead
<1>5. /\ publishing \in [Channels -> AtMostOne] /\ publishing[c] \in AtMostOne /\ routing \in AtMostOne
      /\ published \in [Channels -> Seq(Ids)]
  BY DEF PathInv, TypeOK
<1>6. IdsOf(<<>>, c) = <<>> /\ \A m \in Message : IdsOf(<<m>>, c) = IF m.channel = c THEN <<m.id>> ELSE <<>>
  BY IdsOfEmpty, IdsOfEnds
<1>7. CASE c # d
  <2>1. published[c]' = published[c] /\ publishing'[c] = publishing[c]
    BY <1>5, <1>7 DEF RouteShared, rosPublish
  <2>2. rn = r
    <3>1. CASE RouteShared(d)
      <4>1. routing = <<Head(routing)>> /\ Head(routing) \in Message /\ Head(routing).channel = d /\ routing' = <<>>
        BY <1>5, <3>1, HeldAlone DEF RouteShared
      <4>2. IdsOf(<<Head(routing)>>, c) = <<>>
        BY <1>6, <1>7, <4>1
      <4> QED
        BY <1>6, <4>1, <4>2
    <3>2. CASE rosPublish(d)
      BY <3>2 DEF rosPublish
    <3> QED
      BY <3>1, <3>2
  <2>3. Ahead(c)' = Ahead(c)
    BY <1>4, <2>1, <2>2
  <2> QED
    BY <1>1, <1>2, <2>1, <2>3, PartStep
<1>8. CASE c = d
  <2>1. \E m \in Message : /\ published[c]' = Append(published[c], m.id) /\ m.channel = c
                           /\ Ahead(c) = Cat(<<m.id>>, Ahead(c)')
    <3>1. CASE RouteShared(d)
      <4> DEFINE m == Head(routing)
      <4>1. /\ routing = <<m>> /\ m \in Message /\ m.channel = c /\ routing' = <<>>
            /\ published[c]' = Append(published[c], m.id) /\ publishing' = publishing
        BY <1>5, <1>8, <3>1, HeldAlone DEF RouteShared
      <4>2. publishing[c] = <<>> /\ queue[c] = <<>>
        BY <1>8, <3>1 DEF RouteShared, PathInv, SortedIn
      <4> HIDE DEF m
      <4>3. p = <<>> /\ pn = <<>> /\ q = <<>> /\ rn = <<>>
        BY <1>6, <4>1, <4>2
      <4>4. r = <<m.id>>
        BY <1>6, <4>1
      <4>5. Cat(r, rest) \in Seq(Ids)
        BY <1>3, Joined
      <4> HIDE DEF p, pn, q, r, rn, rest
      <4>6. Ahead(c) = Cat(r, rest) /\ Ahead(c)' = rest
        BY <1>3, <1>4, <4>3, <4>5, Joined
      <4> QED
        BY <4>1, <4>4, <4>6
    <3>2. CASE rosPublish(d)
      <4> DEFINE m == Head(publishing[c])
      <4>1. /\ publishing[c] = <<m>> /\ m \in Message /\ routing' = routing
            /\ publishing'[c] = <<>> /\ published[c]' = Append(published[c], m.id)
        BY <1>5, <1>8, <3>2, HeldAlone DEF rosPublish
      <4>2. m.channel = c
        BY <1>8, <3>2 DEF rosPublish, PathInv, SortedIn, MessageOf
      <4> HIDE DEF m
      <4>3. p = <<m.id>> /\ pn = <<>> /\ rn = r
        BY <1>6, <4>1, <4>2
      <4>4. Cat(q, Cat(r, rest)) \in Seq(Ids)
        BY <1>3, Joined
      <4> HIDE DEF p, pn, q, r, rn, rest
      <4>5. Ahead(c)' = Cat(q, Cat(r, rest))
        BY <1>4, <4>3, <4>4, Joined
      <4> QED
        BY <1>4, <4>1, <4>2, <4>3, <4>5
    <3> QED
      BY <3>1, <3>2
  <2>2. PICK m \in Message : /\ published[c]' = Append(published[c], m.id) /\ m.channel = c
                             /\ Ahead(c) = Cat(<<m.id>>, Ahead(c)')
    BY <2>1
  <2>3. /\ PathIds(c) = Cat(Ahead(c), Behind(c)) /\ Behind(c) \in Seq(Ids)
        /\ PathIds(c)' = Cat(Ahead(c)', Behind(c)') /\ Ahead(c)' \in Seq(Ids)
    BY PathSplits, PathSplitsNext DEF PathInv
  <2>4. m.id \in Ids /\ <<m.id>> \in Seq(Ids)
    BY Fields
  <2>5. Cat(Cat(<<m.id>>, Ahead(c)'), Behind(c)) = Cat(<<m.id>>, Cat(Ahead(c)', Behind(c)))
    BY <2>3, <2>4, Joined
  <2>6. PathIds(c) = Cat(<<m.id>>, PathIds(c)') /\ PathIds(c)' \in Seq(Ids)
    BY <1>2, <2>2, <2>3, <2>5, Joined
  <2> QED
    BY <1>1, <2>2, <2>4, <2>6, DeliverStep
<1> QED
  BY <1>7, <1>8

----------------------------------------------------------------------------
\* Every path is empty at first.
LEMMA FifoStarts == ASSUME Init, NEW c \in Channels PROVE Fifo(c)!Init
<1>1. PathInv
  BY PathInvStarts
<1>2. PathIds(c) = <<>>
  <2>1. /\ publishing[c] = <<>> /\ queue[c] = <<>> /\ routing = <<>> /\ toPublish = <<>> /\ wire = <<>>
        /\ Untransmitted = <<>> /\ posted = <<>> /\ sending[c] = <<>> /\ toSend[c] = <<>>
    BY DEF Init, Untransmitted
  <2>2. Cat(<<>>, <<>>) = <<>> /\ IdsOf(<<>>, c) = <<>>
    BY Joined, IdsOfEmpty
  <2>3. Ahead(c) = <<>> /\ Behind(c) = <<>>
    BY <2>1, <2>2 DEF Ahead, Behind
  <2> QED
    BY <1>1, <2>2, <2>3, PathSplits DEF PathInv
<1> QED
  BY <1>2 DEF Fifo!Init, Init

\* Every step of the system is a step of every path, or leaves it alone.
LEMMA FifoSteps ==
  ASSUME PathInv, PathInv', [Next]_vars, NEW c \in Channels
  PROVE  [Fifo(c)!Next]_(Fifo(c)!vars)
<1>1. CASE Sender
  BY <1>1, TakeToSendStep, SendThreadedStep, AcceptSteps DEF Sender
<1>2. CASE Strand
  BY <1>2, queueMessageStep, TransmitStep, WrittenStep DEF Strand
<1>3. CASE Receiver
  BY <1>3, HandOnStep, RouteStep, TakeToPublishStep, DeliverSteps DEF Receiver
<1>4. ASSUME NEW d \in Channels, BeginCallback(d) \/ Subscribe(d) \/ Unsubscribe(d)
      PROVE  [Fifo(c)!Next]_(Fifo(c)!vars)
  BY <1>4, QuietStep, UnsubscribeStep
<1>5. CASE WriteFailed \/ StreamCloses \/ StopSender \/ StopReceiver \/ UNCHANGED vars
  BY <1>5, WrittenStep, QuietStep, StopStep
<1> QED
  BY <1>1, <1>2, <1>3, <1>4, <1>5 DEF Next

\* Six queues, four threads and two strands make one queue per topic that loses messages only
\* where a subscriber is destroyed or a connection ends, and neither duplicates nor reorders any:
\* SharedSubscriber, ThreadedSubscriber, ConnectionBase::send, WebsocketConnectionBase,
\* PublisherManager and ThreadedPublisher together implement LossyFifo, for any channels.
THEOREM PathIsLossyFifo == Spec => Implements
<1>1. Init => PathInv /\ \A c \in Channels : Fifo(c)!Init
  BY PathInvStarts, FifoStarts
<1>2. PathInv /\ [Next]_vars => PathInv'
  BY PathInvKept
<1>3. PathInv /\ PathInv' /\ [Next]_vars => [\A c \in Channels : [Fifo(c)!Next]_(Fifo(c)!vars)]_vars
  BY FifoSteps
<1> QED
  BY <1>1, <1>2, <1>3, PTL DEF Spec, Implements

-----------------------------------------------------------------------------
\* What the refinement is for.

\* s, of what has been accepted, names nothing twice, and in order where that is promised.
Once(a, s, ordered) ==
  /\ \A k \in 1 .. Len(s) : s[k] \in a
  /\ \A k, l \in 1 .. Len(s) : k < l => s[k] # s[l] /\ (ordered => s[k] < s[l])

\* What has been published on a channel and what is on its path.
PublishedAndPending(c) == Cat(published[c], PathIds(c))

\* What LossyFifo promises of them.
AtMostOnce(c) == Once(accepted[c], PublishedAndPending(c), c \notin OwnSubscriber)

\* One sequence after another, by the positions.
LEMMA Positions ==
  ASSUME NEW p \in Seq(Ids), NEW q \in Seq(Ids)
  PROVE  /\ Cat(p, q) \in Seq(Ids) /\ Len(Cat(p, q)) = Len(p) + Len(q)
         /\ \A k \in 1 .. Len(p) : Cat(p, q)[k] = p[k]
         /\ \A k \in 1 .. Len(q) : Cat(p, q)[Len(p) + k] = q[k]
<1> DEFINE s == p \o q
<1>1. /\ s \in Seq(Ids) /\ Len(s) = Len(p) + Len(q)
      /\ \A k \in 1 .. Len(p) : s[k] = p[k]
      /\ \A k \in 1 .. Len(q) : s[Len(p) + k] = q[k]
  OBVIOUS
<1> QED
  BY <1>1 DEF Cat

\* A piece that is lost does no harm,
LEMMA OnceWithout ==
  ASSUME NEW a, NEW ordered, NEW p \in Seq(Ids), NEW x \in Seq(Ids), NEW q \in Seq(Ids),
         Once(a, Cat(p, Cat(x, q)), ordered)
  PROVE  Once(a, Cat(p, q), ordered)
<1> DEFINE s == Cat(p, Cat(x, q))
           t == Cat(p, q)
           from(k) == IF k <= Len(p) THEN k ELSE k + Len(x)
<1>1. Len(p) \in Nat /\ Len(x) \in Nat /\ Len(q) \in Nat
  OBVIOUS
<1>2. /\ Len(Cat(x, q)) = Len(x) + Len(q) /\ Cat(x, q) \in Seq(Ids)
      /\ \A k \in 1 .. Len(q) : Cat(x, q)[Len(x) + k] = q[k]
  BY Positions
<1>3. /\ Len(s) = Len(p) + Len(Cat(x, q))
      /\ \A k \in 1 .. Len(p) : s[k] = p[k]
      /\ \A k \in 1 .. Len(Cat(x, q)) : s[Len(p) + k] = Cat(x, q)[k]
  BY <1>2, Positions
<1>4. /\ Len(t) = Len(p) + Len(q)
      /\ \A k \in 1 .. Len(p) : t[k] = p[k]
      /\ \A k \in 1 .. Len(q) : t[Len(p) + k] = q[k]
  BY Positions
<1> HIDE DEF s, t
<1>5. ASSUME NEW k \in 1 .. Len(t) PROVE from(k) \in 1 .. Len(s) /\ t[k] = s[from(k)]
  <2>1. CASE k <= Len(p)
    <3>1. k \in 1 .. Len(p)
      BY <2>1
    <3> QED
      BY <1>1, <1>2, <1>3, <1>4, <2>1, <3>1
  <2>2. CASE ~(k <= Len(p))
    <3> DEFINE i == k - Len(p)
    <3>1. i \in 1 .. Len(q) /\ k = Len(p) + i
      BY <1>1, <1>4, <2>2
    <3>2. Len(x) + i \in 1 .. Len(Cat(x, q)) /\ from(k) = Len(p) + (Len(x) + i)
      BY <1>1, <1>2, <2>2, <3>1
    <3> HIDE DEF i
    <3>3. t[k] = q[i] /\ Cat(x, q)[Len(x) + i] = q[i]
      BY <1>2, <1>4, <3>1
    <3>4. s[from(k)] = Cat(x, q)[Len(x) + i]
      BY <1>3, <3>2
    <3>5. from(k) \in 1 .. Len(s)
      BY <1>1, <1>2, <1>3, <3>1, <3>2
    <3> QED
      BY <3>3, <3>4, <3>5
  <2> QED
    BY <2>1, <2>2
<1>6. ASSUME NEW k \in 1 .. Len(t), NEW l \in 1 .. Len(t), k < l PROVE from(k) < from(l)
  BY <1>1, <1>6
<1>7. Once(a, s, ordered)
  BY DEF s
<1> HIDE DEF from
<1>8. \A k \in 1 .. Len(t) : t[k] \in a
  BY <1>5, <1>7 DEF Once
<1>9. ASSUME NEW k \in 1 .. Len(t), NEW l \in 1 .. Len(t), k < l
      PROVE  t[k] # t[l] /\ (ordered => t[k] < t[l])
  BY <1>5, <1>6, <1>7, <1>9 DEF Once
<1>10. Once(a, t, ordered)
  BY <1>8, <1>9 DEF Once
<1> QED
  BY <1>10 DEF t

\* and one that is new is not there yet.
LEMMA OnceMore ==
  ASSUME NEW a \in SUBSET Ids, NEW ordered, NEW s \in Seq(Ids), NEW id \in Ids, id \notin a,
         ordered => \A i \in a : i < id, Once(a, s, ordered)
  PROVE  Once(a \cup {id}, Append(s, id), ordered)
<1> DEFINE t == Append(s, id)
<1>1. Len(t) = Len(s) + 1 /\ t[Len(s) + 1] = id /\ Len(s) \in Nat /\ \A k \in 1 .. Len(s) : t[k] = s[k]
  OBVIOUS
<1> HIDE DEF t
<1>2. \A k \in 1 .. Len(t) : k \in 1 .. Len(s) \/ k = Len(s) + 1
  BY <1>1
<1>3. \A k \in 1 .. Len(s) : t[k] \in a
  BY <1>1 DEF Once
<1>4. \A k \in 1 .. Len(t) : t[k] \in a \cup {id}
  BY <1>1, <1>2, <1>3
<1>5. ASSUME NEW k \in 1 .. Len(t), NEW l \in 1 .. Len(t), k < l
      PROVE  t[k] # t[l] /\ (ordered => t[k] < t[l])
  <2>1. k \in 1 .. Len(s)
    BY <1>1, <1>2, <1>5
  <2>2. CASE l \in 1 .. Len(s)
    BY <1>1, <1>5, <2>1, <2>2 DEF Once
  <2>3. CASE l = Len(s) + 1
    BY <1>1, <1>3, <2>1, <2>3
  <2> QED
    BY <1>2, <2>2, <2>3
<1>6. Once(a \cup {id}, t, ordered)
  BY <1>4, <1>5 DEF Once
<1> QED
  BY <1>6 DEF t

\* Every step of LossyFifo keeps it.
LEMMA AtMostOnceKept ==
  ASSUME PathInv, PathInv', NEW c \in Channels, AtMostOnce(c), [Fifo(c)!Next]_(Fifo(c)!vars)
  PROVE  AtMostOnce(c)'
<1> DEFINE p == published[c]
           q == PathIds(c)
           pn == published[c]'
           qn == PathIds(c)'
           a == accepted[c]
           an == accepted[c]'
           ordered == c \notin OwnSubscriber
<1>1. p \in Seq(Ids) /\ q \in Seq(Ids) /\ pn \in Seq(Ids) /\ qn \in Seq(Ids) /\ a \in SUBSET Ids
  <2>1. p \in Seq(Ids) /\ pn \in Seq(Ids) /\ a \in SUBSET Ids
    BY DEF PathInv, TypeOK
  <2>2. q \in Seq(Ids) /\ qn \in Seq(Ids)
    BY PathSplits, PathSplitsNext, Joined DEF PathInv
  <2> QED
    BY <2>1, <2>2
<1>2. Once(a, Cat(p, q), ordered) /\ (AtMostOnce(c)' <=> Once(an, Cat(pn, qn), ordered))
  BY DEF AtMostOnce, PublishedAndPending, Once
<1>3. \/ \E id \in Ids : Fifo(c)!Accept(id)
      \/ Fifo(c)!Deliver
      \/ Fifo(c)!Lose
      \/ UNCHANGED Fifo(c)!vars
  BY DEF Fifo!Next
<1>4. ASSUME NEW id \in Ids, Fifo(c)!Accept(id) PROVE AtMostOnce(c)'
  <2>1. /\ id \notin a /\ (ordered => \A i \in a : i < id)
        /\ an = a \cup {id} /\ qn = Append(q, id) /\ pn = p
    BY <1>4 DEF Fifo!Accept
  <2> HIDE DEF p, q, pn, qn, a, an, ordered
  <2>2. Cat(p, q) \in Seq(Ids)
    BY <1>1, Joined
  <2>3. Cat(pn, qn) = Append(Cat(p, q), id)
    BY <1>1, <2>1 DEF Cat
  <2>4. Once(a \cup {id}, Append(Cat(p, q), id), ordered)
    BY <1>1, <1>2, <2>1, <2>2, OnceMore
  <2> QED
    BY <1>2, <2>1, <2>3, <2>4
<1>5. CASE Fifo(c)!Deliver
  <2>1. q # <<>> /\ pn = Append(p, Head(q)) /\ qn = Tail(q) /\ an = a
    BY <1>5 DEF Fifo!Deliver
  <2> HIDE DEF p, q, pn, qn, a, an, ordered
  <2>2. q = Cat(<<Head(q)>>, qn) /\ pn = Cat(p, <<Head(q)>>) /\ <<Head(q)>> \in Seq(Ids)
    <3>1. Head(q) \in Ids
      BY <1>1, <2>1
    <3>2. q = <<Head(q)>> \o Tail(q) /\ <<Head(q)>> \in Seq(Ids)
      BY <1>1, <2>1, <3>1
    <3>3. Append(p, Head(q)) = p \o <<Head(q)>>
      BY <1>1, <3>1, AppendIsConcat
    <3> QED
      BY <2>1, <3>2, <3>3 DEF Cat
  <2>3. Cat(pn, qn) = Cat(p, q)
    <3> DEFINE h == <<Head(q)>>
    <3>1. q = Cat(h, qn) /\ pn = Cat(p, h) /\ h \in Seq(Ids)
      BY <2>2
    <3> HIDE DEF h
    <3>2. Cat(Cat(p, h), qn) = Cat(p, Cat(h, qn))
      BY <1>1, <3>1, Joined
    <3> QED
      BY <3>1, <3>2
  <2> QED
    BY <1>2, <2>1, <2>3
<1>6. CASE Fifo(c)!Lose
  <2>1. an = a /\ pn = p
    BY <1>6 DEF Fifo!Lose
  <2>2. PICK i \in 1 .. Len(q), j \in 1 .. Len(q) :
          i <= j /\ qn = SubSeq(q, 1, i - 1) \o SubSeq(q, j + 1, Len(q))
    BY <1>6 DEF Fifo!Lose
  <2> HIDE DEF p, q, pn, qn, a, an, ordered
  <2> DEFINE f == SubSeq(q, 1, i - 1)
             x == SubSeq(q, i, j)
             b == SubSeq(q, j + 1, Len(q))
  <2>3. f \in Seq(Ids) /\ x \in Seq(Ids) /\ b \in Seq(Ids)
    BY <1>1
  <2>4. q = f \o (x \o b)
    <3>1. x \o b = SubSeq(q, i, Len(q))
      <4>1. i \in 1 .. Len(q) + 1 /\ j \in (i - 1) .. Len(q) /\ Len(q) \in j .. Len(q)
        BY <1>1, <2>2
      <4>2. SubSeq(q, i, j) \o SubSeq(q, j + 1, Len(q)) = SubSeq(q, i, Len(q))
        BY <1>1, <4>1, ConcatAdjacentSubSeq, Zenon
      <4> QED
        BY <4>2
    <3>2. f \o SubSeq(q, i, Len(q)) = SubSeq(q, 1, Len(q))
      <4> DEFINE k == i - 1
      <4>1. k + 1 = i /\ k \in (1 - 1) .. Len(q) /\ Len(q) \in k .. Len(q) /\ 1 \in 1 .. Len(q) + 1
        BY <1>1, <2>2
      <4> HIDE DEF k
      <4>2. SubSeq(q, 1, k) \o SubSeq(q, k + 1, Len(q)) = SubSeq(q, 1, Len(q))
        BY <1>1, <4>1, ConcatAdjacentSubSeq, Zenon
      <4>3. SubSeq(q, 1, i - 1) = SubSeq(q, 1, k)
        BY DEF k
      <4> QED
        BY <4>1, <4>2, <4>3
    <3>3. SubSeq(q, 1, Len(q)) = q
      BY <1>1, SubSeqFull
    <3> QED
      BY <3>1, <3>2, <3>3
  <2>5. qn = Cat(f, b) /\ q = Cat(f, Cat(x, b))
    BY <2>2, <2>4 DEF Cat
  <2> HIDE DEF f, x, b
  <2>6. /\ Cat(p, q) = Cat(Cat(p, f), Cat(x, b)) /\ Cat(p, f) \in Seq(Ids)
        /\ Cat(p, qn) = Cat(Cat(p, f), b)
    BY <1>1, <2>3, <2>5, Joined
  <2>7. Once(a, Cat(Cat(p, f), b), ordered)
    BY <1>2, <2>3, <2>6, OnceWithout
  <2> QED
    BY <1>2, <2>1, <2>6, <2>7
<1>7. CASE UNCHANGED Fifo(c)!vars
  <2>1. an = a /\ pn = p /\ qn = q
    BY <1>7 DEF Fifo!vars
  <2> HIDE DEF p, q, pn, qn, a, an, ordered
  <2> QED
    BY <1>2, <2>1
<1> QED
  BY <1>3, <1>4, <1>5, <1>6, <1>7

\* What a channel has published names no message twice, and in the order of their arrival where
\* the topic has no thread of its own.
PublishedInOrder ==
  \A c \in Channels : \A k, l \in 1 .. Len(published[c]) :
    k < l => /\ published[c][k] # published[c][l]
             /\ c \notin OwnSubscriber => published[c][k] < published[c][l]

\* What LossyFifo is for: no message is published twice, whatever stops, closes or breaks, and
\* none overtakes another of a topic whose subscriber has no useOwnThread.
THEOREM NothingTwice == Spec => []PublishedInOrder
<1> DEFINE I == PathInv /\ \A c \in Channels : AtMostOnce(c)
<1>1. Init => I
  <2> SUFFICES ASSUME Init PROVE I
    OBVIOUS
  <2>1. PathInv
    BY PathInvStarts
  <2>2. ASSUME NEW c \in Channels PROVE AtMostOnce(c)
    <3>1. published[c] = <<>> /\ PathIds(c) = <<>>
      BY FifoStarts DEF Fifo!Init
    <3>2. PublishedAndPending(c) = <<>>
      BY <3>1, Joined DEF PublishedAndPending
    <3>3. Len(PublishedAndPending(c)) = 0
      BY <3>2
    <3> QED
      BY <3>3 DEF AtMostOnce, Once
  <2> QED
    BY <2>1, <2>2
<1>2. I /\ [Next]_vars => I'
  <2> SUFFICES ASSUME I, [Next]_vars PROVE I'
    OBVIOUS
  <2>1. PathInv'
    BY PathInvKept
  <2>2. ASSUME NEW c \in Channels PROVE AtMostOnce(c)'
    BY <2>1, FifoSteps, AtMostOnceKept
  <2> QED
    BY <2>1, <2>2
<1>3. I => PublishedInOrder
  <2> SUFFICES ASSUME I, NEW c \in Channels, NEW k \in 1 .. Len(published[c]),
                      NEW l \in 1 .. Len(published[c]), k < l
               PROVE  /\ published[c][k] # published[c][l]
                      /\ c \notin OwnSubscriber => published[c][k] < published[c][l]
    BY DEF PublishedInOrder
  <2> DEFINE p == published[c]
             q == PathIds(c)
  <2>1. p \in Seq(Ids) /\ q \in Seq(Ids)
    BY PathSplits, Joined DEF PathInv, TypeOK
  <2>2. Once(accepted[c], Cat(p, q), c \notin OwnSubscriber)
    BY DEF AtMostOnce, PublishedAndPending, Once
  <2>3. k \in 1 .. Len(p) /\ l \in 1 .. Len(p)
    OBVIOUS
  <2> HIDE DEF p, q
  <2>4. /\ Len(Cat(p, q)) = Len(p) + Len(q) /\ Len(p) \in Nat /\ Len(q) \in Nat
        /\ Cat(p, q)[k] = p[k] /\ Cat(p, q)[l] = p[l]
    <3>1. Len(Cat(p, q)) = Len(p) + Len(q) /\ \A n \in 1 .. Len(p) : Cat(p, q)[n] = p[n]
      BY <2>1, Positions
    <3>2. Len(p) \in Nat /\ Len(q) \in Nat
      BY <2>1
    <3> QED
      BY <2>3, <3>1, <3>2
  <2>5. k \in 1 .. Len(Cat(p, q)) /\ l \in 1 .. Len(Cat(p, q))
    BY <2>3, <2>4
  <2>6. p[k] # p[l] /\ (c \notin OwnSubscriber => p[k] < p[l])
    BY <2>2, <2>4, <2>5 DEF Once
  <2> QED
    BY <2>6 DEF p
<1> QED
  BY <1>1, <1>2, <1>3, PTL DEF Spec
=============================================================================
