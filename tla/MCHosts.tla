------------------------------ MODULE MCHosts ------------------------------
(***************************************************************************)
(* The pairs of parameters for which TLC checks Hosts.                     *)
(***************************************************************************)
EXTENDS Hosts

Qos(id, depth) == [form |-> "complete", id |-> id, depth |-> depth]
Profile(id, compressor, rate) ==
  [form |-> "complete", id |-> id, compressor |-> compressor, rate |-> rate]
TopicEntry(channel, topic, useOwnThread, compression) ==
  [form |-> "complete", channel |-> channel, topic |-> topic, useOwnThread |-> useOwnThread,
   qos |-> 1, compression |-> compression, creatable |-> TRUE]
CallEntry(channel, useOwnThread, allowSimultaneous, compression) ==
  [form |-> "complete", channel |-> channel, type |-> "plugin", useOwnThread |-> useOwnThread,
   allowSimultaneous |-> allowSimultaneous, maxExecTime |-> 10, qos |-> <<1>>,
   compression |-> compression, creatable |-> TRUE]

Base == [DefaultParameters EXCEPT
  !.authenticationOmit = TRUE, !.qos = <<Qos(1, 10)>>,
  !.compression = <<Profile(1, NONE, 0), Profile(2, LZ4_HC, 12), Profile(3, ZLIB, 9),
                    Profile(4, LZ4_DEFAULT, 65537)>>]
Pair(server, client) == [h \in Host |-> IF h = "server" THEN server ELSE client]

\* One topic in each direction: compressed between threads, plain between shared ones.
Directions(profile) == Pair(
  [Base EXCEPT !.subscriber = <<TopicEntry(1, "/a", TRUE, profile)>>,
               !.publisher = <<TopicEntry(2, "/b", FALSE, 1)>>],
  [Base EXCEPT !.publisher = <<TopicEntry(1, "/a", TRUE, 1)>>,
               !.subscriber = <<TopicEntry(2, "/b", FALSE, 1)>>])

\* The configuration the README warns of.
Loop == Pair(
  [Base EXCEPT !.subscriber = <<TopicEntry(1, "/a", FALSE, 1)>>,
               !.publisher = <<TopicEntry(2, "/a", FALSE, 1)>>],
  [Base EXCEPT !.publisher = <<TopicEntry(1, "/a", FALSE, 1)>>,
               !.subscriber = <<TopicEntry(2, "/a", FALSE, 1)>>])

\* Relative names, for hosts without a namespace.
MCFullName(h, topic) == CASE topic = "a" -> "/a" [] topic = "tf" -> "/tf" [] OTHER -> topic

\* The same, when the entries of a host call the topic by two names.
NamedLoop == Pair(
  [Base EXCEPT !.subscriber = <<TopicEntry(1, "/a", FALSE, 1)>>,
               !.publisher = <<TopicEntry(2, "a", FALSE, 1)>>],
  [Base EXCEPT !.publisher = <<TopicEntry(1, "a", FALSE, 1)>>,
               !.subscriber = <<TopicEntry(2, "/a", FALSE, 1)>>])

\* tf in one direction by the flags, in the other by entries.
TfLoop == Pair(
  [Base EXCEPT !.subscribeTf = TRUE, !.publisher = <<TopicEntry(1, "tf", FALSE, 1)>>],
  [Base EXCEPT !.publishTf = TRUE, !.subscriber = <<TopicEntry(1, "tf", FALSE, 1)>>])

\* A shared publisher that gets compressed messages, and a channel nobody publishes.
Mismatch == Pair(
  [Base EXCEPT !.subscriber = <<TopicEntry(1, "/a", TRUE, 3), TopicEntry(3, "/c", FALSE, 1)>>],
  [Base EXCEPT !.publisher = <<TopicEntry(1, "/a", FALSE, 1)>>])

\* The flags of tf and clock, every way both hosts can set them.
Flags(s, c) == Pair(
  [Base EXCEPT !.subscribeTf = s[1], !.publishTf = s[2], !.subscribeClock = s[3], !.publishClock = s[4]],
  [Base EXCEPT !.subscribeTf = c[1], !.publishTf = c[2], !.subscribeClock = c[3], !.publishClock = c[4]])
AllFlags == {Flags(s, c) : s, c \in {<<TRUE, FALSE, FALSE, TRUE>>, <<FALSE, TRUE, TRUE, FALSE>>,
                                      <<TRUE, TRUE, FALSE, FALSE>>}}

\* Parameters at the edges: what is refused, and what narrowing lets through.
Edges == {Pair(p, Base) : p \in {
  [Base EXCEPT !.subscriber = <<TopicEntry(1, "/a", FALSE, 1)>>,
               !.publisher = <<TopicEntry(1, "/b", FALSE, 1)>>],
  [Base EXCEPT !.subscriber = <<TopicEntry(1, "/a", FALSE, 1), TopicEntry(1, "/b", FALSE, 1)>>],
  [Base EXCEPT !.subscriber = <<TopicEntry(249, "/a", FALSE, 1)>>],
  [Base EXCEPT !.subscriber = <<TopicEntry(248, "/a", FALSE, 257)>>],
  [Base EXCEPT !.subscriber = <<TopicEntry(248, "/a", FALSE, 258)>>],
  [Base EXCEPT !.subscriber = <<TopicEntry(1, "/tf", FALSE, 1)>>],
  [Base EXCEPT !.qos = <<Qos(1, -1)>>], [Base EXCEPT !.qos = <<Qos(1, 0)>>],
  [Base EXCEPT !.qos = <<Qos(1, 10), Qos(256, 10)>>],
  [Base EXCEPT !.fragmentationSize = -1], [Base EXCEPT !.fragmentationSize = 7],
  [Base EXCEPT !.authenticationTimeout = 65536], [Base EXCEPT !.authenticationOmit = FALSE],
  [Base EXCEPT !.serviceServer = <<CallEntry(1, FALSE, TRUE, 1)>>],
  [Base EXCEPT !.serviceServer = <<[CallEntry(1, FALSE, FALSE, 1) EXCEPT !.form = "broken"]>>],
  [Base EXCEPT !.serviceServer = <<CallEntry(1, TRUE, TRUE, 1)>>,
               !.serviceClient = <<CallEntry(1, TRUE, TRUE, 1)>>]}}

\* A service and an action of the same channel, in opposite directions.
SameChannel == Pair(
  [Base EXCEPT !.serviceServer = <<CallEntry(7, TRUE, TRUE, 3)>>,
               !.actionClient = <<CallEntry(7, FALSE, FALSE, 1)>>],
  [Base EXCEPT !.serviceClient = <<CallEntry(7, TRUE, FALSE, 1)>>,
               !.actionServer = <<CallEntry(7, FALSE, FALSE, 1)>>])

\* More calls than threads, to a service the other host does not have, and a topic that
\* needs a thread.
Unanswered == Pair(
  [Base EXCEPT !.publisher = <<TopicEntry(1, "/a", FALSE, 1)>>],
  [Base EXCEPT !.subscriber = <<TopicEntry(1, "/a", FALSE, 1)>>,
               !.serviceServer = <<CallEntry(1, FALSE, FALSE, 1)>>])

\* Calls that are all in one shared group.
Shared == Pair(
  [Base EXCEPT !.serviceClient = <<CallEntry(1, FALSE, FALSE, 1)>>],
  [Base EXCEPT !.serviceServer = <<CallEntry(1, FALSE, FALSE, 1)>>])

\* A host with a group for each of two calls.
Groups == Pair(
  [Base EXCEPT !.serviceClient = <<CallEntry(1, FALSE, FALSE, 1)>>],
  [Base EXCEPT !.serviceServer = <<CallEntry(3, FALSE, FALSE, 1)>>,
               !.actionServer = <<CallEntry(1, FALSE, FALSE, 1)>>])

\* Topics and a call at the same time.
Mixed == Pair(
  [Directions(3)["server"] EXCEPT !.serviceServer = <<CallEntry(1, TRUE, TRUE, 2)>>],
  [Directions(3)["client"] EXCEPT !.serviceClient = <<CallEntry(1, TRUE, FALSE, 2)>>])

Bounded(pair, messages, calls) == [param |-> pair, messages |-> messages, calls |-> calls]

\* A service with a thread of its own whose calls are to be processed one by one.
OneByOne == Pair(
  [Base EXCEPT !.serviceClient = <<CallEntry(1, TRUE, FALSE, 1)>>],
  [Base EXCEPT !.serviceServer = <<CallEntry(1, TRUE, FALSE, 1)>>])

MCSequential == {Bounded(OneByOne, 0, 2)}

MCCandidates ==
  {Bounded(p, 3, 0) : p \in {Directions(2), Directions(3), Directions(4), Mismatch}}
    \cup {Bounded(p, 2, 0) : p \in {Loop, NamedLoop, TfLoop} \cup AllFlags}
    \cup {Bounded(p, 1, 0) : p \in Edges}
    \cup {Bounded(SameChannel, 0, 2), Bounded(Groups, 0, 2), Bounded(Shared, 0, 3),
          Bounded(Unanswered, 0, 5), Bounded(Unanswered, 1, 4)}
    \cup {Bounded(Mixed, 1, 1)}
=============================================================================
